CONSTANTS
  Threads = {t1, t2}
  NoThread = NoThread
  Objects = {o1, o2}
  NoObject = NoObject
  Names = {"/queue", ""}
  Programs <- MCPrograms
  Clocks <- MCClocks
  MaxSec = 9
  InfiniteTimeout = 9999
  Initialiser = t1
  MaxQueues = 2
  MaxRuns = 2
SPECIFICATION Spec
SYMMETRY Symmetry
INVARIANTS ChainVerdict LeftoversExplained DeadlineExact
CHECK_DEADLOCK FALSE
