CONSTANTS
  Threads = {t1, t2}
  NoThread = NoThread
  Mutexes = {app, led}
  NoMutex = NoMutex
  LedMutex = led
  Initialiser = t1
  MaxNesting = 2
  MaxBlinks = 2
  Programs = {{"mutex", "led"}, {"semaphore"}, {"thread"}, {"serial"}}
  Counts = {0, 1, 2}
  SemValueMax = 2
  MaxGives = 3
  StackSizes = {0, 5, 21, 63}
  Priorities <- MCPriorities
  MinStack = 8
  Word = 4
  SizeT = 64
  MinPriority = 1
  MaxPriority = 3
  Wrappers = {w1, w2, w3}
  Ports = {p1, p2}
  NoPort = NoPort
SPECIFICATION Spec
INVARIANTS LockersExact BlinksKept PermitsAccounted ThreadsBalanced PortsOwned
PROPERTY CallsReturn
CHECK_DEADLOCK FALSE
