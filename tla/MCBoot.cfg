CONSTANTS
  Threads = {t1}
  NoThread = NoThread
  StackSizes = {16}
  Priorities = {1}
  MinStack = 8
  Word = 4
  SizeT = 64
  MinPriority = 1
  MaxPriority = 3
  Applications = {"AppEntry", "stops"}
  WdtTimeout = 10
  MaxDelay = 3
  MaxBoots = 3
SPECIFICATION Spec
INVARIANT CallsLiving
PROPERTY BootRecovers
CHECK_DEADLOCK FALSE
