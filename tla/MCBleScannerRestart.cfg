SPECIFICATION Spec
CONSTANTS
    MaxInits = 1
    MaxEvents = 1
INVARIANT StartSpawnsThread
CHECK_DEADLOCK FALSE
