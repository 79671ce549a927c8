SPECIFICATION Spec
CONSTANTS
    MaxInits = 2
    MaxEvents = 3
INVARIANTS
    TypeOK
    RunningIsServed
    AtMostOneLate
    DestructionComplete
    StoppedIsQuiet
PROPERTIES
    JoinWaitsForEvent
    InboxServed
CHECK_DEADLOCK FALSE
