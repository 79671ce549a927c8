CONSTANT Events <- MCEvents
SPECIFICATION Spec
INVARIANT ShortestDelivered
CHECK_DEADLOCK FALSE
