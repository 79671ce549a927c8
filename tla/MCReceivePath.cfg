CONSTANT Events <- MCEvents
SPECIFICATION Spec
INVARIANTS Tiled DeliversWhole AtMostOnePast ExtractsFirst
PROPERTY Returns
CHECK_DEADLOCK FALSE
