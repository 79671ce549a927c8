CONSTANT Events <- MCEvents
SPECIFICATION Spec
INVARIANT SpanInside
CHECK_DEADLOCK FALSE
