SPECIFICATION Spec
CONSTANT MaxEvents = 1
CHECK_DEADLOCK FALSE
INVARIANT JoinOnlyWarns
