SPECIFICATION FairSpec
CONSTANT MaxEvents = 3
CHECK_DEADLOCK FALSE
INVARIANTS TypeOK NothingLost  NoCircularWait
PROPERTY ShutdownCompletes
