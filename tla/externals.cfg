SPECIFICATION FairSpec
CONSTANTS
    one = one
    two = two
    huge = huge
    t1 = t1
    t2 = t2
    Files = {1, 2, 3}
    Relevant = {1, 2}
    Docs = {one, two, huge}
    Unusable = {huge}
    Parsed <- MCParsed
    Names <- MCNames
    Dirs <- MCDirs
    Lower <- MCLower
    Starter = Starter
    Timers = {t1, t2}
    QueueSize = 1
    MaxChanges = 2
    MaxFaults = 1
    NoFile = NoFile
    Idle = Idle
INVARIANTS TypeOK QuietIsCurrent
PROPERTIES CatchesUp StopHalts
CHECK_DEADLOCK FALSE
