SPECIFICATION FairSpec
CONSTANTS
    c1 = c1
    c2 = c2
    c3 = c3
    Names <- MCNames
    Lower <- MCLower
    Containers = {c1, c2, c3}
    Hostnames <- MCHostnames
    Overlap = TRUE
    MaxBackoff = 5
    MaxChanges = 4
    MaxBadInspects = 1
INVARIANTS TypeOK TrackedFollowsDaemon RecordsFollowTracked NoClientLeak
CHECK_DEADLOCK FALSE
PROPERTIES StopReturns ResyncHeals
