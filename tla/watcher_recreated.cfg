SPECIFICATION Spec
CONSTANTS
    c1 = c1
    c2 = c2
    c3 = c3
    Names <- MCNames
    Lower <- MCLower
    Containers = {c1, c2}
    Hostnames <- MCShared
    Overlap = FALSE
    MaxBackoff = 5
    MaxChanges = 2
    MaxBadInspects = 1
CHECK_DEADLOCK FALSE
INVARIANT TrackedIsServed
