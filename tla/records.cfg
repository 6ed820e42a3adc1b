SPECIFICATION Spec
CONSTANTS
    Names <- MCNames
    Lower <- MCLower
    IPs = {ip1, ip2}
    ip1 = ip1
    ip2 = ip2
    NoIP = NoIP
    NoMeta = NoMeta
    Writers = {w1, w2}
    Readers = {r1}
    Ops <- MCOps
    Free = Free
    NoCall = NoCall
INVARIANTS TypeOK HighestTimestampWins MapsInStep
PROPERTIES MetaOnlyAdvances RefinesAtomic
SYMMETRY MCSymmetry
