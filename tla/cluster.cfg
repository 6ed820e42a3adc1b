SPECIFICATION SyncSpec
CONSTANTS
    Names <- MCNames
    Lower <- MCLower
    IPs = {ip1, ip2}
    ip1 = ip1
    ip2 = ip2
    c1 = c1
    NoIP = NoIP
    NoMeta = NoMeta
    Nodes = {1, 2}
    HostIP <- MCHostIP
    Containers = {c1}
    On <- MCOn
    Label <- MCLabel
    ChanSize = 1
    MaxTs = 2
    MaxCrashes <- MCOwnerCrashes
    Idle = Idle
    NoWrite = NoWrite
    NoPush = NoPush
INVARIANTS TypeOK OwnerServes OwnerForgets
PROPERTIES AddsSpread AnnouncementAccepted RefinesDirectory
