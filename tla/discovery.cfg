SPECIFICATION FairSpec
CONSTANTS
  Nodes = {1, 2, 3}
  MaxFaults = 1
INVARIANT TypeOK
PROPERTIES PeersCurrent NobodyAlone OneCluster
CHECK_DEADLOCK FALSE
