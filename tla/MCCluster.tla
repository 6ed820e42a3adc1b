----------------------------- MODULE MCCluster -----------------------------
EXTENDS Cluster

CONSTANTS ip1, ip2, c1

MCNames == {"App", "app"}
MCLower == [n \in MCNames |-> "app"]
MCHostIP == [n \in Nodes |-> IF n = 1 THEN ip1 ELSE ip2]

MCOn == [c \in Containers |-> 1]
MCLabel == [c \in Containers |-> "App"]

MCNoCrash == [n \in Nodes |-> 0]
MCOwnerCrashes == [n \in Nodes |-> IF n = 1 THEN 1 ELSE 0]
============================================================================
