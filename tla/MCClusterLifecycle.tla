------------------------- MODULE MCClusterLifecycle -------------------------
EXTENDS ClusterLifecycle
============================================================================
