--------------------------- MODULE MCRaftCluster ---------------------------
EXTENDS RaftCluster, TLC
NodeSymmetry == Permutations(Node)
=============================================================================
