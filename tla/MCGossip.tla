----------------------------- MODULE MCGossip -----------------------------
EXTENDS Gossip, TLC
Symmetry == Permutations(Node) \cup Permutations(Value)
=============================================================================
