---------------------------- MODULE MCManifestDB ----------------------------
EXTENDS ManifestDB, TLC
Symmetry == Permutations(Node)
=============================================================================
