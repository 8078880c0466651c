\* Three nodes, one term: no vote is needed to lead.
CONSTANTS
  Node = {n1, n2, n3}
  None = None
  MaxTerm = 1
  MaxCrashes = 0
  MaxRounds = 1
SYMMETRY NodeSymmetry
SPECIFICATION Spec
INVARIANT ElectionSafety
CHECK_DEADLOCK FALSE
