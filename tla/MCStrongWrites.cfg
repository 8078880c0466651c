\* Two nodes, no objects to speak of, two versions: one written where it is stored, one
\* written where it is sent away.
CONSTANTS
  Node = {n1, n2}
  None = None
  Key = {"manifest", "history"}
  Obj = {o1}
  Data = {d1}
  Empty = Empty
  Absent = Absent
  MaxTime = 2
SPECIFICATION WritesSpec
INVARIANT WritesAreRead
