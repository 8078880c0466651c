\* Two nodes, one object key with one content, two versions; elections and crashes are
\* not bounded.
CONSTANTS
  Node = {n1, n2}
  None = None
  Key = {"manifest", "history"}
  Obj = {o1}
  Data = {d1}
  Empty = Empty
  Absent = Absent
  MaxTime = 2
SPECIFICATION ManifestSpec
INVARIANT ManifestTypeOK
 
INVARIANT CacheGoesOnFromDisk
INVARIANT ManifestNotStale
PROPERTY KeepsHistory
SYMMETRY Symmetry
