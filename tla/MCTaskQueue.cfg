\* Two nodes, one of which sends its tasks away instead of executing them, and two
\* tasks; elections and crashes are not bounded.
CONSTANTS
  Node = {n1, n2}
  None = None
  Task = {t1, t2}
  SameId = {n1}
SPECIFICATION TaskSpec
INVARIANT TaskTypeOK
INVARIANT HandedOverOnce
INVARIANT SendingIsQueued
PROPERTY TaskLife
PROPERTY QueueIsWorkedOff
