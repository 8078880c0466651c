\* Three processes, so that a publisher has two peers to walk: one of them may be sent to
\* twice, the other not at all.  One event, two callbacks on each process; elections and
\* crashes are not bounded.
CONSTANTS
  Node = {n1, n2, n3}
  None = None
  c1 = c1
  e1 = e1
  e2 = e2
  Channel <- MCChannel
  Event <- MCOneEvent
  channel <- MCchannel
  MaxSubs = 2
SPECIFICATION BusSpec
INVARIANT SeenInTurnAndStored
SYMMETRY NodeSymmetry
