\* Three fibers, requests beyond both ends of the range, two signals.
CONSTANTS
  MaxFibers = 3
  MaxSignals = 2
  Requested <- BothEnds
SPECIFICATION Spec
INVARIANT TypeOK
INVARIANT NoFiberLost
INVARIANT OneBodyAtATime
PROPERTY NoPriorityInversion
PROPERTY DeadStaysDead
PROPERTY FirstFiberRuns
