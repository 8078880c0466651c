\* Two nodes, one key with two values, two puts, one crash; a member is dead after
\* two silent intervals and anti-entropy runs every third one.
CONSTANTS
  Node = {n1, n2}
  Key = {k}
  Value = {v1, v2}
  NoValue = NoValue
  SuspectTicks = 0
  DeadTicks = 1
  SyncTicks = 3
  Timely = TRUE
  MaxNow = 4
  MaxPuts = 2
  MaxCrashes = 1
SYMMETRY Symmetry
SPECIFICATION Spec
INVARIANT TypeOK
INVARIANT HeartbeatWasReached
INVARIANT EntriesWerePut
INVARIANT QuietAgreement
PROPERTY EchoFreezesHeartbeat
PROPERTY VerdictIsFinal
PROPERTY VersionsGrow
\* The bounds on the clock, the puts and the crashes end every behaviour.
CHECK_DEADLOCK FALSE
