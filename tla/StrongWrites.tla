---------------------------- MODULE StrongWrites ----------------------------
(***************************************************************************)
(* What the callers of the manifest database have been told: a history     *)
(* beside ManifestDB, for the promise of its strong writes.                *)
(***************************************************************************)
EXTENDS ManifestDB

VARIABLE told   \* node -> the last version that a write of its process returned, or 0

WritesInit == ManifestInit /\ told = [n \in Node |-> 0]

\* put_strong caches the version it returns, wherever it was written.
Returned(n) == clock' > clock /\ mcache'[n] \notin {<<>>, mcache[n]}

WritesNext ==
    /\ ManifestNext
    /\ told' = [n \in Node |-> IF ~up'[n] THEN 0
                               ELSE IF Returned(n) THEN clock' ELSE told[n]]

WritesSpec == WritesInit /\ [][WritesNext]_<<vars, told>>
-----------------------------------------------------------------------------
(* Properties *)

\* "Strongly consistent write using RAFT log replication": whoever wrote a version reads
\* that one or a later one from then on.  It does not hold: put_strong of a node that
\* follows sends the write to a leader that has no handler for it, and says it is done.
WritesAreRead ==
    \A n \in Node : mcache[n] # <<>> => mcache[n][1].version >= told[n]
=============================================================================
