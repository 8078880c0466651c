----------------------------- MODULE Leadership -----------------------------
(***************************************************************************)
(* What RaftEngine promises to the components that route by leader_id: the *)
(* task queue, the storage and the event bus (engine/cluster).  RaftCluster *)
(* is shown to implement it.                                               *)
(*                                                                         *)
(* It promises little.  A node names no leader, itself after an election   *)
(* of its own, or another node that won an election once; the leader named *)
(* may be deposed or dead, and nodes may name different ones.              *)
(***************************************************************************)
CONSTANTS Node, None

VARIABLES
    up,         \* node -> its process runs
    leader_id,  \* node -> node or None
    winners     \* the nodes that won an election

leadershipVars == <<up, leader_id, winners>>

Init ==
    /\ up = [n \in Node |-> FALSE]
    /\ leader_id = [n \in Node |-> None]
    /\ winners = {}

Start(n) ==
    /\ ~up[n]
    /\ up' = [up EXCEPT ![n] = TRUE]
    /\ UNCHANGED <<leader_id, winners>>

\* An election of n ends, and n leads.
Win(n) ==
    /\ up[n]
    /\ leader_id' = [leader_id EXCEPT ![n] = n]
    /\ winners' = winners \cup {n}
    /\ UNCHANGED up

\* n hears from another node that led once.
Learn(n, l) ==
    /\ up[n]
    /\ l \in winners \ {n}
    /\ leader_id' = [leader_id EXCEPT ![n] = l]
    /\ UNCHANGED <<up, winners>>

Crash(n) ==
    /\ up[n]
    /\ up' = [up EXCEPT ![n] = FALSE]
    /\ leader_id' = [leader_id EXCEPT ![n] = None]
    /\ UNCHANGED winners

Next == \E n \in Node : \/ Start(n) \/ Win(n) \/ Crash(n)
                        \/ \E l \in Node : Learn(n, l)

Spec == Init /\ [][Next]_leadershipVars
=============================================================================
