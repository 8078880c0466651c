--------------------------- MODULE VersionedStore ---------------------------
(***************************************************************************)
(* What the manifest database and the storage below it promise: every node *)
(* keeps a manifest and a history of its own, in versions that only grow.  *)
(* ManifestDB is shown to implement it.                                    *)
(*                                                                         *)
(* It promises less than the strongly consistent store the code speaks of: *)
(* a put may be stored nowhere, and the nodes need not agree.              *)
(***************************************************************************)
EXTENDS Naturals, SequencesExt

CONSTANTS Node

VARIABLES
    clock,      \* the last version that was given
    current,    \* node -> <<its manifest>>, or <<>>
    history     \* node -> its list of past manifests

Versions(list) == {list[i].version : i \in DOMAIN list}

Init ==
    /\ clock = 0
    /\ current = [n \in Node |-> <<>>]
    /\ history = [n \in Node |-> <<>>]

\* A manifest gets a version, with data that is new or was put once; n stores it.
Put(n) ==
    /\ clock' = clock + 1
    /\ \E d \in 1 .. clock' :
           current' = [current EXCEPT ![n] = <<[version |-> clock', data |-> d]>>]
    /\ UNCHANGED history

\* A manifest gets a version, and is stored nowhere.
Lose ==
    /\ clock' = clock + 1
    /\ UNCHANGED <<current, history>>

\* The history of n goes on, with manifests that carried new data when they were put,
\* none of them twice.
Log(n) ==
    /\ IsStrictPrefix(history[n], history'[n])
    /\ \A i \in DOMAIN history'[n] : history'[n][i].data = history'[n][i].version
    /\ Versions(history'[n]) \subseteq 1 .. clock
    /\ \A i, j \in DOMAIN history'[n] :
           history'[n][i] = history'[n][j] => i = j
    /\ history' = [history EXCEPT ![n] = history'[n]]
    /\ UNCHANGED <<clock, current>>

Next == Lose \/ \E n \in Node : Put(n) \/ Log(n)

Spec == Init /\ [][Next]_<<clock, current, history>>
=============================================================================
