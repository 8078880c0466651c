---------------------------- MODULE RaftCluster ----------------------------
(***************************************************************************)
(* The RAFT engine of engine/cluster/raft.py: one process per node, each   *)
(* running an election loop, a heartbeat loop and a TCP server, with the   *)
(* cached client connections of _send_rpc between every pair of nodes.     *)
(*                                                                         *)
(* What is abstracted.  Time: election_timeout may have elapsed at any     *)
(* moment, so last_heartbeat is not kept and StartElection is guarded by   *)
(* the role only.  Logs: heartbeats always carry entries = [] and nothing  *)
(* else appends, so log, commit_index, next_index and match_index stay at  *)
(* their initial values and the log fields of messages are constants.      *)
(* Replies: a sender never reads its connection, so they have no effect.   *)
(*                                                                         *)
(* What is kept.  The receiver of a connection performs ONE read and       *)
(* handles ONE message (_handle_connection), while the sender caches the   *)
(* connection for ever: after that read everything written to it is lost,  *)
(* and two messages found by that one read are not JSON and are both lost. *)
(***************************************************************************)
EXTENDS Naturals

CONSTANTS Node,       \* node identities (the ports)
          None,       \* Python's None in voted_for and leader_id
          MaxTerm,    \* bound: no node campaigns for a later term
          MaxCrashes, \* bound: process crashes in a behaviour
          MaxRounds   \* bound: heartbeat rounds in a behaviour

ASSUME RaftAssumption ==
    /\ None \notin Node
    /\ MaxTerm \in Nat
    /\ MaxCrashes \in Nat
    /\ MaxRounds \in Nat

VARIABLES
    up,            \* node -> its process is running and its server listens
    state,         \* node -> FOLLOWER, CANDIDATE or LEADER
    current_term,  \* node -> term
    voted_for,     \* node -> node or None
    leader_id,     \* node -> node or None
    campaigning    \* node -> its election loop is asleep inside _start_election

VARIABLES
    transport_cache,  \* node -> peers it holds a cached connection to
    opening,          \* sender -> receiver -> messages whose send awaits open_connection
    buffer,           \* sender -> receiver -> message unread on the cached connection
    displaced         \* sender -> receiver -> messages unread on replaced connections

VARIABLES
    campaigned,  \* history: the <<node, term>> pairs that started an election
    elected,     \* history: the <<node, term>> pairs that became leader
    crashes,     \* crashes so far
    rounds       \* heartbeat rounds so far

nodeVars == <<up, state, current_term, voted_for, leader_id, campaigning>>
netVars  == <<transport_cache, opening, buffer, displaced>>
auxVars  == <<campaigned, elected, crashes, rounds>>
vars     == <<nodeVars, netVars, auxVars>>

Role == {"FOLLOWER", "CANDIDATE", "LEADER"}

\* The sender of a message is the connection's: candidate_id, leader_id.  The
\* round tells the heartbeats of one term apart; vote requests have round 0.
Message == [type : {"RequestVote", "AppendEntries"}, term : Nat, round : Nat]

Init ==
    /\ up = [n \in Node |-> FALSE]
    /\ state = [n \in Node |-> "FOLLOWER"]
    /\ current_term = [n \in Node |-> 0]
    /\ voted_for = [n \in Node |-> None]
    /\ leader_id = [n \in Node |-> None]
    /\ campaigning = [n \in Node |-> FALSE]
    /\ transport_cache = [n \in Node |-> {}]
    /\ opening = [n \in Node |-> [p \in Node |-> {}]]
    /\ buffer = [n \in Node |-> [p \in Node |-> {}]]
    /\ displaced = [n \in Node |-> [p \in Node |-> {}]]
    /\ campaigned = {}
    /\ elected = {}
    /\ crashes = 0
    /\ rounds = 0
-----------------------------------------------------------------------------
(* The transport *)

\* _send_rpc to every peer.  Without a cached connection the send waits for
\* open_connection.  On a cached one the bytes join those unread: nothing is
\* gained if the peer's single read is over, and if it is still to come it finds
\* either the first message alone or, for the receivers in garbled, more than
\* one, which json.loads rejects.
Broadcast(n, m) ==
    /\ opening' = [opening EXCEPT ![n] = [p \in Node |->
           IF p = n \/ p \in transport_cache[n]
           THEN opening[n][p] ELSE opening[n][p] \cup {m}]]
    /\ \E garbled \in SUBSET transport_cache[n] :
           buffer' = [buffer EXCEPT ![n] = [p \in Node |->
               IF p \in garbled THEN {} ELSE buffer[n][p]]]
    /\ UNCHANGED <<transport_cache, displaced>>

\* open_connection returns: the connection replaces the cached one, if another
\* send opened one meanwhile, and m is written to it.
Connect(n, p, m) ==
    /\ m \in opening[n][p]
    /\ up[p]
    /\ opening' = [opening EXCEPT ![n][p] = @ \ {m}]
    /\ transport_cache' = [transport_cache EXCEPT ![n] = @ \cup {p}]
    /\ displaced' = [displaced EXCEPT ![n][p] = @ \cup buffer[n][p]]
    /\ buffer' = [buffer EXCEPT ![n][p] = {m}]
    /\ UNCHANGED <<nodeVars, auxVars>>

\* open_connection raises: the message is dropped and nothing is cached.
ConnectFails(n, p, m) ==
    /\ m \in opening[n][p]
    /\ ~up[p]
    /\ opening' = [opening EXCEPT ![n][p] = @ \ {m}]
    /\ UNCHANGED <<nodeVars, transport_cache, buffer, displaced, auxVars>>

\* The one read of a connection from n, made by node p.
Read(n, p, m) ==
    /\ up[p]
    /\ \/ /\ m \in buffer[n][p]
          /\ buffer' = [buffer EXCEPT ![n][p] = {}]
          /\ UNCHANGED displaced
       \/ /\ m \in displaced[n][p]
          /\ displaced' = [displaced EXCEPT ![n][p] = @ \ {m}]
          /\ UNCHANGED buffer
    /\ UNCHANGED <<transport_cache, opening>>
-----------------------------------------------------------------------------
(* The node *)

\* Mutant: the guard of both handlers against older terms is dropped.
NeverStale(n, m) == FALSE

\* A message of an older term is only refused.
Stale(n, m) == m.term < current_term[n]

\* Mutant: a vote already given is given again.
AlwaysFree(n, c, m) == TRUE

\* The vote of n is free for c; a newer term has cleared it first.
VoteFree(n, c, m) == m.term > current_term[n] \/ voted_for[n] \in {None, c}

\* Mutant: a candidate that knows a leader does not lead.
WinsUnlessLed(n) == state[n] = "CANDIDATE" /\ leader_id[n] = None

\* "Check if majority": it is enough to be a candidate still.
Wins(n) == state[n] = "CANDIDATE"

\* Mutant: candidates send heartbeats too.
SendsUnlessFollower(n) == state[n] # "FOLLOWER"

\* Who sends heartbeats.
SendsHeartbeats(n) == state[n] = "LEADER"

\* start: the server listens and the two loops run.
Start(n) ==
    /\ ~up[n]
    /\ up' = [up EXCEPT ![n] = TRUE]
    /\ UNCHANGED <<state, current_term, voted_for, leader_id, campaigning,
                   netVars, auxVars>>

\* _election_loop and _start_election up to the sleep.
StartElection(n) ==
    /\ up[n]
    /\ state[n] = "FOLLOWER"
    /\ ~campaigning[n]
    /\ current_term[n] < MaxTerm
    /\ state' = [state EXCEPT ![n] = "CANDIDATE"]
    /\ current_term' = [current_term EXCEPT ![n] = @ + 1]
    /\ voted_for' = [voted_for EXCEPT ![n] = n]
    /\ campaigning' = [campaigning EXCEPT ![n] = TRUE]
    /\ Broadcast(n, [type |-> "RequestVote", term |-> current_term[n] + 1,
                     round |-> 0])
    /\ campaigned' = campaigned \cup {<<n, current_term[n] + 1>>}
    /\ UNCHANGED <<up, leader_id, elected, crashes, rounds>>

\* _start_election after the sleep: a node that is still CANDIDATE leads.
FinishElection(n) ==
    /\ up[n]
    /\ campaigning[n]
    /\ campaigning' = [campaigning EXCEPT ![n] = FALSE]
    /\ \/ /\ Wins(n)
          /\ state' = [state EXCEPT ![n] = "LEADER"]
          /\ leader_id' = [leader_id EXCEPT ![n] = n]
          /\ elected' = elected \cup {<<n, current_term[n]>>}
       \/ /\ ~Wins(n)
          /\ UNCHANGED <<state, leader_id, elected>>
    /\ UNCHANGED <<up, current_term, voted_for, netVars, campaigned, crashes,
                   rounds>>

\* _heartbeat_loop, one round of a leader.
Heartbeat(n) ==
    /\ up[n]
    /\ SendsHeartbeats(n)
    /\ rounds < MaxRounds
    /\ rounds' = rounds + 1
    /\ Broadcast(n, [type |-> "AppendEntries", term |-> current_term[n],
                     round |-> rounds + 1])
    /\ UNCHANGED <<nodeVars, campaigned, elected, crashes>>

\* _rpc_request_vote at node n, for candidate c.  A newer term clears the vote
\* and the role, but not leader_id; the vote is then free to be granted.
HandleRequestVote(n, c, m) ==
    /\ m.type = "RequestVote"
    /\ Read(c, n, m)
    /\ LET newer == m.term > current_term[n]
           grant == ~Stale(n, m) /\ VoteFree(n, c, m)
       IN  /\ current_term' = IF newer
                              THEN [current_term EXCEPT ![n] = m.term]
                              ELSE current_term
           /\ state' = IF newer THEN [state EXCEPT ![n] = "FOLLOWER"] ELSE state
           /\ voted_for' = IF grant
                           THEN [voted_for EXCEPT ![n] = c] ELSE voted_for
    /\ UNCHANGED <<up, leader_id, campaigning, auxVars>>

\* Mutant: the whole message is kept where its leader_id belongs.
KeepsWholeMessage(n, l, m) ==
    /\ m.type = "AppendEntries"
    /\ Read(l, n, m)
    /\ ~Stale(n, m)
    /\ leader_id' = [leader_id EXCEPT ![n] = m]
    /\ UNCHANGED <<up, state, current_term, voted_for, campaigning, auxVars>>

\* _rpc_append_entries at node n, from leader l.  It adopts a newer term without
\* clearing voted_for.
HandleAppendEntries(n, l, m) ==
    /\ m.type = "AppendEntries"
    /\ Read(l, n, m)
    /\ IF Stale(n, m)
       THEN UNCHANGED <<state, leader_id, current_term>>
       ELSE /\ state' = [state EXCEPT ![n] = "FOLLOWER"]
            /\ leader_id' = [leader_id EXCEPT ![n] = l]
            /\ current_term' = [current_term EXCEPT ![n] = m.term]
    /\ UNCHANGED <<up, voted_for, campaigning, auxVars>>

\* The process of node n dies.  Nothing of a RaftNode is saved, so its next
\* Start has the state of a new object.  What was written to it is lost, and its
\* peers keep their cached connections to the dead process.
Crash(n) ==
    /\ up[n]
    /\ crashes < MaxCrashes
    /\ crashes' = crashes + 1
    /\ up' = [up EXCEPT ![n] = FALSE]
    /\ state' = [state EXCEPT ![n] = "FOLLOWER"]
    /\ current_term' = [current_term EXCEPT ![n] = 0]
    /\ voted_for' = [voted_for EXCEPT ![n] = None]
    /\ leader_id' = [leader_id EXCEPT ![n] = None]
    /\ campaigning' = [campaigning EXCEPT ![n] = FALSE]
    /\ transport_cache' = [transport_cache EXCEPT ![n] = {}]
    /\ opening' = [opening EXCEPT ![n] = [p \in Node |-> {}]]
    /\ buffer' = [p \in Node |-> [q \in Node |->
           IF n \in {p, q} THEN {} ELSE buffer[p][q]]]
    /\ displaced' = [p \in Node |-> [q \in Node |->
           IF q = n THEN {}
           ELSE displaced[p][q] \cup (IF p = n THEN buffer[p][q] ELSE {})]]
    /\ UNCHANGED <<campaigned, elected, rounds>>

Next ==
    \/ \E n \in Node : \/ Start(n)
                       \/ StartElection(n)
                       \/ FinishElection(n)
                       \/ Heartbeat(n)
                       \/ Crash(n)
    \/ \E n, p \in Node :
           \/ \E m \in opening[n][p] : Connect(n, p, m) \/ ConnectFails(n, p, m)
           \/ \E m \in buffer[p][n] \cup displaced[p][n] :
                  HandleRequestVote(n, p, m) \/ HandleAppendEntries(n, p, m)

\* The event loop keeps running the election loop of a live process.
Fairness == \A n \in Node : WF_vars(FinishElection(n))

Spec == Init /\ [][Next]_vars /\ Fairness
-----------------------------------------------------------------------------
(* Properties *)

\* Type correctness of the fields of RaftNode and of the connections.
TypeOK ==
    /\ up \in [Node -> BOOLEAN]
    /\ state \in [Node -> Role]
    /\ current_term \in [Node -> Nat]
    /\ voted_for \in [Node -> Node \cup {None}]
    /\ leader_id \in [Node -> Node \cup {None}]
    /\ campaigning \in [Node -> BOOLEAN]
    /\ transport_cache \in [Node -> SUBSET Node]
    /\ opening \in [Node -> [Node -> SUBSET Message]]
    /\ buffer \in [Node -> [Node -> SUBSET Message]]
    /\ displaced \in [Node -> [Node -> SUBSET Message]]
    /\ campaigned \in SUBSET (Node \X Nat)
    /\ elected \in SUBSET (Node \X Nat)
    /\ crashes \in Nat
    /\ rounds \in Nat

\* The messages from n to p that are on their way, wherever they are.
InFlight(n, p) == opening[n][p] \cup buffer[n][p] \cup displaced[n][p]

\* A node that campaigns or leads has not given its vote away: whatever order
\* vote requests, heartbeats and the end of its own election come in, the vote of
\* _start_election is still its own (raft.py, _rpc_request_vote).
VoteNotGivenAway ==
    \A n \in Node : state[n] \in {"CANDIDATE", "LEADER"} => voted_for[n] = n

\* The second timeout of _election_loop, for a CANDIDATE, is dead code: a
\* candidate exists only while its own loop sleeps inside _start_election.
CandidateIsCampaigning ==
    \A n \in Node : state[n] = "CANDIDATE" => campaigning[n]

\* leader_id, which the task queue, the storage and the event bus route by, is
\* never a phantom: it names a node that finished an election, for a term no later
\* than the node's own, even when that leader has since been deposed or crashed.
LeaderWasElected ==
    \A n \in Node : leader_id[n] # None =>
        \E t \in 0..current_term[n] : <<leader_id[n], t>> \in elected

\* While a process lives its term never decreases, and within a term a vote once
\* given is never changed (raft.py, _rpc_request_vote and _rpc_append_entries).
TermsAndVotes ==
    [][\A n \in Node : up[n] /\ up'[n] =>
          /\ current_term'[n] >= current_term[n]
          /\ current_term'[n] = current_term[n] /\ voted_for[n] # None
                 => voted_for'[n] = voted_for[n]]_vars

\* A leader stops leading only for another node, one that campaigned for the term
\* the deposed leader is then in, and this term is not older than its own.
DeposedByPeer ==
    [][\A n \in Node : state[n] = "LEADER" /\ up'[n] /\ state'[n] # "LEADER" =>
          /\ current_term'[n] >= current_term[n]
          /\ \E p \in Node \ {n} : <<p, current_term'[n]>> \in campaigned]_vars

\* The nodes that ever finished an election in the lead.
Winners == {e[1] : e \in elected}

Promise == INSTANCE Leadership WITH winners <- Winners

\* What the task queue, the storage and the event bus may count on: every step
\* changes leader_id as Leadership says, or not at all.
ImplementsLeadership == Promise!Spec

\* An election bears fruit: a campaign for a term is followed by a leadership of
\* that term or of a later one, unless a process crashes, although no vote is
\* ever counted and requests are lost on spent connections.
CampaignYieldsLeader ==
    \A n \in Node, t \in 1..MaxTerm :
        (campaigning[n] /\ current_term[n] = t)
            ~> (crashes > 0 \/ \E e \in elected : e[2] >= t)

\* What the comment "# Check if majority" of _start_election promises, and RAFT
\* is chosen for: a term has at most one leader.
ElectionSafety ==
    \A n, p \in Node : state[n] = "LEADER" /\ state[p] = "LEADER"
                       /\ current_term[n] = current_term[p] => n = p
=============================================================================
