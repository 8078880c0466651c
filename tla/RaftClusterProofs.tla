------------------------- MODULE RaftClusterProofs -------------------------
(***************************************************************************)
(* Proofs about RaftCluster for every set of nodes and every bound.        *)
(***************************************************************************)
EXTENDS RaftCluster, TLAPS

-----------------------------------------------------------------------------
(* The inductive invariant *)

\* Every message on its way comes from another node, which campaigned for the
\* message's term and, if it is a heartbeat, led that term.
MessagesBacked ==
    \A n, p \in Node : \A m \in InFlight(n, p) :
        /\ n # p
        /\ <<n, m.term>> \in campaigned
        /\ m.type = "AppendEntries" => <<n, m.term>> \in elected

\* Every candidate campaigned for its term, every leader also won it.
RolesBacked ==
    \A n \in Node :
        /\ state[n] \in {"CANDIDATE", "LEADER"}
               => <<n, current_term[n]>> \in campaigned
        /\ state[n] = "LEADER" => <<n, current_term[n]>> \in elected

IInv ==
    /\ TypeOK
    /\ MessagesBacked
    /\ RolesBacked
    /\ VoteNotGivenAway
    /\ CandidateIsCampaigning
    /\ LeaderWasElected

-----------------------------------------------------------------------------
(* The conditions of the code are read as they stand in every step below. *)

USE DEF Stale, VoteFree, Wins, SendsHeartbeats

-----------------------------------------------------------------------------
(* What the operations of the transport do to the messages on their way *)

\* Broadcast puts nothing but m on its way, to peers of the sender only.
LEMMA BroadcastAdds ==
    ASSUME TypeOK, NEW n \in Node, NEW m \in Message, Broadcast(n, m),
           NEW a \in Node, NEW b \in Node, NEW x \in InFlight(a, b)'
    PROVE  x \in InFlight(a, b) \/ (a = n /\ b # n /\ x = m)
  BY DEF Broadcast, InFlight, TypeOK

\* The sender's network variables keep their types over a broadcast.
LEMMA BroadcastType ==
    ASSUME TypeOK, NEW n \in Node, NEW m \in Message, Broadcast(n, m)
    PROVE  /\ transport_cache' \in [Node -> SUBSET Node]
           /\ opening' \in [Node -> [Node -> SUBSET Message]]
           /\ buffer' \in [Node -> [Node -> SUBSET Message]]
           /\ displaced' \in [Node -> [Node -> SUBSET Message]]
  BY DEF Broadcast, TypeOK

\* A read takes a message that was on its way and adds none.
LEMMA ReadTakes ==
    ASSUME TypeOK, NEW n \in Node, NEW p \in Node, NEW m, Read(n, p, m)
    PROVE  /\ m \in InFlight(n, p) /\ m \in Message
           /\ \A a, b \in Node : InFlight(a, b)' \subseteq InFlight(a, b)
           /\ transport_cache' \in [Node -> SUBSET Node]
           /\ opening' \in [Node -> [Node -> SUBSET Message]]
           /\ buffer' \in [Node -> [Node -> SUBSET Message]]
           /\ displaced' \in [Node -> [Node -> SUBSET Message]]
  <1>1. CASE m \in buffer[n][p] /\ buffer' = [buffer EXCEPT ![n][p] = {}]
             /\ UNCHANGED <<displaced, transport_cache, opening>>
    BY <1>1 DEF InFlight, TypeOK
  <1>2. CASE m \in displaced[n][p]
             /\ displaced' = [displaced EXCEPT ![n][p] = @ \ {m}]
             /\ UNCHANGED <<buffer, transport_cache, opening>>
    BY <1>2 DEF InFlight, TypeOK
  <1>3. QED BY <1>1, <1>2 DEF Read

\* Opening a connection moves messages and creates none.
LEMMA ConnectMoves ==
    ASSUME TypeOK, NEW n \in Node, NEW p \in Node, NEW m,
           Connect(n, p, m) \/ ConnectFails(n, p, m)
    PROVE  /\ \A a, b \in Node : InFlight(a, b)' \subseteq InFlight(a, b)
           /\ transport_cache' \in [Node -> SUBSET Node]
           /\ opening' \in [Node -> [Node -> SUBSET Message]]
           /\ buffer' \in [Node -> [Node -> SUBSET Message]]
           /\ displaced' \in [Node -> [Node -> SUBSET Message]]
  <1>1. CASE Connect(n, p, m)
    BY <1>1 DEF Connect, InFlight, TypeOK
  <1>2. CASE ConnectFails(n, p, m)
    BY <1>2 DEF ConnectFails, InFlight, TypeOK
  <1>3. QED BY <1>1, <1>2

\* A crash only loses messages.
LEMMA CrashLoses ==
    ASSUME TypeOK, NEW n \in Node, Crash(n)
    PROVE  /\ \A a, b \in Node : InFlight(a, b)' \subseteq InFlight(a, b)
           /\ transport_cache' \in [Node -> SUBSET Node]
           /\ opening' \in [Node -> [Node -> SUBSET Message]]
           /\ buffer' \in [Node -> [Node -> SUBSET Message]]
           /\ displaced' \in [Node -> [Node -> SUBSET Message]]
  BY DEF Crash, InFlight, TypeOK

\* With no new message and growing histories, MessagesBacked is kept.
LEMMA BackedStays ==
    ASSUME MessagesBacked,
           \A a, b \in Node : InFlight(a, b)' \subseteq InFlight(a, b),
           campaigned \subseteq campaigned', elected \subseteq elected'
    PROVE  MessagesBacked'
  BY DEF MessagesBacked
\* A node that keeps its leader_id, and whose term does not fall, keeps its part of
\* LeaderWasElected while the history of leaders grows.
LEMMA LeaderStays ==
    ASSUME TypeOK, LeaderWasElected, TypeOK', elected \subseteq elected',
           NEW a \in Node, leader_id'[a] = leader_id[a], leader_id[a] # None,
           current_term[a] <= current_term'[a]
    PROVE  \E t \in 0..current_term'[a] : <<leader_id'[a], t>> \in elected'
  <1>1. current_term[a] \in Nat /\ current_term'[a] \in Nat
    BY DEF TypeOK
  <1>2. 0..current_term[a] \subseteq 0..current_term'[a]
    BY <1>1
  <1>3. QED BY <1>2 DEF LeaderWasElected
-----------------------------------------------------------------------------
(* One lemma per action *)

LEMMA StartKeeps ==
    ASSUME IInv, NEW n \in Node, Start(n)
    PROVE  IInv'
  <1> USE DEF IInv
  <1>1. TypeOK'
    BY DEF TypeOK, Start, netVars, auxVars
  <1>2. MessagesBacked'
    BY DEF MessagesBacked, InFlight, Start, netVars, auxVars
  <1>3. RolesBacked'
    BY DEF RolesBacked, Start, auxVars
  <1>4. VoteNotGivenAway' /\ CandidateIsCampaigning' /\ LeaderWasElected'
    BY DEF VoteNotGivenAway, CandidateIsCampaigning, LeaderWasElected, Start, auxVars
  <1>5. QED BY <1>1, <1>2, <1>3, <1>4

LEMMA StartElectionKeeps ==
    ASSUME IInv, NEW n \in Node, StartElection(n)
    PROVE  IInv'
  <1> DEFINE m == [type |-> "RequestVote", term |-> current_term[n] + 1,
                  round |-> 0]
  <1>1. m \in Message /\ Broadcast(n, m)
    BY DEF IInv, TypeOK, StartElection, Message
  <1>2. TypeOK'
    BY <1>1, BroadcastType DEF IInv, TypeOK, StartElection, Role
  <1>3. MessagesBacked'
    <2> SUFFICES ASSUME NEW a \in Node, NEW b \in Node, NEW x \in InFlight(a, b)'
                 PROVE  /\ a # b
                        /\ <<a, x.term>> \in campaigned'
                        /\ x.type = "AppendEntries" => <<a, x.term>> \in elected'
      BY DEF MessagesBacked
    <2>1. CASE x \in InFlight(a, b)
      BY <2>1 DEF IInv, MessagesBacked, StartElection
    <2>2. CASE a = n /\ b # n /\ x = m
      BY <2>2 DEF StartElection
    <2>3. QED BY <1>1, <2>1, <2>2, BroadcastAdds DEF IInv
  <1>4. RolesBacked'
    BY DEF IInv, TypeOK, RolesBacked, StartElection
  <1>5. VoteNotGivenAway' /\ CandidateIsCampaigning'
    BY DEF IInv, TypeOK, VoteNotGivenAway, CandidateIsCampaigning, StartElection
  <1>6. LeaderWasElected'
    <2>1. \A a \in Node : current_term[a] <= current_term'[a]
      BY DEF IInv, TypeOK, StartElection
    <2>2. leader_id' = leader_id /\ elected' = elected
      BY DEF StartElection
    <2>3. QED BY <1>2, <2>1, <2>2, LeaderStays DEF IInv, LeaderWasElected
  <1>7. QED BY <1>2, <1>3, <1>4, <1>5, <1>6 DEF IInv

LEMMA FinishElectionKeeps ==
    ASSUME IInv, NEW n \in Node, FinishElection(n)
    PROVE  IInv'
  <1>1. TypeOK'
    <2>1. elected' \in SUBSET (Node \X Nat)
      <3>1. <<n, current_term[n]>> \in Node \X Nat
        BY DEF IInv, TypeOK
      <3>2. elected' = elected \/ elected' = elected \cup {<<n, current_term[n]>>}
        BY DEF FinishElection
      <3>3. QED BY <3>1, <3>2 DEF IInv, TypeOK
    <2>2. state' \in [Node -> Role] /\ leader_id' \in [Node -> Node \cup {None}]
      <3>1. CASE state' = [state EXCEPT ![n] = "LEADER"]
                 /\ leader_id' = [leader_id EXCEPT ![n] = n]
        BY <3>1 DEF IInv, TypeOK, Role
      <3>2. CASE UNCHANGED <<state, leader_id>>
        BY <3>2 DEF IInv, TypeOK
      <3>3. QED BY <3>1, <3>2 DEF FinishElection
    <2>3. QED BY <2>1, <2>2 DEF IInv, TypeOK, FinishElection, netVars
  <1>2. MessagesBacked'
    <2>1. elected \subseteq elected' /\ campaigned' = campaigned
      BY DEF FinishElection
    <2>2. \A a, b \in Node : InFlight(a, b)' = InFlight(a, b)
      BY DEF FinishElection, netVars, InFlight
    <2>3. QED BY <2>1, <2>2, BackedStays DEF IInv
  <1>3. RolesBacked'
    BY DEF IInv, TypeOK, RolesBacked, FinishElection
  <1>4. VoteNotGivenAway' /\ CandidateIsCampaigning'
    BY DEF IInv, TypeOK, VoteNotGivenAway, CandidateIsCampaigning, FinishElection
  <1>5. LeaderWasElected'
    <2> SUFFICES ASSUME NEW a \in Node, leader_id'[a] # None
                 PROVE  \E t \in 0..current_term'[a] : <<leader_id'[a], t>> \in elected'
      BY DEF LeaderWasElected
    <2>1. elected \subseteq elected' /\ current_term' = current_term
          /\ current_term[a] \in Nat
      BY DEF IInv, TypeOK, FinishElection
    <2>2. CASE a = n /\ state[n] = "CANDIDATE"
      <3>1. leader_id'[a] = n /\ <<n, current_term[n]>> \in elected'
        BY <2>2 DEF IInv, TypeOK, FinishElection
      <3>2. current_term[n] \in 0..current_term'[n]
        BY <2>1, <2>2
      <3>3. QED BY <2>2, <3>1, <3>2
    <2>3. CASE ~(a = n /\ state[n] = "CANDIDATE")
      <3>1. leader_id'[a] = leader_id[a]
        BY <2>3 DEF IInv, TypeOK, FinishElection
      <3>2. QED BY <1>1, <2>1, <3>1, LeaderStays DEF IInv
    <2>4. QED BY <2>2, <2>3
  <1>6. QED BY <1>1, <1>2, <1>3, <1>4, <1>5 DEF IInv

LEMMA HeartbeatKeeps ==
    ASSUME IInv, NEW n \in Node, Heartbeat(n)
    PROVE  IInv'
  <1> DEFINE m == [type |-> "AppendEntries", term |-> current_term[n],
                  round |-> rounds + 1]
  <1>1. m \in Message /\ Broadcast(n, m)
    BY DEF IInv, TypeOK, Heartbeat, Message
  <1>2. TypeOK'
    BY <1>1, BroadcastType DEF IInv, TypeOK, Heartbeat, nodeVars
  <1>3. MessagesBacked'
    <2> SUFFICES ASSUME NEW a \in Node, NEW b \in Node, NEW x \in InFlight(a, b)'
                 PROVE  /\ a # b
                        /\ <<a, x.term>> \in campaigned'
                        /\ x.type = "AppendEntries" => <<a, x.term>> \in elected'
      BY DEF MessagesBacked
    <2>1. CASE x \in InFlight(a, b)
      BY <2>1 DEF IInv, MessagesBacked, Heartbeat
    <2>2. CASE a = n /\ b # n /\ x = m
      BY <2>2 DEF IInv, RolesBacked, Heartbeat
    <2>3. QED BY <1>1, <2>1, <2>2, BroadcastAdds DEF IInv
  <1>4. RolesBacked' /\ VoteNotGivenAway' /\ CandidateIsCampaigning'
    BY DEF IInv, RolesBacked, VoteNotGivenAway, CandidateIsCampaigning, Heartbeat,
           nodeVars
  <1>5. LeaderWasElected'
    BY DEF IInv, LeaderWasElected, Heartbeat, nodeVars
  <1>6. QED BY <1>2, <1>3, <1>4, <1>5 DEF IInv

LEMMA ConnectKeeps ==
    ASSUME IInv, NEW n \in Node, NEW p \in Node, NEW m,
           Connect(n, p, m) \/ ConnectFails(n, p, m)
    PROVE  IInv'
  <1>1. UNCHANGED <<nodeVars, auxVars>>
    BY DEF Connect, ConnectFails
  <1>2. TypeOK'
    BY <1>1, ConnectMoves DEF IInv, TypeOK, nodeVars, auxVars
  <1>3. MessagesBacked'
    BY <1>1, ConnectMoves, BackedStays DEF IInv, auxVars
  <1>4. RolesBacked' /\ VoteNotGivenAway' /\ CandidateIsCampaigning'
    BY <1>1 DEF IInv, RolesBacked, VoteNotGivenAway, CandidateIsCampaigning,
                nodeVars, auxVars
  <1>5. LeaderWasElected'
    BY <1>1 DEF IInv, LeaderWasElected, nodeVars, auxVars
  <1>6. QED BY <1>2, <1>3, <1>4, <1>5 DEF IInv

LEMMA HandleRequestVoteKeeps ==
    ASSUME IInv, NEW n \in Node, NEW c \in Node, NEW m, HandleRequestVote(n, c, m)
    PROVE  IInv'
  <1>1. Read(c, n, m) /\ UNCHANGED auxVars
    BY DEF HandleRequestVote
  <1>2. m \in Message /\ m \in InFlight(c, n)
    BY <1>1, ReadTakes DEF IInv
  <1>3. c # n /\ <<c, m.term>> \in campaigned
    BY <1>2 DEF IInv, MessagesBacked
  <1>4. m.term \in Nat
    BY <1>2 DEF Message
  <1>5. TypeOK'
    <2>1. /\ state' \in [Node -> Role]
          /\ current_term' \in [Node -> Nat]
          /\ voted_for' \in [Node -> Node \cup {None}]
      BY <1>4 DEF IInv, TypeOK, HandleRequestVote, Role
    <2>2. UNCHANGED <<up, leader_id, campaigning, auxVars>>
      BY DEF HandleRequestVote
    <2>3. QED BY <1>1, <2>1, <2>2, ReadTakes DEF IInv, TypeOK, auxVars
  <1>6. MessagesBacked'
    BY <1>1, ReadTakes, BackedStays DEF IInv, auxVars
  <1>7. RolesBacked'
    BY <1>4 DEF IInv, TypeOK, RolesBacked, HandleRequestVote, auxVars
  <1>8. VoteNotGivenAway'
    BY <1>3, <1>4, RaftAssumption
    DEF IInv, TypeOK, VoteNotGivenAway, HandleRequestVote
  <1>9. CandidateIsCampaigning'
    BY <1>4 DEF IInv, TypeOK, CandidateIsCampaigning, HandleRequestVote
  <1>10. LeaderWasElected'
    <2>1. \A a \in Node : current_term[a] <= current_term'[a]
      BY <1>4 DEF IInv, TypeOK, HandleRequestVote
    <2>2. leader_id' = leader_id /\ elected' = elected
      BY DEF HandleRequestVote, auxVars
    <2>3. QED BY <1>5, <2>1, <2>2, LeaderStays DEF IInv, LeaderWasElected
  <1>11. QED BY <1>5, <1>6, <1>7, <1>8, <1>9, <1>10 DEF IInv

LEMMA HandleAppendEntriesKeeps ==
    ASSUME IInv, NEW n \in Node, NEW l \in Node, NEW m, HandleAppendEntries(n, l, m)
    PROVE  IInv'
  <1>1. Read(l, n, m) /\ UNCHANGED auxVars
    BY DEF HandleAppendEntries
  <1>2. m \in Message /\ m \in InFlight(l, n) /\ m.term \in Nat
    BY <1>1, ReadTakes DEF IInv, Message
  <1>3. l # n /\ <<l, m.term>> \in elected
    BY <1>2 DEF IInv, MessagesBacked, HandleAppendEntries
  <1>4. TypeOK'
    <2>1. /\ state' \in [Node -> Role]
          /\ leader_id' \in [Node -> Node \cup {None}]
          /\ current_term' \in [Node -> Nat]
      <3>1. CASE m.term < current_term[n]
        <4>1. UNCHANGED <<state, leader_id, current_term>>
          BY <3>1 DEF HandleAppendEntries
        <4>2. QED BY <4>1 DEF IInv, TypeOK
      <3>2. CASE ~(m.term < current_term[n])
        <4>1. /\ state' = [state EXCEPT ![n] = "FOLLOWER"]
              /\ leader_id' = [leader_id EXCEPT ![n] = l]
              /\ current_term' = [current_term EXCEPT ![n] = m.term]
          BY <3>2 DEF HandleAppendEntries
        <4>2. QED BY <1>2, <4>1 DEF IInv, TypeOK, Role
      <3>3. QED BY <3>1, <3>2
    <2>2. UNCHANGED <<up, voted_for, campaigning, auxVars>>
      BY DEF HandleAppendEntries
    <2>3. QED BY <1>1, <2>1, <2>2, ReadTakes DEF IInv, TypeOK, auxVars
  <1>5. MessagesBacked'
    BY <1>1, ReadTakes, BackedStays DEF IInv, auxVars
  <1>6. RolesBacked'
    BY <1>2 DEF IInv, TypeOK, RolesBacked, HandleAppendEntries, auxVars
  <1>7. VoteNotGivenAway' /\ CandidateIsCampaigning'
    BY <1>2 DEF IInv, TypeOK, VoteNotGivenAway, CandidateIsCampaigning,
                HandleAppendEntries
  <1>8. LeaderWasElected'
    <2> SUFFICES ASSUME NEW a \in Node, leader_id'[a] # None
                 PROVE  \E t \in 0..current_term'[a] : <<leader_id'[a], t>> \in elected'
      BY DEF LeaderWasElected
    <2>1. elected' = elected /\ current_term[a] <= current_term'[a]
      BY <1>2 DEF IInv, TypeOK, HandleAppendEntries, auxVars
    <2>2. CASE leader_id'[a] = leader_id[a]
      BY <1>4, <2>1, <2>2, LeaderStays DEF IInv
    <2>3. CASE leader_id'[a] # leader_id[a]
      <3>1. leader_id'[a] = l /\ current_term'[a] = m.term
        BY <2>3 DEF IInv, TypeOK, HandleAppendEntries
      <3>2. m.term \in 0..current_term'[a]
        BY <1>2, <3>1
      <3>3. QED BY <1>3, <2>1, <3>1, <3>2
    <2>4. QED BY <2>2, <2>3
  <1>9. QED BY <1>4, <1>5, <1>6, <1>7, <1>8 DEF IInv

LEMMA CrashKeeps ==
    ASSUME IInv, NEW n \in Node, Crash(n)
    PROVE  IInv'
  <1>1. TypeOK'
    BY CrashLoses DEF IInv, TypeOK, Crash, Role
  <1>2. MessagesBacked'
    BY CrashLoses, BackedStays DEF IInv, Crash
  <1>3. RolesBacked'
    BY DEF IInv, TypeOK, RolesBacked, Crash
  <1>4. VoteNotGivenAway' /\ CandidateIsCampaigning'
    BY DEF IInv, TypeOK, VoteNotGivenAway, CandidateIsCampaigning, Crash
  <1>5. LeaderWasElected'
    BY DEF IInv, TypeOK, LeaderWasElected, Crash
  <1>6. QED BY <1>1, <1>2, <1>3, <1>4, <1>5 DEF IInv
-----------------------------------------------------------------------------
(* The invariant and its consequences *)

LEMMA InitEstablishes == Init => IInv
  <1> SUFFICES ASSUME Init PROVE IInv
    OBVIOUS
  <1> USE DEF Init
  <1>1. TypeOK
    BY DEF TypeOK, Role
  <1>2. MessagesBacked /\ RolesBacked
    BY DEF MessagesBacked, InFlight, RolesBacked
  <1>3. VoteNotGivenAway /\ CandidateIsCampaigning /\ LeaderWasElected
    BY DEF VoteNotGivenAway, CandidateIsCampaigning, LeaderWasElected
  <1>4. QED BY <1>1, <1>2, <1>3 DEF IInv

LEMMA StepKeeps == IInv /\ [Next]_vars => IInv'
  <1> SUFFICES ASSUME IInv, [Next]_vars PROVE IInv'
    OBVIOUS
  <1>1. ASSUME NEW n \in Node, Start(n) PROVE IInv'
    BY <1>1, StartKeeps
  <1>2. ASSUME NEW n \in Node, StartElection(n) PROVE IInv'
    BY <1>2, StartElectionKeeps
  <1>3. ASSUME NEW n \in Node, FinishElection(n) PROVE IInv'
    BY <1>3, FinishElectionKeeps
  <1>4. ASSUME NEW n \in Node, Heartbeat(n) PROVE IInv'
    BY <1>4, HeartbeatKeeps
  <1>5. ASSUME NEW n \in Node, Crash(n) PROVE IInv'
    BY <1>5, CrashKeeps
  <1>6. ASSUME NEW n \in Node, NEW p \in Node, NEW m,
               Connect(n, p, m) \/ ConnectFails(n, p, m)
        PROVE  IInv'
    BY <1>6, ConnectKeeps
  <1>7. ASSUME NEW n \in Node, NEW p \in Node, NEW m, HandleRequestVote(n, p, m)
        PROVE  IInv'
    BY <1>7, HandleRequestVoteKeeps
  <1>8. ASSUME NEW n \in Node, NEW p \in Node, NEW m, HandleAppendEntries(n, p, m)
        PROVE  IInv'
    BY <1>8, HandleAppendEntriesKeeps
  <1>9. CASE UNCHANGED vars
    BY <1>9 DEF vars, nodeVars, netVars, auxVars, IInv, TypeOK, MessagesBacked,
       InFlight, RolesBacked, VoteNotGivenAway, CandidateIsCampaigning,
       LeaderWasElected
  <1>10. QED
    BY <1>1, <1>2, <1>3, <1>4, <1>5, <1>6, <1>7, <1>8, <1>9 DEF Next

\* IInv holds in every reachable state.
LEMMA Invariance == Spec => []IInv
  <1>1. QED BY InitEstablishes, StepKeeps, PTL DEF Spec

\* The fields of every RaftNode and the connections keep their types.
THEOREM TypeCorrect == Spec => []TypeOK
  <1>1. IInv => TypeOK
    BY DEF IInv
  <1>2. QED BY <1>1, Invariance, PTL

\* In every cluster, a node that campaigns or leads still holds its own vote.
THEOREM VoteKept == Spec => []VoteNotGivenAway
  <1>1. IInv => VoteNotGivenAway
    BY DEF IInv
  <1>2. QED BY <1>1, Invariance, PTL

\* In every cluster, the candidate timeout of _election_loop is dead code.
THEOREM CandidateTimeoutDead == Spec => []CandidateIsCampaigning
  <1>1. IInv => CandidateIsCampaigning
    BY DEF IInv
  <1>2. QED BY <1>1, Invariance, PTL

\* In every cluster, leader_id names a node that finished an election for a term
\* no later than the term of the node that names it.
THEOREM NoPhantomLeader == Spec => []LeaderWasElected
  <1>1. IInv => LeaderWasElected
    BY DEF IInv
  <1>2. QED BY <1>1, Invariance, PTL

-----------------------------------------------------------------------------
(* What a step may never do *)

\* A step that changes the role, term or vote of a node is one of that node.
LEMMA OthersUnchanged ==
    ASSUME IInv, NEW n \in Node, NEW a \in Node, a # n,
           \/ StartElection(n) \/ FinishElection(n) \/ Crash(n)
           \/ \E p \in Node, m \in Message :
                  HandleRequestVote(n, p, m) \/ HandleAppendEntries(n, p, m)
    PROVE  /\ state'[a] = state[a]
           /\ current_term'[a] = current_term[a]
           /\ voted_for'[a] = voted_for[a]
  <1> USE DEF IInv, TypeOK
  <1>1. CASE StartElection(n)
    BY <1>1 DEF StartElection
  <1>2. CASE FinishElection(n)
    BY <1>2 DEF FinishElection
  <1>3. CASE Crash(n)
    BY <1>3 DEF Crash
  <1>4. ASSUME NEW p \in Node, NEW m \in Message, HandleRequestVote(n, p, m)
        PROVE  /\ state'[a] = state[a]
               /\ current_term'[a] = current_term[a]
               /\ voted_for'[a] = voted_for[a]
    BY <1>4 DEF HandleRequestVote
  <1>5. ASSUME NEW p \in Node, NEW m \in Message, HandleAppendEntries(n, p, m)
        PROVE  /\ state'[a] = state[a]
               /\ current_term'[a] = current_term[a]
               /\ voted_for'[a] = voted_for[a]
    BY <1>5 DEF HandleAppendEntries
  <1>6. QED BY <1>1, <1>2, <1>3, <1>4, <1>5

\* The steps that touch no role, term or vote.
LEMMA QuietSteps ==
    ASSUME \/ UNCHANGED vars
           \/ \E n \in Node : Start(n) \/ Heartbeat(n)
           \/ \E n, p \in Node : \E m \in opening[n][p] :
                  Connect(n, p, m) \/ ConnectFails(n, p, m)
    PROVE  UNCHANGED <<state, current_term, voted_for>>
  BY DEF vars, nodeVars, Start, Heartbeat, Connect, ConnectFails

\* A message that a handler takes is a Message.
LEMMA HandledMessage ==
    ASSUME IInv, NEW n \in Node, NEW p \in Node,
           NEW m \in buffer[p][n] \cup displaced[p][n]
    PROVE  /\ m \in Message /\ m.term \in Nat
           /\ p # n /\ <<p, m.term>> \in campaigned
  BY DEF IInv, TypeOK, MessagesBacked, InFlight, Message

\* In every cluster, while a process lives, its term never decreases and a vote
\* given in a term is never changed in that term.
THEOREM VotesAreFinal == Spec => TermsAndVotes
  <1> DEFINE Final(n) ==
        up[n] /\ up'[n] =>
          /\ current_term'[n] >= current_term[n]
          /\ current_term'[n] = current_term[n] /\ voted_for[n] # None
                 => voted_for'[n] = voted_for[n]
  <1>1. ASSUME IInv, [Next]_vars, NEW a \in Node PROVE Final(a)
    <2>1. current_term[a] \in Nat
      BY <1>1 DEF IInv, TypeOK
    <2>2. CASE UNCHANGED <<state, current_term, voted_for>>
      BY <2>1, <2>2
    <2>3. ASSUME NEW n \in Node, a # n,
                 \/ StartElection(n) \/ FinishElection(n) \/ Crash(n)
                 \/ \E p \in Node, m \in Message :
                        HandleRequestVote(n, p, m) \/ HandleAppendEntries(n, p, m)
          PROVE  Final(a)
      BY <1>1, <2>1, <2>3, OthersUnchanged
    <2>4. CASE StartElection(a)
      BY <1>1, <2>1, <2>4 DEF StartElection, IInv, TypeOK
    <2>5. CASE FinishElection(a)
      BY <2>1, <2>5 DEF FinishElection
    <2>6. CASE Crash(a)
      BY <1>1, <2>6 DEF Crash, IInv, TypeOK
    <2>7. ASSUME NEW p \in Node, NEW m \in buffer[p][a] \cup displaced[p][a],
                 HandleRequestVote(a, p, m)
          PROVE  Final(a)
      <3>1. m.term \in Nat
        BY <1>1, HandledMessage
      <3>2. CASE m.term > current_term[a]
        BY <1>1, <2>1, <2>7, <3>1, <3>2 DEF HandleRequestVote, IInv, TypeOK
      <3>3. CASE m.term <= current_term[a]
        BY <1>1, <2>1, <2>7, <3>1, <3>3 DEF HandleRequestVote, IInv, TypeOK
      <3>4. QED BY <2>1, <3>1, <3>2, <3>3
    <2>8. ASSUME NEW p \in Node, NEW m \in buffer[p][a] \cup displaced[p][a],
                 HandleAppendEntries(a, p, m)
          PROVE  Final(a)
      <3>1. m.term \in Nat
        BY <1>1, HandledMessage
      <3>2. voted_for' = voted_for
        BY <2>8 DEF HandleAppendEntries
      <3>3. current_term'[a] >= current_term[a]
        BY <1>1, <2>1, <2>8, <3>1 DEF HandleAppendEntries, IInv, TypeOK
      <3>4. QED BY <3>2, <3>3
    <2>9. QED
      BY <1>1, <2>2, <2>3, <2>4, <2>5, <2>6, <2>7, <2>8, QuietSteps, HandledMessage
      DEF Next
  <1>2. IInv /\ [Next]_vars => [\A n \in Node : Final(n)]_vars
    BY <1>1
  <1>3. QED BY <1>2, Invariance, PTL DEF Spec, TermsAndVotes

\* In every cluster, a leader is deposed only by the campaign of another node for
\* a term that is not older than its own.
THEOREM OnlyPeersDepose == Spec => DeposedByPeer
  <1> DEFINE Deposed(n) ==
        state[n] = "LEADER" /\ up'[n] /\ state'[n] # "LEADER" =>
          /\ current_term'[n] >= current_term[n]
          /\ \E p \in Node \ {n} : <<p, current_term'[n]>> \in campaigned
  <1>1. ASSUME IInv, [Next]_vars, NEW a \in Node PROVE Deposed(a)
    <2>1. current_term[a] \in Nat
      BY <1>1 DEF IInv, TypeOK
    <2>2. CASE UNCHANGED <<state, current_term, voted_for>>
      BY <2>2
    <2>3. ASSUME NEW n \in Node, a # n,
                 \/ StartElection(n) \/ FinishElection(n) \/ Crash(n)
                 \/ \E p \in Node, m \in Message :
                        HandleRequestVote(n, p, m) \/ HandleAppendEntries(n, p, m)
          PROVE  Deposed(a)
      BY <1>1, <2>3, OthersUnchanged
    <2>4. CASE StartElection(a)
      BY <2>4 DEF StartElection
    <2>5. CASE FinishElection(a)
      BY <1>1, <2>5 DEF FinishElection, IInv, TypeOK
    <2>6. CASE Crash(a)
      BY <1>1, <2>6 DEF Crash, IInv, TypeOK
    <2>7. ASSUME NEW p \in Node, NEW m \in buffer[p][a] \cup displaced[p][a],
                 HandleRequestVote(a, p, m)
          PROVE  Deposed(a)
      <3>1. m.term \in Nat /\ p # a /\ <<p, m.term>> \in campaigned
        BY <1>1, HandledMessage
      <3>2. CASE m.term > current_term[a]
        <4>1. current_term'[a] = m.term
          BY <1>1, <2>7, <3>2 DEF HandleRequestVote, IInv, TypeOK
        <4>2. QED BY <2>1, <3>1, <3>2, <4>1
      <3>3. CASE ~(m.term > current_term[a])
        BY <2>7, <3>3 DEF HandleRequestVote
      <3>4. QED BY <3>2, <3>3
    <2>8. ASSUME NEW p \in Node, NEW m \in buffer[p][a] \cup displaced[p][a],
                 HandleAppendEntries(a, p, m)
          PROVE  Deposed(a)
      <3>1. m.term \in Nat /\ p # a /\ <<p, m.term>> \in campaigned
        BY <1>1, HandledMessage
      <3>2. CASE m.term < current_term[a]
        BY <2>8, <3>2 DEF HandleAppendEntries
      <3>3. CASE ~(m.term < current_term[a])
        <4>1. current_term'[a] = m.term
          BY <1>1, <2>8, <3>3 DEF HandleAppendEntries, IInv, TypeOK
        <4>2. QED BY <2>1, <3>1, <3>3, <4>1
      <3>4. QED BY <3>2, <3>3
    <2>9. QED
      BY <1>1, <2>2, <2>3, <2>4, <2>5, <2>6, <2>7, <2>8, QuietSteps, HandledMessage
      DEF Next
  <1>2. IInv /\ [Next]_vars => [\A n \in Node : Deposed(n)]_vars
    BY <1>1
  <1>3. QED BY <1>2, Invariance, PTL DEF Spec, DeposedByPeer
-----------------------------------------------------------------------------
(* RaftCluster implements Leadership *)

\* A step that touches neither processes, leader_id nor the winners is a stutter of
\* Leadership.
LEMMA Stutters ==
    ASSUME UNCHANGED <<up, leader_id, elected>>
    PROVE  UNCHANGED Promise!leadershipVars
  BY DEF Promise!leadershipVars, Winners

LEMMA FinishElectionImplements ==
    ASSUME IInv, NEW n \in Node, FinishElection(n)
    PROVE  [Promise!Next]_Promise!leadershipVars
  <1>1. CASE elected' = elected \cup {<<n, current_term[n]>>}
             /\ leader_id' = [leader_id EXCEPT ![n] = n]
    <2>1. Winners' = Winners \cup {n}
      <3>1. <<n, current_term[n]>>[1] = n
        OBVIOUS
      <3>2. \A x : x \in Winners' <=> \E e \in elected' : x = e[1]
        BY DEF Winners
      <3>3. \A x : x \in Winners <=> \E e \in elected : x = e[1]
        BY DEF Winners
      <3>4. QED BY <1>1, <3>1, <3>2, <3>3
    <2>2. Promise!Win(n)
      BY <1>1, <2>1 DEF Promise!Win, FinishElection
    <2>3. QED BY <2>2 DEF Promise!Next
  <1>2. CASE UNCHANGED <<leader_id, elected>>
    BY <1>2, Stutters DEF FinishElection
  <1>3. QED BY <1>1, <1>2 DEF FinishElection

LEMMA HandleAppendEntriesImplements ==
    ASSUME IInv, NEW n \in Node, NEW l \in Node, NEW m, HandleAppendEntries(n, l, m)
    PROVE  [Promise!Next]_Promise!leadershipVars
  <1>1. Read(l, n, m) /\ UNCHANGED <<up, elected>> /\ Winners' = Winners
    BY DEF HandleAppendEntries, auxVars, Winners
  <1>2. m \in InFlight(l, n)
    BY <1>1, ReadTakes DEF IInv
  <1>3. l # n /\ <<l, m.term>> \in elected
    BY <1>2 DEF IInv, MessagesBacked, HandleAppendEntries
  <1>4. l \in Winners \ {n}
    BY <1>3 DEF Winners
  <1>5. CASE leader_id' = [leader_id EXCEPT ![n] = l]
    <2>1. Promise!Learn(n, l)
      BY <1>1, <1>4, <1>5 DEF Promise!Learn, Read
    <2>2. QED BY <2>1 DEF Promise!Next
  <1>6. CASE UNCHANGED leader_id
    BY <1>1, <1>6, Stutters
  <1>7. QED BY <1>5, <1>6 DEF HandleAppendEntries

LEMMA CrashImplements ==
    ASSUME NEW n \in Node, Crash(n)
    PROVE  [Promise!Next]_Promise!leadershipVars
  <1>1. Winners' = Winners
    BY DEF Crash, Winners
  <1>2. Promise!Crash(n)
    BY <1>1 DEF Crash, Promise!Crash
  <1>3. QED BY <1>2 DEF Promise!Next

LEMMA StartImplements ==
    ASSUME NEW n \in Node, Start(n)
    PROVE  [Promise!Next]_Promise!leadershipVars
  <1>1. Winners' = Winners
    BY DEF Start, auxVars, Winners
  <1>2. Promise!Start(n)
    BY <1>1 DEF Start, Promise!Start
  <1>3. QED BY <1>2 DEF Promise!Next

\* Every cluster keeps the promise that the other components rely on.
THEOREM KeepsPromise == Spec => ImplementsLeadership
  <1>1. Init => Promise!Init
    BY DEF Init, Promise!Init, Winners
  <1>2. ASSUME IInv, [Next]_vars PROVE [Promise!Next]_Promise!leadershipVars
    <2>1. ASSUME NEW n \in Node, StartElection(n) \/ Heartbeat(n)
          PROVE  UNCHANGED <<up, leader_id, elected>>
      BY <2>1 DEF StartElection, Heartbeat, nodeVars
    <2>2. ASSUME NEW n \in Node, NEW p \in Node, NEW m,
                 Connect(n, p, m) \/ ConnectFails(n, p, m) \/ HandleRequestVote(n, p, m)
          PROVE  UNCHANGED <<up, leader_id, elected>>
      BY <2>2 DEF Connect, ConnectFails, HandleRequestVote, nodeVars, auxVars
    <2>3. CASE UNCHANGED vars
      BY <2>3, Stutters DEF vars, nodeVars, auxVars
    <2>4. QED
      BY <1>2, <2>1, <2>2, <2>3, Stutters, StartImplements, FinishElectionImplements,
         CrashImplements, HandleAppendEntriesImplements
      DEF Next
  <1>3. QED BY <1>1, <1>2, Invariance, PTL DEF Spec, ImplementsLeadership, Promise!Spec
=============================================================================
