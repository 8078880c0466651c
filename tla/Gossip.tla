------------------------------ MODULE Gossip ------------------------------
(***************************************************************************)
(* The gossip engine of engine/cluster/gossip.py: membership heartbeats,   *)
(* the health checker, anti-entropy and the last-writer-wins key-value     *)
(* store, over one fresh connection per message.                           *)
(*                                                                         *)
(* A node keys its own Member by the int node_id.  JSON turns every key of *)
(* a payload into a string, so what it learns from messages, its own echo  *)
(* included, is kept under string keys beside it.  members[n] holds the    *)
(* string keys, heartbeat[n] the int one.  In a payload with both, the     *)
(* later string key shadows the int one when the receiver decodes it.      *)
(*                                                                         *)
(* Time is counted in gossip intervals (0.2 s): Tick passes one.  The wall *)
(* clock now is shared, all nodes being processes of one host (127.0.0.1). *)
(* Status, address and time of a payload are never read, pings never sent. *)
(***************************************************************************)
EXTENDS Integers, FiniteSets

CONSTANTS Node,          \* node ids, which are also the ports gossiped to
          Key,           \* keys of the distributed store
          Value,         \* values put in it
          NoValue,       \* the value of an absent key
          SuspectTicks,  \* suspect_timeout in gossip intervals
          DeadTicks,     \* dead_timeout in gossip intervals
          SyncTicks,     \* period of anti-entropy in gossip intervals
          Timely,        \* every loop and message keeps up with the clock
          MaxNow,        \* bound: the last clock reading
          MaxPuts,       \* bound: puts in a behaviour
          MaxCrashes     \* bound: crashes in a behaviour

ASSUME GossipAssumption ==
    /\ NoValue \notin Value
    /\ SuspectTicks \in Nat /\ DeadTicks \in Nat /\ SuspectTicks < DeadTicks
    /\ SyncTicks \in Nat \ {0}
    /\ Timely \in BOOLEAN
    /\ MaxNow \in Nat \ {0} /\ MaxPuts \in Nat /\ MaxCrashes \in Nat

VARIABLES
    now,        \* time.time(), in gossip intervals
    up,         \* node -> its process runs
    heartbeat,  \* node -> the heartbeat of its own, int-keyed Member
    gossiped,   \* node -> _gossip_loop already ran in this interval
    members,    \* node -> its string-keyed Members
    store,      \* node -> key -> [value, version]
    next_sync,  \* node -> when its _anti_entropy_loop wakes up
    outbox      \* sends waiting for open_connection, then on their way

VARIABLES
    written,    \* history: the <<key, entry>> pairs ever put
    peak,       \* history: node -> the highest heartbeat it ever had
    puts,       \* puts so far
    crashes     \* crashes so far

vars == <<now, up, heartbeat, gossiped, members, store, next_sync,
          outbox, written, peak, puts, crashes>>

\* Mutant: a new Member starts without a verdict.
UnknownMember == [hb |-> 0, status |-> "unknown", age |-> 0]

\* Member.__init__.
NewMember == [hb |-> 0, status |-> "alive", age |-> 0]

\* An absent key: any put is newer.
Absent == [value |-> NoValue, version |-> 0]
Entry == [value : Value, version : 1..MaxNow] \cup {Absent}

EmptyStore == [k \in Key |-> Absent]
NoMembers == [m \in {} |-> NewMember]
Peers(n) == Node \ {n}

Init ==
    /\ now = 1
    /\ up = [n \in Node |-> TRUE]
    /\ heartbeat = [n \in Node |-> 0]
    /\ gossiped = [n \in Node |-> FALSE]
    /\ members = [n \in Node |-> NoMembers]
    /\ store = [n \in Node |-> EmptyStore]
    /\ next_sync = [n \in Node |-> now + SyncTicks]
    /\ outbox = {}
    /\ written = {}
    /\ peak = [n \in Node |-> 0]
    /\ puts = 0
    /\ crashes = 0
-----------------------------------------------------------------------------
(* Payloads and merges *)

\* Mutant: the node's own Member has the last word on its heartbeat.
OwnHeartbeatWins(n, h) ==
    [m \in DOMAIN members[n] \cup {n} |-> IF m = n THEN h ELSE members[n][m].hb]

\* The heartbeats a receiver decodes from a payload of n whose own heartbeat is
\* h: the string-keyed entry of n, if there is one, hides the int-keyed one.
Payload(n, h) ==
    [m \in DOMAIN members[n] \cup {n} |->
        IF m \in DOMAIN members[n] THEN members[n][m].hb ELSE h]

\* Mutant: the merge also touches the Member it updates.
MergeTouches(mine, theirs) ==
    [m \in DOMAIN mine \cup DOMAIN theirs |->
        LET old == IF m \in DOMAIN mine THEN mine[m] ELSE NewMember
        IN  IF m \in DOMAIN theirs /\ theirs[m] > old.hb
            THEN [old EXCEPT !.hb = theirs[m] + 1, !.age = 0] ELSE old]

\* Mutant: a member that is heard of again is alive again.
MergeRevives(mine, theirs) ==
    [m \in DOMAIN mine \cup DOMAIN theirs |->
        LET old == IF m \in DOMAIN mine THEN mine[m] ELSE NewMember
        IN  IF m \in DOMAIN theirs /\ theirs[m] > old.hb
            THEN [NewMember EXCEPT !.hb = theirs[m]] ELSE old]

\* Membership merge of _handle_gossip and _handle_sync.
MergeMembers(mine, theirs) ==
    [m \in DOMAIN mine \cup DOMAIN theirs |->
        LET old == IF m \in DOMAIN mine THEN mine[m] ELSE NewMember
        IN  IF m \in DOMAIN theirs /\ theirs[m] > old.hb
            THEN [old EXCEPT !.hb = theirs[m], !.age = 0] ELSE old]

\* Mutant: the version is taken over, the value forgotten.
OnlyRestamped(mine, theirs) ==
    IF theirs.version > mine.version
    THEN [mine EXCEPT !.version = theirs.version] ELSE mine

\* Mutant: the last entry to arrive wins.
LastToArrive(mine, theirs) == theirs

\* Mutant: the first entry of a key stays.
FirstStays(mine, theirs) == IF mine = Absent THEN theirs ELSE mine

\* Last writer wins, by version; on a tie the local entry stays.
Newer(mine, theirs) == IF theirs.version > mine.version THEN theirs ELSE mine

MergeStore(mine, theirs) == [k \in Key |-> Newer(mine[k], theirs[k])]
-----------------------------------------------------------------------------
(* Actions *)

\* One round of _gossip_loop: the members are copied into the payload now; the
\* store is only referenced and is serialised when the connection is open.
GossipRound(n) ==
    /\ up[n]
    /\ ~gossiped[n]
    /\ gossiped' = [gossiped EXCEPT ![n] = TRUE]
    /\ heartbeat' = [heartbeat EXCEPT ![n] = @ + 1]
    /\ peak' = [peak EXCEPT ![n] = IF heartbeat[n] + 1 > @ THEN heartbeat[n] + 1 ELSE @]
    /\ \E p \in Peers(n) :
           outbox' = outbox \cup
               {[type |-> "state", from |-> n, to |-> p,
                 members |-> Payload(n, heartbeat[n] + 1)]}
    /\ UNCHANGED <<now, up, members, store, next_sync, written, puts,
                   crashes>>

\* One round of _anti_entropy_loop, to all peers.
AntiEntropy(n) ==
    /\ up[n]
    /\ now >= next_sync[n]
    /\ next_sync' = [next_sync EXCEPT ![n] = now + SyncTicks]
    /\ outbox' = outbox \cup
           {[type |-> "state", from |-> n, to |-> p,
             members |-> Payload(n, heartbeat[n])] : p \in Peers(n)}
    /\ UNCHANGED <<now, up, heartbeat, gossiped, members, store, written, peak,
                   puts, crashes>>

\* put: the local entry is replaced and the update sent to all peers.
Put(n, k, v) ==
    /\ up[n]
    /\ puts < MaxPuts
    /\ puts' = puts + 1
    /\ LET e == [value |-> v, version |-> now]
       IN  /\ store' = [store EXCEPT ![n][k] = e]
           /\ written' = written \cup {<<k, e>>}
           /\ outbox' = outbox \cup
                  {[type |-> "update", from |-> n, to |-> p, key |-> k,
                    entry |-> e] : p \in Peers(n)}
    /\ UNCHANGED <<now, up, heartbeat, gossiped, members, next_sync, peak,
                   crashes>>

\* The rest of _send, and the read at the other end.  Every message has a
\* connection of its own; a peer that is down loses it.  Only once the connection
\* is open is the sender's store read into a state message.  The bytes' way to the
\* peer is part of the wait before this step: what is merged is idempotent and
\* versioned, so a store read a little earlier merges to the same.  For that reason
\* too, two equal messages to one peer are kept once.
Deliver(s) ==
    /\ up[s.to]
    /\ outbox' = outbox \ {s}
    /\ UNCHANGED <<now, up, heartbeat, gossiped, next_sync, written, peak, puts,
                   crashes>>

\* _handle_gossip and _handle_sync, which do the same.
HandleState(s) ==
    /\ s.type = "state"
    /\ Deliver(s)
    /\ members' = [members EXCEPT ![s.to] = MergeMembers(@, s.members)]
    /\ store' = [store EXCEPT ![s.to] = MergeStore(@, store[s.from])]

\* _handle_kv_update.
HandleUpdate(s) ==
    /\ s.type = "update"
    /\ Deliver(s)
    /\ store' = [store EXCEPT ![s.to][s.key] = Newer(@, s.entry)]
    /\ UNCHANGED members

\* open_connection fails: "Peer may be down".
SendFails(s) ==
    /\ ~up[s.to]
    /\ outbox' = outbox \ {s}
    /\ UNCHANGED <<now, up, heartbeat, gossiped, members, store, next_sync,
                   written, peak, puts, crashes>>

\* One round of _health_checker.  It skips the int key of n only, and it never
\* makes a member alive again.
HealthCheck(n) ==
    /\ up[n]
    /\ members' = [members EXCEPT ![n] = [m \in DOMAIN members[n] |->
           [members[n][m] EXCEPT !.status =
               IF members[n][m].age > DeadTicks THEN "dead"
               ELSE IF members[n][m].age > SuspectTicks THEN "suspect" ELSE @]]]
    /\ UNCHANGED <<now, up, heartbeat, gossiped, store, next_sync, outbox, written,
                   peak, puts, crashes>>

\* A gossip interval passes.  When the system is timely, every live node has
\* gossiped in it and all messages have been handled.
Tick ==
    /\ now < MaxNow
    /\ Timely => /\ \A n \in Node : up[n] => gossiped[n]
                 /\ outbox = {}
    /\ now' = now + 1
    /\ gossiped' = [n \in Node |-> FALSE]
    /\ members' = [n \in Node |-> [m \in DOMAIN members[n] |->
           [members[n][m] EXCEPT !.age = IF @ > DeadTicks THEN @ ELSE @ + 1]]]
    /\ UNCHANGED <<up, heartbeat, store, next_sync, outbox, written, peak, puts,
                   crashes>>

\* A process dies with all its state and its unsent messages.
Crash(n) ==
    /\ up[n]
    /\ crashes < MaxCrashes
    /\ crashes' = crashes + 1
    /\ up' = [up EXCEPT ![n] = FALSE]
    /\ outbox' = {s \in outbox : s.from # n}
    /\ heartbeat' = [heartbeat EXCEPT ![n] = 0]
    /\ gossiped' = [gossiped EXCEPT ![n] = FALSE]
    /\ members' = [members EXCEPT ![n] = NoMembers]
    /\ store' = [store EXCEPT ![n] = EmptyStore]
    /\ next_sync' = [next_sync EXCEPT ![n] = 0]
    /\ UNCHANGED <<now, written, peak, puts>>

\* start of a new process for the node.
Restart(n) ==
    /\ ~up[n]
    /\ up' = [up EXCEPT ![n] = TRUE]
    /\ next_sync' = [next_sync EXCEPT ![n] = now + SyncTicks]
    /\ UNCHANGED <<now, heartbeat, gossiped, members, store, outbox, written,
                   peak, puts, crashes>>

Next ==
    \/ \E n \in Node : \/ GossipRound(n)
                       \/ AntiEntropy(n)
                       \/ HealthCheck(n)
                       \/ Crash(n)
                       \/ Restart(n)
                       \/ \E k \in Key, v \in Value : Put(n, k, v)
    \/ \E s \in outbox : HandleState(s) \/ HandleUpdate(s) \/ SendFails(s)
    \/ Tick

Spec == Init /\ [][Next]_vars
-----------------------------------------------------------------------------
(* Properties *)

Status == {"alive", "suspect", "dead"}

TypeOK ==
    /\ now \in 1..MaxNow
    /\ up \in [Node -> BOOLEAN]
    /\ heartbeat \in [Node -> Nat]
    /\ gossiped \in [Node -> BOOLEAN]
    /\ next_sync \in [Node -> Nat]
    /\ store \in [Node -> [Key -> Entry]]
    /\ \A n \in Node :
           /\ DOMAIN members[n] \subseteq Node
           /\ \A m \in DOMAIN members[n] :
                  members[n][m] \in [hb : Nat, status : Status, age : 0..DeadTicks + 1]
    /\ \A s \in outbox :
           /\ s.from \in Node /\ s.to \in Peers(s.from)
           /\ s.type = "update" => s.key \in Key /\ s.entry \in Entry \ {Absent}
           /\ s.type = "state" => DOMAIN s.members \subseteq Node

\* The heartbeats of m that circulate: kept by some node or on their way.
Circulating(m) ==
    {members[n][m].hb : n \in {i \in Node : m \in DOMAIN members[i]}}
        \cup {s.members[m] : s \in {t \in outbox : /\ t.type = "state"
                                                   /\ m \in DOMAIN t.members}}

\* No node ever hears of a heartbeat that its owner did not reach, whatever is
\* relayed, echoed, delayed or restarted (_handle_gossip, _handle_sync).
HeartbeatWasReached ==
    \A m \in Node : \A h \in Circulating(m) : h <= peak[m]

\* Once a node has heard its own echo, its later heartbeats reach nobody: nothing
\* newer than what already circulates is ever said of it (the string key shadows
\* the int key in the payloads of _gossip_loop and _anti_entropy_loop).
EchoFreezesHeartbeat ==
    [][\A m \in Node : m \in DOMAIN members[m] =>
          \A h \in Circulating(m)' : \E g \in Circulating(m) : h <= g]_vars

\* A member that is suspect or dead is never alive again while the node that keeps it
\* lives, whatever is heard of it: it can only go from dead back to suspect, once it is
\* heard of and then silent again (_health_checker, _handle_gossip).
VerdictIsFinal ==
    [][\A n \in Node : up'[n] => \A m \in DOMAIN members[n] :
          members[n][m].status # "alive" => members'[n][m].status # "alive"]_vars

\* No store holds or relays a value that was not put under that key with that
\* version: merges never mix two entries (_handle_gossip, _handle_kv_update).
EntriesWerePut ==
    /\ \A n \in Node, k \in Key :
           store[n][k] # Absent => <<k, store[n][k]>> \in written
    /\ \A s \in outbox : s.type = "update" => <<s.key, s.entry>> \in written

\* While a process lives no key of its store goes back to an older version, in
\* particular not when put overwrites the entry without comparing versions.
VersionsGrow ==
    [][\A n \in Node, k \in Key :
          up'[n] => store'[n][k].version >= store[n][k].version]_vars

\* "Eventually consistent": if no process crashed, then whenever nothing is on its
\* way all stores agree, except that two puts of one version each stay where they
\* were made.
QuietAgreement ==
    outbox = {} /\ crashes = 0 =>
        \A n, p \in Node, k \in Key :
            store[n][k] = store[p][k] \/ store[n][k].version = store[p][k].version
=============================================================================
