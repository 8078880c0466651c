------------------------------ MODULE Storage ------------------------------
(***************************************************************************)
(* The distributed storage of engine/cluster/distributed_storage.py, in    *)
(* every process, with the answers that the RPC listener of                *)
(* engine/orchastrator/global_orchastrator.py gives, over the Leadership   *)
(* that RaftCluster implements.                                            *)
(*                                                                         *)
(* A value is a list; <<>> stands for a key that is absent.  Calls of one  *)
(* process are synchronous, one at a time, on a thread beside the event    *)
(* loop that answers its peers: on the loop's own thread asyncio.run       *)
(* raises, and every request to a peer fails, as any may fail here.        *)
(* peer_ports is shuffled in place by every read, so the order in which    *)
(* peers are asked is arbitrary.                                           *)
(*                                                                         *)
(* An object is written in two steps, into a .tmp file and from there into *)
(* place; the thread and the loop of a process share that file.  Each of   *)
(* the two steps is taken to be atomic.                                    *)
(***************************************************************************)
EXTENDS Leadership, Naturals, SequencesExt

CONSTANTS Key,      \* keys of the key-value part
          Obj,      \* keys of the object part
          Data,     \* contents of objects, not empty
          Empty,    \* b""
          Absent,   \* no object
          MaxTime   \* bound on the clock

ASSUME StorageAssumption ==
    /\ Empty \notin Data /\ Absent \notin Data /\ Empty # Absent
    /\ None \notin Node
    /\ MaxTime \in Nat

VARIABLES
    clock,      \* when a write was last called, on the one clock of the host
    shard,      \* node -> key -> value, on disk
    cache,      \* node -> key -> value, <<>> when there is none younger than cache_ttl
    objects,    \* node -> object key -> content, on disk
    tmp,        \* node -> object key -> content of its .tmp file, on disk
    storing,    \* node -> <<the object its loop has in that file>>, or <<>>
    pushes,     \* object_put messages on their way
    job,        \* node -> the call its thread is in
    left,       \* node -> the peers that call has still to turn to
    item,       \* node -> the object of that call
    owned       \* history: the <<node, object>> that were put on that node

kvVars      == <<shard, cache>>
objectVars  == <<objects, tmp, storing, pushes, left, item, owned>>
storageVars == <<clock, kvVars, objectVars, job>>

Peers(n) == Node \ {n}

StorageInit ==
    /\ Init
    /\ clock = 0
    /\ shard = [n \in Node |-> [k \in Key |-> <<>>]]
    /\ cache = [n \in Node |-> [k \in Key |-> <<>>]]
    /\ objects = [n \in Node |-> [o \in Obj |-> Absent]]
    /\ tmp = [n \in Node |-> [o \in Obj |-> Absent]]
    /\ storing = [n \in Node |-> <<>>]
    /\ pushes = {}
    /\ job = [n \in Node |-> "idle"]
    /\ left = [n \in Node |-> {}]
    /\ item = [n \in Node |-> <<>>]
    /\ owned = {}

Idle(n) == up[n] /\ job[n] = "idle"

Tick == clock < MaxTime /\ clock' = clock + 1
-----------------------------------------------------------------------------
(* Keys and values *)

\* Nobody known to lead, it is this node.
Leader(n) == IF leader_id[n] = None THEN n ELSE leader_id[n]

\* Mutant: the write does not reach the cache.
PutUncached(n, k, value) ==
    /\ shard' = IF Leader(n) = n THEN [shard EXCEPT ![n][k] = value] ELSE shard
    /\ UNCHANGED cache

\* put_strong: own shard and cache where this node leads.  Elsewhere the leader is sent
\* a "kv_put", which no listener handles.
PutStrong(n, k, value) ==
    \/ /\ Leader(n) = n
       /\ shard' = [shard EXCEPT ![n][k] = value]
       /\ cache' = [cache EXCEPT ![n][k] = value]
    \/ /\ Leader(n) # n
       /\ UNCHANGED kvVars

\* Mutant: peers are asked before the own shard.
FoundAnywhere(n, k) ==
    IF cache[n][k] # <<>> THEN {cache[n][k]}
    ELSE {shard[p][k] : p \in {q \in Node : up[q]}}

\* What get_eventual may return: the cached value, the own one, that of a peer that
\* answers, or nothing.
Found(n, k) ==
    IF cache[n][k] # <<>> THEN {cache[n][k]}
    ELSE IF shard[n][k] # <<>> THEN {shard[n][k]}
    ELSE {<<>>} \cup {shard[p][k] : p \in {q \in Peers(n) : up[q]}}

\* A value that get_eventual returns is cached.
Cached(n, k, value) == [cache EXCEPT ![n][k] = value]

\* A cached value gets older than cache_ttl.
Expire(n, k) ==
    /\ up[n]
    /\ cache[n][k] # <<>>
    /\ cache' = Cached(n, k, <<>>)
    /\ UNCHANGED <<leadershipVars, clock, shard, objectVars, job>>
-----------------------------------------------------------------------------
(* Objects *)

\* Mutant: nobody ends the call.
GoOnOnly(n, peers) ==
    /\ left' = [left EXCEPT ![n] = peers]
    /\ UNCHANGED <<job, item>>

\* The call of n goes on with the given peers, and ends with the last of them.
GoOn(n, peers) ==
    /\ left' = [left EXCEPT ![n] = peers]
    /\ job' = IF peers = {} THEN [job EXCEPT ![n] = "idle"] ELSE job
    /\ item' = IF peers = {} THEN [item EXCEPT ![n] = <<>>] ELSE item

\* The file operations of obj_write: the .tmp file is written, and replaces the object's,
\* if it is still there.
WriteTmp(n, o, d) == tmp' = [tmp EXCEPT ![n][o] = d]

Replace(n, o) ==
    /\ tmp[n][o] # Absent
    /\ objects' = [objects EXCEPT ![n][o] = tmp[n][o]]
    /\ tmp' = [tmp EXCEPT ![n][o] = Absent]

\* The file has been moved by the other writer: replace raises.
ReplaceFails(n, o) == tmp[n][o] = Absent /\ UNCHANGED <<objects, tmp>>

\* put_object begins.
PutObject(n, o, d) ==
    /\ Idle(n)
    /\ Tick
    /\ WriteTmp(n, o, d)
    /\ item' = [item EXCEPT ![n] = <<o, d>>]
    /\ job' = [job EXCEPT ![n] = "put"]
    /\ UNCHANGED <<leadershipVars, kvVars, objects, storing, pushes, left, owned>>

\* put_object goes on to its loop over the peers, or raises before it.
StoreOwn(n) ==
    /\ up[n] /\ job[n] = "put"
    /\ LET o == item[n][1]
       IN  \/ /\ Replace(n, o)
              /\ owned' = owned \cup {<<n, o>>}
              /\ job' = [job EXCEPT ![n] = IF Peers(n) = {} THEN "idle" ELSE "push"]
              /\ left' = [left EXCEPT ![n] = Peers(n)]
              /\ item' = [item EXCEPT ![n] = IF Peers(n) = {} THEN <<>> ELSE @]
           \/ /\ ReplaceFails(n, o)
              /\ GoOn(n, {})
              /\ UNCHANGED owned
    /\ UNCHANGED <<leadershipVars, clock, kvVars, storing, pushes>>

\* _push_object: the message leaves, or the exception is swallowed.
Push(n, p) ==
    /\ up[n] /\ job[n] = "push" /\ p \in left[n]
    /\ \/ pushes' = pushes
       \/ /\ up[p]
          /\ pushes' = pushes \cup {[to |-> p, obj |-> item[n][1], data |-> item[n][2]]}
    /\ GoOn(n, left[n] \ {p})
    /\ UNCHANGED <<leadershipVars, clock, kvVars, objects, tmp, storing, owned>>

\* The listener begins to handle an object_put, or read only the first part of it.
HandlePut(m) ==
    /\ up[m.to] /\ storing[m.to] = <<>>
    /\ pushes' = pushes \ {m}
    /\ \/ /\ WriteTmp(m.to, m.obj, m.data)
          /\ storing' = [storing EXCEPT ![m.to] = <<m.obj>>]
       \/ UNCHANGED <<tmp, storing>>
    /\ UNCHANGED <<leadershipVars, clock, kvVars, objects, job, left, item, owned>>

\* The listener's object goes into place, or the exception ends the handler.
StorePushed(n) ==
    /\ up[n] /\ storing[n] # <<>>
    /\ Replace(n, storing[n][1]) \/ ReplaceFails(n, storing[n][1])
    /\ storing' = [storing EXCEPT ![n] = <<>>]
    /\ UNCHANGED <<leadershipVars, clock, kvVars, pushes, job, left, item, owned>>

\* Mutant: peers are asked whether or not the object is here.
MissingOrNot(n, o) == n \in Node /\ o \in Obj

\* There is no file for the object.
Missing(n, o) == objects[n][o] = Absent

\* get_object of an object that is not here turns to the peers.
GetObject(n, o) ==
    /\ Idle(n)
    /\ Missing(n, o)
    /\ Peers(n) # {}
    /\ item' = [item EXCEPT ![n] = <<o>>]
    /\ left' = [left EXCEPT ![n] = Peers(n)]
    /\ job' = [job EXCEPT ![n] = "fetch"]
    /\ UNCHANGED <<leadershipVars, clock, kvVars, objects, tmp, storing, pushes, owned>>

\* What the listener of p answers to object_get: list(data or b"").
Answer(p, o) == IF objects[p][o] = Absent THEN Empty ELSE objects[p][o]

\* A peer answers, between two steps of its loop, and what it answers is to be stored,
\* empty or not.
Adopt(n, p) ==
    /\ up[n] /\ job[n] = "fetch" /\ p \in left[n]
    /\ up[p] /\ storing[p] = <<>>
    /\ WriteTmp(n, item[n][1], Answer(p, item[n][1]))
    /\ left' = [left EXCEPT ![n] = {}]
    /\ job' = [job EXCEPT ![n] = "store"]
    /\ UNCHANGED <<leadershipVars, clock, kvVars, objects, storing, pushes, item, owned>>

\* get_object ends with what it fetched in place, or raises.
StoreFetched(n) ==
    /\ up[n] /\ job[n] = "store"
    /\ Replace(n, item[n][1]) \/ ReplaceFails(n, item[n][1])
    /\ GoOn(n, {})
    /\ UNCHANGED <<leadershipVars, clock, kvVars, storing, pushes, owned>>

\* A peer does not answer, and the next one is asked.
NoAnswer(n, p) ==
    /\ up[n] /\ job[n] = "fetch" /\ p \in left[n]
    /\ GoOn(n, left[n] \ {p})
    /\ UNCHANGED <<leadershipVars, clock, kvVars, objects, tmp, storing, pushes, owned>>

ObjectStep ==
    \/ \E n \in Node : \/ \E o \in Obj : GetObject(n, o) \/ \E d \in Data : PutObject(n, o, d)
                       \/ \E p \in Node : Push(n, p) \/ Adopt(n, p) \/ NoAnswer(n, p)
                       \/ StoreOwn(n) \/ StorePushed(n) \/ StoreFetched(n)
    \/ \E m \in pushes : HandlePut(m)
-----------------------------------------------------------------------------
(* Processes *)

\* A process dies: its disk stays, messages to it are lost.  A .tmp file that is left is
\* forgotten here: whoever comes to it next overwrites it.
StorageCrash(n) ==
    /\ Crash(n)
    /\ cache' = [cache EXCEPT ![n] = [k \in Key |-> <<>>]]
    /\ tmp' = [tmp EXCEPT ![n] = [o \in Obj |-> Absent]]
    /\ storing' = [storing EXCEPT ![n] = <<>>]
    /\ pushes' = {m \in pushes : m.to # n}
    /\ job' = [job EXCEPT ![n] = "idle"]
    /\ left' = [left EXCEPT ![n] = {}]
    /\ item' = [item EXCEPT ![n] = <<>>]
    /\ UNCHANGED <<clock, shard, objects, owned>>

\* What RAFT does meanwhile.
Raft ==
    /\ \E n \in Node : Start(n) \/ Win(n) \/ \E l \in Node : Learn(n, l)
    /\ UNCHANGED storageVars
-----------------------------------------------------------------------------
(* Properties *)

\* Whoever put an object keeps one: an empty answer, or a late one, to a get_object of
\* the same process never replaces it, whatever is pushed and fetched meanwhile, through
\* the one .tmp file, and whenever the process crashes.
PutterKeepsObject ==
    \A n \in Node, o \in Obj : <<n, o>> \in owned => objects[n][o] \in Data

\* What a read finds in the cache is what the own disk holds, or goes on from it: a value
\* of a peer, or one from before the last write to this disk, never hides it.  (It may
\* be ahead: a history is extended in place, in the cache, before it is sent to a leader
\* that ignores it.)  Nothing is said here of a write that was sent to a leader: what
\* becomes of it is the question of StrongWrites.
CacheGoesOnFromDisk ==
    \A n \in Node, k \in Key :
        cache[n][k] # <<>> => IsPrefix(shard[n][k], cache[n][k])
=============================================================================
