----------------------------- MODULE ManifestDB -----------------------------
(***************************************************************************)
(* The manifest database of engine/cluster/manifest_db.py over Storage,    *)
(* for one manifest, which is stored under two keys.                       *)
(*                                                                         *)
(* A version is a time.time(); all processes share the clock of one host,  *)
(* so versions are distinct and grow.  The data of a manifest is named by  *)
(* the version it was first put with.  The signature of a manifest the     *)
(* database wrote itself always verifies.                                  *)
(***************************************************************************)
EXTENDS Storage

VARIABLES
    mcache,     \* node -> <<the cached entry>>, <<>> when none is younger than cache_ttl
    entry,      \* node -> <<the entry put has to add to the history>>, or <<>>
    held        \* node -> the history that push_history read

manifestVars == <<mcache, entry, held>>
vars         == <<leadershipVars, storageVars, manifestVars>>

ManifestKey == "manifest"
HistoryKey  == "history"

ASSUME ManifestAssumption == {ManifestKey, HistoryKey} \subseteq Key

ManifestInit ==
    /\ StorageInit
    /\ mcache = [n \in Node |-> <<>>]
    /\ entry = [n \in Node |-> <<>>]
    /\ held = [n \in Node |-> <<>>]

\* put_strong of the database, with the given data: a new version, stored or sent away,
\* and cached in any case.
PutEntry(n, data) ==
    LET new == <<[version |-> clock + 1, data |-> data]>>
    IN  /\ Tick
        /\ PutStrong(n, ManifestKey, new)
        /\ mcache' = [mcache EXCEPT ![n] = new]

\* put, up to push_history.
Put(n) ==
    /\ Idle(n)
    /\ PutEntry(n, clock + 1)
    /\ entry' = [entry EXCEPT ![n] = mcache'[n]]
    /\ job' = [job EXCEPT ![n] = "log"]
    /\ UNCHANGED <<leadershipVars, objectVars, held>>

\* push_history reads the history.
ReadHistory(n) ==
    /\ up[n] /\ job[n] = "log"
    /\ \E list \in Found(n, HistoryKey) :
           /\ held' = [held EXCEPT ![n] = list]
           /\ cache' = Cached(n, HistoryKey, list)
    /\ job' = [job EXCEPT ![n] = "append"]
    /\ UNCHANGED <<leadershipVars, shard, objectVars, clock, mcache, entry>>

\* The history with the new entry.
Extended(n) == held[n] \o entry[n]

\* hist.append changes the list that the cache holds as well, while it is fresh.
AppendInPlace(n, list) ==
    /\ cache' = IF cache[n][HistoryKey] # <<>> THEN Cached(n, HistoryKey, list) ELSE cache
    /\ UNCHANGED shard

\* push_history extends what it read and writes it back, or away.
WriteHistory(n) ==
    /\ up[n] /\ job[n] = "append"
    /\ \/ Leader(n) = n /\ PutStrong(n, HistoryKey, Extended(n))
       \/ Leader(n) # n /\ AppendInPlace(n, Extended(n))
    /\ job' = [job EXCEPT ![n] = "idle"]
    /\ entry' = [entry EXCEPT ![n] = <<>>]
    /\ held' = [held EXCEPT ![n] = <<>>]
    /\ UNCHANGED <<leadershipVars, objectVars, clock, mcache>>

\* rollback: the data of a version in the history, in a new version that is not added
\* to it.  A version that is not there raises, after the history was read.
Rollback(n) ==
    /\ Idle(n)
    /\ \E list \in Found(n, HistoryKey) :
           LET read == Cached(n, HistoryKey, list)
           IN  \/ /\ cache' = read
                  /\ UNCHANGED <<clock, shard, mcache>>
               \/ \E i \in DOMAIN list :
                     LET new == <<[version |-> clock + 1, data |-> list[i].data]>>
                     IN  /\ Tick
                         /\ mcache' = [mcache EXCEPT ![n] = new]
                         /\ \/ /\ Leader(n) = n
                               /\ shard' = [shard EXCEPT ![n][ManifestKey] = new]
                               /\ cache' = [read EXCEPT ![n][ManifestKey] = new]
                            \/ /\ Leader(n) # n
                               /\ shard' = shard
                               /\ cache' = read
    /\ UNCHANGED <<leadershipVars, objectVars, job, entry, held>>

\* get_eventual of the database, when its own cache has nothing.
Get(n) ==
    /\ Idle(n)
    /\ mcache[n] = <<>>
    /\ \E value \in Found(n, ManifestKey) \ {<<>>} :
           /\ mcache' = [mcache EXCEPT ![n] = value]
           /\ cache' = Cached(n, ManifestKey, value)
    /\ UNCHANGED <<leadershipVars, shard, objectVars, job, clock, entry, held>>

\* A cached manifest gets older than cache_ttl.
ExpireManifest(n) ==
    /\ up[n]
    /\ mcache[n] # <<>>
    /\ mcache' = [mcache EXCEPT ![n] = <<>>]
    /\ UNCHANGED <<leadershipVars, storageVars, entry, held>>

CrashWithCaches(n) ==
    /\ StorageCrash(n)
    /\ mcache' = [mcache EXCEPT ![n] = <<>>]
    /\ entry' = [entry EXCEPT ![n] = <<>>]
    /\ held' = [held EXCEPT ![n] = <<>>]

ManifestNext ==
    \/ (Raft \/ ObjectStep) /\ UNCHANGED manifestVars
    \/ \E n \in Node :
           \/ \E k \in Key : Expire(n, k) /\ UNCHANGED manifestVars
           \/ Put(n) \/ ReadHistory(n) \/ WriteHistory(n) \/ Rollback(n)
           \/ Get(n) \/ ExpireManifest(n) \/ CrashWithCaches(n)

ManifestSpec == ManifestInit /\ [][ManifestNext]_vars
-----------------------------------------------------------------------------
(* Properties *)

Version == 1 .. MaxTime
Entry   == [version : Version, data : Version]
AtMostOne == {<<>>} \cup {<<e>> : e \in Entry}

ManifestTypeOK ==
    /\ shard \in [Node -> [Key -> Seq(Entry)]]
    /\ cache \in [Node -> [Key -> Seq(Entry)]]
    /\ objects \in [Node -> [Obj -> Data \cup {Empty, Absent}]]
    /\ pushes \subseteq [to : Node, obj : Obj, data : Data]
    /\ tmp \in [Node -> [Obj -> Data \cup {Empty, Absent}]]
    /\ storing \in [Node -> {<<>>} \cup {<<o>> : o \in Obj}]
    /\ job \in [Node -> {"idle", "put", "push", "fetch", "store", "log", "append"}]
    /\ left \in [Node -> SUBSET Node]
    /\ clock \in 0 .. MaxTime
    /\ mcache \in [Node -> AtMostOne]
    /\ entry \in [Node -> AtMostOne]
    /\ held \in [Node -> Seq(Entry)]
    /\ \A n \in Node :
           /\ left[n] # {} <=> job[n] \in {"push", "fetch"}
           /\ entry[n] # <<>> <=> job[n] \in {"log", "append"}

\* Behind three layers of caches, no node reads a manifest older than the one on its
\* own disk.
ManifestNotStale ==
    \A n \in Node : mcache[n] # <<>> /\ shard[n][ManifestKey] # <<>> =>
        mcache[n][1].version >= shard[n][ManifestKey][1].version

Store == INSTANCE VersionedStore WITH
    clock   <- clock,
    current <- [n \in Node |-> shard[n][ManifestKey]],
    history <- [n \in Node |-> shard[n][HistoryKey]]

\* The database keeps, on every node, the promise of VersionedStore: versions grow, and
\* a history is extended, never rewritten or shortened, although it is read from caches
\* and peers, extended in a shared list and written back under changing leaders.
KeepsHistory == Store!Spec
=============================================================================
