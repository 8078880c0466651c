--------------------------- MODULE ManifestProofs ---------------------------
(***************************************************************************)
(* Proofs about ManifestDB and the Storage below it, for any nodes, keys,  *)
(* objects, contents and times.                                            *)
(***************************************************************************)
EXTENDS ManifestDB, TLAPS, SequenceTheorems

(* The inductive invariant *)

\* Under the manifest's key, at most one manifest is stored and cached.
OneManifest ==
    \A n \in Node :
        /\ shard[n][ManifestKey] \in AtMostOne
        /\ cache[n][ManifestKey] \in AtMostOne
        /\ \A i \in DOMAIN shard[n][ManifestKey] : shard[n][ManifestKey][i].version <= clock

Items == {<<>>} \cup {<<o>> : o \in Obj} \cup (Obj \X Data)

Calls == {"put", "push", "fetch", "store"}
Jobs  == Calls \cup {"idle", "log", "append"}

\* The call of a process holds the object it puts, or fetches: one it never put.
CallHasItem ==
    /\ item \in [Node -> Items]
    /\ \A n \in Node :
           /\ job[n] \in {"put", "push"} => item[n] \in Obj \X Data
           /\ job[n] \in {"fetch", "store"} =>
                  \E o \in Obj : item[n] = <<o>> /\ <<n, o>> \notin owned

\* A .tmp file is empty only while its thread stores an empty answer through it.
EmptyIsFetched ==
    \A n \in Node, o \in Obj : tmp[n][o] = Empty => job[n] = "store" /\ item[n] = <<o>>

\* The histories anywhere: on disks, in caches and in the hands of push_history.
Lists == {shard[n][HistoryKey] : n \in Node} \cup {cache[n][HistoryKey] : n \in Node}
             \cup {held[n] : n \in Node}

\* A list of manifests as they were put, none of them twice, and none still to be added.
IsPast(list) ==
    /\ \A i \in DOMAIN list :
           /\ list[i].data = list[i].version
           /\ list[i].version <= clock
           /\ \A n \in Node : entry[n] # <<list[i]>>
    /\ \A i, j \in DOMAIN list : list[i] = list[j] => i = j

HistoriesArePast == \A list \in Lists : IsPast(list)

\* What put has to add to a history carries new data, and nobody else adds it.
EntriesAreNew ==
    \A n \in Node : entry[n] # <<>> =>
        /\ entry[n][1].data = entry[n][1].version
        /\ entry[n][1].version <= clock
        /\ \A p \in Node \ {n} : entry[p] # entry[n]

\* What push_history read goes on from the history on the own disk until it is written.
HeldGoesOn ==
    \A n \in Node : job[n] = "append" => IsPrefix(shard[n][HistoryKey], held[n])

IInv ==
    /\ ManifestTypeOK
    /\ OneManifest
    /\ CallHasItem
    /\ EmptyIsFetched
    /\ HistoriesArePast
    /\ EntriesAreNew
    /\ HeldGoesOn
    /\ PutterKeepsObject
    /\ CacheGoesOnFromDisk
    /\ ManifestNotStale
-----------------------------------------------------------------------------
(* Prefixes, and updates of one key of one node *)

\* A prefix has the elements of the list it starts, one by one.
LEMMA PrefixPointwise ==
    ASSUME NEW S, NEW s \in Seq(S), NEW t \in Seq(S)
    PROVE  IsPrefix(s, t) <=> Len(s) <= Len(t) /\ \A i \in 1 .. Len(s) : s[i] = t[i]
<1>1. Len(s) \in Nat /\ Len(t) \in Nat
    OBVIOUS
<1>2. SubSeq(s, 1, Len(s)) = s
    BY SubSeqFull
<1>3. ASSUME Len(s) <= Len(t)
      PROVE  s = SubSeq(t, 1, Len(s)) <=> \A i \in 1 .. Len(s) : s[i] = t[i]
    <2> DEFINE start == SubSeq(t, 1, Len(s))
    <2>1. \A i \in 1 .. Len(s) : t[i] \in S
        BY <1>1, <1>3, ElementOfSeq
    <2>2. /\ start \in Seq(S) /\ Len(start) = Len(s)
          /\ \A i \in 1 .. Len(s) : start[i] = t[i]
        BY <1>1, <2>1, SubSeqProperties
    <2> HIDE DEF start
    <2>3. (\A i \in 1 .. Len(s) : s[i] = start[i]) => s = start
        BY <2>2, SeqEqual
    <2>4. s = start <=> \A i \in 1 .. Len(s) : s[i] = t[i]
        BY <2>2, <2>3
    <2> QED BY <2>4 DEF start
<1> QED BY <1>2, <1>3 DEF IsPrefix

\* A list starts with nothing, and with itself.
LEMMA PrefixTrivial ==
    ASSUME NEW S, NEW s \in Seq(S)
    PROVE  IsPrefix(<<>>, s) /\ IsPrefix(s, s)
<1>1. /\ <<>> \in Seq(S) /\ Len(<<>>) = 0
      /\ Len(s) \in Nat
    OBVIOUS
<1>2. Len(<<>>) <= Len(s) /\ \A i \in 1 .. Len(<<>>) : <<>>[i] = s[i]
    BY <1>1
<1>3. IsPrefix(<<>>, s)
    BY <1>1, <1>2, PrefixPointwise
<1>4. IsPrefix(s, s)
    BY <1>1, PrefixPointwise
<1> QED BY <1>3, <1>4

\* What is added to a list comes after the lists it started with.
LEMMA PrefixExtended ==
    ASSUME NEW S, NEW s \in Seq(S), NEW t \in Seq(S), NEW e \in S, IsPrefix(s, t)
    PROVE  /\ t \o <<e>> \in Seq(S)
           /\ Len(t \o <<e>>) = Len(t) + 1
           /\ \A i \in 1 .. Len(t) : (t \o <<e>>)[i] = t[i]
           /\ (t \o <<e>>)[Len(t) + 1] = e
           /\ IsPrefix(s, t \o <<e>>)
           /\ s # t \o <<e>>
<1> DEFINE u == t \o <<e>>
<1>1. <<e>> \in Seq(S) /\ Len(<<e>>) = 1 /\ <<e>>[1] = e
    OBVIOUS
<1>2. Len(s) \in Nat /\ Len(t) \in Nat
    OBVIOUS
<1>3. /\ u \in Seq(S) /\ Len(u) = Len(t) + 1
      /\ \A i \in 1 .. Len(t) + 1 : u[i] = IF i <= Len(t) THEN t[i] ELSE <<e>>[i - Len(t)]
    BY <1>1, ConcatProperties
<1>4. (\A i \in 1 .. Len(t) : u[i] = t[i]) /\ u[Len(t) + 1] = e
    BY <1>1, <1>2, <1>3
<1> HIDE DEF u
<1>5. Len(s) <= Len(t) /\ \A i \in 1 .. Len(s) : s[i] = t[i]
    BY PrefixPointwise
<1>6. IsPrefix(s, u)
    BY <1>2, <1>3, <1>4, <1>5, PrefixPointwise
<1>7. s # u
    BY <1>2, <1>3, <1>5
<1> QED BY <1>3, <1>4, <1>6, <1>7 DEF u

\* A list of at most one entry is a list of entries.
LEMMA OneIsList == AtMostOne \subseteq Seq(Entry)
<1> SUFFICES ASSUME NEW list \in AtMostOne PROVE list \in Seq(Entry)
    OBVIOUS
<1>1. list = <<>> \/ \E e \in Entry : list = <<e>>
    BY DEF AtMostOne
<1>2. \A e \in Entry : <<e>> \in Seq(Entry)
    OBVIOUS
<1>3. <<>> \in Seq(Entry)
    OBVIOUS
<1>4. CASE list = <<>>
    BY <1>3, <1>4
<1>5. CASE \E e \in Entry : list = <<e>>
    BY <1>2, <1>5
<1> QED BY <1>1, <1>4, <1>5

\* A list of one element goes on from a list that is not empty only as the same.
LEMMA PrefixOfOne ==
    ASSUME NEW s \in AtMostOne, NEW t \in AtMostOne, s # <<>>, IsPrefix(s, t)
    PROVE  s = t
<1>1. PICK e \in Entry : s = <<e>>
    BY DEF AtMostOne
<1>2. t = <<>> \/ \E d \in Entry : t = <<d>>
    BY DEF AtMostOne
<1>3. s \in Seq(Entry) /\ t \in Seq(Entry) /\ Len(s) = 1
    BY <1>1, OneIsList
<1>4. 1 <= Len(t) /\ s[1] = t[1]
    BY <1>3, PrefixPointwise
<1>5. t # <<>>
    BY <1>4
<1> QED BY <1>1, <1>2, <1>4, <1>5

\* One key of one node changes.
LEMMA UpdateAt ==
    ASSUME NEW K, NEW S, NEW f \in [Node -> [K -> S]], NEW n \in Node, NEW k \in K, NEW v \in S
    PROVE  LET g == [f EXCEPT ![n][k] = v]
           IN  /\ g \in [Node -> [K -> S]]
               /\ \A p \in Node, q \in K : g[p][q] = IF p = n /\ q = k THEN v ELSE f[p][q]
<1> DEFINE g == [f EXCEPT ![n][k] = v]
<1>1. \A p \in Node : g[p] = IF p = n THEN [f[n] EXCEPT ![k] = v] ELSE f[p]
    OBVIOUS
<1>2. [f[n] EXCEPT ![k] = v] \in [K -> S]
    OBVIOUS
<1>3. g \in [Node -> [K -> S]]
    BY <1>2
<1>4. \A p \in Node, q \in K : g[p][q] = IF p = n /\ q = k THEN v ELSE f[p][q]
    BY <1>1, <1>2
<1> QED BY <1>3, <1>4

\* The two keys are among the keys, and are two.
LEMMA TwoKeys == ManifestKey \in Key /\ HistoryKey \in Key /\ ManifestKey # HistoryKey
BY ManifestAssumption DEF ManifestKey, HistoryKey
-----------------------------------------------------------------------------
(* What steps do to the parts of the invariant *)

\* What a read returns goes on from the own shard, and is known already.
LEMMA FoundIsRight ==
    ASSUME IInv, NEW n \in Node, NEW k \in Key, NEW v \in Found(n, k)
    PROVE  /\ v \in Seq(Entry)
           /\ IsPrefix(shard[n][k], v)
           /\ k = ManifestKey => v \in AtMostOne
           /\ k = HistoryKey => v \in Lists
<1>1. \A p \in Node : shard[p][k] \in Seq(Entry) /\ cache[p][k] \in Seq(Entry)
    BY DEF IInv, ManifestTypeOK
<1>2. PICK p \in Node : \/ p = n /\ v = cache[n][k] /\ cache[n][k] # <<>>
                        \/ p = n /\ v = shard[n][k]
                        \/ shard[n][k] = <<>> /\ v = shard[p][k]
    BY DEF Found, Peers
<1>3. v \in Seq(Entry)
    BY <1>1, <1>2
<1>4. IsPrefix(shard[n][k], v)
    <2>1. CASE v = cache[n][k] /\ cache[n][k] # <<>>
        BY <2>1 DEF IInv, CacheGoesOnFromDisk
    <2>2. CASE v = shard[n][k]
        BY <1>1, <2>2, PrefixTrivial
    <2>3. CASE shard[n][k] = <<>>
        BY <1>3, <2>3, PrefixTrivial
    <2> QED BY <1>2, <2>1, <2>2, <2>3
<1>5. k = ManifestKey => v \in AtMostOne
    BY <1>2 DEF IInv, OneManifest
<1>6. k = HistoryKey => v \in Lists
    BY <1>2 DEF Lists
<1> QED BY <1>3, <1>4, <1>5, <1>6

\* To cache what was read, or to forget it, keeps the caches right.
LEMMA CachedKeeps ==
    ASSUME IInv, NEW n \in Node, NEW k \in Key, NEW v \in Found(n, k) \cup {<<>>}
    PROVE  LET read == Cached(n, k, v)
           IN  /\ read \in [Node -> [Key -> Seq(Entry)]]
               /\ \A p \in Node, q \in Key :
                      read[p][q] = IF p = n /\ q = k THEN v ELSE cache[p][q]
               /\ \A p \in Node, q \in Key :
                      read[p][q] # <<>> => IsPrefix(shard[p][q], read[p][q])
               /\ \A p \in Node : /\ read[p][ManifestKey] \in AtMostOne
                                  /\ read[p][HistoryKey] \in Lists \cup {<<>>}
<1> DEFINE read == Cached(n, k, v)
<1>1. /\ v \in Seq(Entry)
      /\ v # <<>> => IsPrefix(shard[n][k], v)
      /\ k = ManifestKey => v \in AtMostOne
      /\ k = HistoryKey => v \in Lists \cup {<<>>}
    <2>1. CASE v \in Found(n, k)
        BY <2>1, FoundIsRight
    <2>2. CASE v = <<>>
        BY <2>2, EmptySeq DEF AtMostOne
    <2> QED BY <2>1, <2>2
<1>2. cache \in [Node -> [Key -> Seq(Entry)]]
    BY DEF IInv, ManifestTypeOK
<1>3. /\ read \in [Node -> [Key -> Seq(Entry)]]
      /\ \A p \in Node, q \in Key : read[p][q] = IF p = n /\ q = k THEN v ELSE cache[p][q]
    BY <1>1, <1>2, UpdateAt DEF Cached
<1> HIDE DEF read
<1>4. \A p \in Node, q \in Key : read[p][q] # <<>> => IsPrefix(shard[p][q], read[p][q])
    BY <1>1, <1>3 DEF IInv, CacheGoesOnFromDisk
<1>5. \A p \in Node : read[p][ManifestKey] \in AtMostOne
    BY <1>1, <1>3, TwoKeys DEF IInv, OneManifest
<1>6. \A p \in Node : read[p][HistoryKey] \in Lists \cup {<<>>}
    BY <1>1, <1>3, TwoKeys DEF Lists
<1> QED BY <1>3, <1>4, <1>5, <1>6 DEF read

\* Where no list comes up and nothing is put, histories stay what they are.
LEMMA PastKeeps ==
    ASSUME IInv, clock' \in 0 .. MaxTime, clock' >= clock, Lists' \subseteq Lists \cup {<<>>},
           \A n \in Node : entry'[n] \in {entry[n], <<>>}
    PROVE  HistoriesArePast' /\ EntriesAreNew'
<1>1. clock \in Nat /\ clock' \in Nat
    BY StorageAssumption DEF IInv, ManifestTypeOK
<1>2. \A n \in Node : entry[n] \in AtMostOne
    BY DEF IInv, ManifestTypeOK
<1>3. \A e \in Entry : e.version \in Nat
    BY StorageAssumption DEF Entry, Version
<1>4. ASSUME NEW list \in Lists PROVE IsPast(list)'
    <2>1. list \in Seq(Entry)
        BY TwoKeys DEF Lists, IInv, ManifestTypeOK
    <2>2. IsPast(list)
        BY DEF IInv, HistoriesArePast
    <2>3. \A i \in DOMAIN list : list[i] \in Entry
        BY <2>1
    <2> QED BY <1>1, <1>3, <2>2, <2>3 DEF IsPast
<1>5. IsPast(<<>>)'
    BY DEF IsPast
<1>6. HistoriesArePast'
    BY <1>4, <1>5 DEF HistoriesArePast
<1>7. EntriesAreNew'
    <2> SUFFICES ASSUME NEW n \in Node, entry'[n] # <<>>
                 PROVE  /\ entry'[n][1].data = entry'[n][1].version
                        /\ entry'[n][1].version <= clock'
                        /\ \A p \in Node \ {n} : entry'[p] # entry'[n]
        BY DEF EntriesAreNew
    <2>1. entry'[n] = entry[n] /\ entry[n] # <<>>
        OBVIOUS
    <2>2. entry[n][1] \in Entry
        BY <1>2, <2>1 DEF AtMostOne
    <2>3. /\ entry[n][1].data = entry[n][1].version /\ entry[n][1].version <= clock
          /\ \A p \in Node \ {n} : entry[p] # entry[n]
        BY <2>1 DEF IInv, EntriesAreNew
    <2>4. entry[n][1].version <= clock'
        BY <1>1, <1>3, <2>2, <2>3
    <2>5. \A p \in Node \ {n} : entry'[p] # entry'[n]
        BY <2>1, <2>3
    <2> QED BY <2>1, <2>3, <2>4, <2>5
<1> QED BY <1>6, <1>7

\* A step that touches no key and no manifest keeps what is said of them.
LEMMA QuietKeepsManifest ==
    ASSUME IInv, UNCHANGED <<kvVars, manifestVars>>, clock' \in 0 .. MaxTime, clock' >= clock,
           \A n \in Node : job'[n] = "append" => job[n] = "append"
    PROVE  /\ OneManifest' /\ HistoriesArePast' /\ EntriesAreNew'
           /\ HeldGoesOn' /\ CacheGoesOnFromDisk' /\ ManifestNotStale'
<1>1. UNCHANGED <<shard, cache, mcache, entry, held>>
    BY DEF kvVars, manifestVars
<1>2. HistoriesArePast' /\ EntriesAreNew'
    BY <1>1, PastKeeps DEF Lists
<1>3. OneManifest'
    <2>1. clock \in Nat /\ clock' \in Nat
        BY StorageAssumption DEF IInv, ManifestTypeOK
    <2>2. \A n \in Node : \A i \in DOMAIN shard[n][ManifestKey] :
              shard[n][ManifestKey][i].version \in Nat
        <3> SUFFICES ASSUME NEW n \in Node, NEW i \in DOMAIN shard[n][ManifestKey]
                     PROVE  shard[n][ManifestKey][i].version \in Nat
            OBVIOUS
        <3>1. shard[n][ManifestKey] \in Seq(Entry)
            BY TwoKeys DEF IInv, ManifestTypeOK
        <3>2. shard[n][ManifestKey][i] \in Entry
            BY <3>1
        <3> QED BY <3>2, StorageAssumption DEF Entry, Version
    <2> QED BY <1>1, <2>1, <2>2 DEF IInv, OneManifest
<1>4. HeldGoesOn' /\ CacheGoesOnFromDisk' /\ ManifestNotStale'
    BY <1>1 DEF IInv, HeldGoesOn, CacheGoesOnFromDisk, ManifestNotStale
<1> QED BY <1>2, <1>3, <1>4

\* A step that touches no object keeps what is said of them.
LEMMA QuietKeepsObjects ==
    ASSUME IInv, UNCHANGED objectVars,
           \A n \in Node : job[n] \in Calls \/ job'[n] \in Calls => job'[n] = job[n]
    PROVE  CallHasItem' /\ EmptyIsFetched' /\ PutterKeepsObject'
<1>1. UNCHANGED <<objects, tmp, storing, pushes, left, item, owned>>
    BY DEF objectVars
<1>2. CallHasItem'
    BY <1>1 DEF IInv, CallHasItem, Calls
<1>3. EmptyIsFetched'
    BY <1>1 DEF IInv, EmptyIsFetched, Calls
<1>4. PutterKeepsObject'
    BY <1>1 DEF IInv, PutterKeepsObject
<1> QED BY <1>2, <1>3, <1>4
-----------------------------------------------------------------------------
(* The steps of the objects *)

\* The call of a process goes on, or ends; the others go on with theirs.
LEMMA GoesOn ==
    ASSUME IInv, NEW n \in Node, NEW peers \in SUBSET Node, GoOn(n, peers),
           job[n] \in Calls, peers # {} => job[n] \in {"push", "fetch"}
    PROVE  /\ left' \in [Node -> SUBSET Node]
           /\ job' \in [Node -> Jobs]
           /\ item' \in [Node -> Items]
           /\ \A p \in Node : /\ left'[p] # {} <=> job'[p] \in {"push", "fetch"}
                              /\ job'[p] \in {"log", "append"} <=> job[p] \in {"log", "append"}
                              /\ job'[p] = "append" => job[p] = "append"
                              /\ job'[p] \in Calls => job'[p] = job[p] /\ item'[p] = item[p]
                              /\ p # n => job'[p] = job[p] /\ item'[p] = item[p]
<1>1. /\ left \in [Node -> SUBSET Node]
      /\ job \in [Node -> Jobs]
      /\ item \in [Node -> Items]
      /\ \A p \in Node : left[p] # {} <=> job[p] \in {"push", "fetch"}
    BY DEF IInv, ManifestTypeOK, CallHasItem, Jobs, Calls
<1>2. left' = [left EXCEPT ![n] = peers]
    BY DEF GoOn
<1>3. CASE peers = {}
    <2>1. job' = [job EXCEPT ![n] = "idle"] /\ item' = [item EXCEPT ![n] = <<>>]
        BY <1>3 DEF GoOn
    <2>2. <<>> \in Items
        BY DEF Items
    <2> QED BY <1>1, <1>2, <1>3, <2>1, <2>2 DEF Jobs, Calls
<1>4. CASE peers # {}
    <2>1. job' = job /\ item' = item
        BY <1>4 DEF GoOn
    <2> QED BY <1>1, <1>2, <1>4, <2>1
<1> QED BY <1>3, <1>4

\* What is put in place of an object of a process that put it is content.
LEMMA TmpOfOwned ==
    ASSUME IInv, NEW n \in Node, NEW o \in Obj, tmp[n][o] # Absent,
           <<n, o>> \in owned \/ job[n] = "put"
    PROVE  tmp[n][o] \in Data
<1>1. tmp[n][o] \in Data \cup {Empty}
    BY DEF IInv, ManifestTypeOK
<1>2. ASSUME tmp[n][o] = Empty PROVE FALSE
    <2>1. job[n] = "store" /\ item[n] = <<o>>
        BY <1>2 DEF IInv, EmptyIsFetched
    <2>2. PICK q \in Obj : item[n] = <<q>> /\ <<n, q>> \notin owned
        BY <2>1 DEF IInv, CallHasItem
    <2>3. q = o
        BY <2>1, <2>2
    <2> QED BY <2>1, <2>2, <2>3
<1> QED BY <1>1, <1>2

\* One .tmp file goes into place, or none.
LEMMA ReplaceIs ==
    ASSUME IInv, NEW n \in Node, NEW o \in Obj, Replace(n, o) \/ ReplaceFails(n, o)
    PROVE  /\ objects' \in [Node -> [Obj -> Data \cup {Empty, Absent}]]
           /\ tmp' \in [Node -> [Obj -> Data \cup {Empty, Absent}]]
           /\ tmp'[n][o] = Absent
           /\ \A p \in Node, q \in Obj :
                  /\ tmp'[p][q] = tmp[p][q] \/ tmp'[p][q] = Absent
                  /\ \/ objects'[p][q] = objects[p][q]
                     \/ /\ p = n /\ q = o
                        /\ tmp[n][o] # Absent /\ objects'[p][q] = tmp[n][o]
           /\ Replace(n, o) => tmp[n][o] # Absent /\ objects'[n][o] = tmp[n][o]
<1>1. /\ objects \in [Node -> [Obj -> Data \cup {Empty, Absent}]]
      /\ tmp \in [Node -> [Obj -> Data \cup {Empty, Absent}]]
    BY DEF IInv, ManifestTypeOK
<1>2. CASE Replace(n, o)
    <2>1. /\ tmp[n][o] # Absent
          /\ objects' = [objects EXCEPT ![n][o] = tmp[n][o]]
          /\ tmp' = [tmp EXCEPT ![n][o] = Absent]
        BY <1>2 DEF Replace
    <2>2. /\ objects' \in [Node -> [Obj -> Data \cup {Empty, Absent}]]
          /\ \A p \in Node, q \in Obj :
                 objects'[p][q] = IF p = n /\ q = o THEN tmp[n][o] ELSE objects[p][q]
        BY <1>1, <2>1, UpdateAt
    <2>3. /\ tmp' \in [Node -> [Obj -> Data \cup {Empty, Absent}]]
          /\ \A p \in Node, q \in Obj :
                 tmp'[p][q] = IF p = n /\ q = o THEN Absent ELSE tmp[p][q]
        BY <1>1, <2>1, UpdateAt
    <2> QED BY <2>1, <2>2, <2>3
<1>3. CASE ReplaceFails(n, o)
    <2>1. tmp[n][o] = Absent /\ objects' = objects /\ tmp' = tmp
        BY <1>3 DEF ReplaceFails
    <2> QED BY <1>1, <2>1 DEF Replace
<1> QED BY <1>2, <1>3

\* One .tmp file is written.
LEMMA WriteTmpIs ==
    ASSUME IInv, NEW n \in Node, NEW o \in Obj, NEW d \in Data \cup {Empty, Absent},
           WriteTmp(n, o, d)
    PROVE  /\ tmp' \in [Node -> [Obj -> Data \cup {Empty, Absent}]]
           /\ \A p \in Node, q \in Obj :
                  tmp'[p][q] = IF p = n /\ q = o THEN d ELSE tmp[p][q]
BY UpdateAt DEF IInv, ManifestTypeOK, WriteTmp

\* The steps of objects touch nothing else.
LEMMA ObjectsKeep ==
    ASSUME IInv, UNCHANGED <<kvVars, manifestVars>>,
           clock' \in 0 .. MaxTime, clock' >= clock,
           objects' \in [Node -> [Obj -> Data \cup {Empty, Absent}]],
           tmp' \in [Node -> [Obj -> Data \cup {Empty, Absent}]],
           storing' \in [Node -> {<<>>} \cup {<<o>> : o \in Obj}],
           pushes' \subseteq [to : Node, obj : Obj, data : Data],
           left' \in [Node -> SUBSET Node],
           job' \in [Node -> Jobs],
           CallHasItem', EmptyIsFetched', PutterKeepsObject',
           \A p \in Node : /\ left'[p] # {} <=> job'[p] \in {"push", "fetch"}
                           /\ job'[p] \in {"log", "append"} <=> job[p] \in {"log", "append"}
                           /\ job'[p] = "append" => job[p] = "append"
    PROVE  IInv'
<1>1. job' \in [Node -> {"idle", "put", "push", "fetch", "store", "log", "append"}]
    BY DEF Jobs, Calls
<1>2. ManifestTypeOK'
    BY <1>1 DEF IInv, ManifestTypeOK, kvVars, manifestVars, AtMostOne
<1>3. /\ OneManifest' /\ HistoriesArePast' /\ EntriesAreNew'
      /\ HeldGoesOn' /\ CacheGoesOnFromDisk' /\ ManifestNotStale'
    BY QuietKeepsManifest
<1> QED BY <1>2, <1>3 DEF IInv

\* What most of those steps leave as it is.
LEMMA StillTyped ==
    ASSUME IInv
    PROVE  /\ clock \in Nat /\ clock \in 0 .. MaxTime /\ clock >= clock
           /\ objects \in [Node -> [Obj -> Data \cup {Empty, Absent}]]
           /\ tmp \in [Node -> [Obj -> Data \cup {Empty, Absent}]]
           /\ storing \in [Node -> {<<>>} \cup {<<o>> : o \in Obj}]
           /\ pushes \subseteq [to : Node, obj : Obj, data : Data]
           /\ left \in [Node -> SUBSET Node]
           /\ job \in [Node -> Jobs]
           /\ item \in [Node -> Items]
           /\ \A p \in Node : left[p] # {} <=> job[p] \in {"push", "fetch"}
BY StorageAssumption DEF IInv, ManifestTypeOK, CallHasItem, Jobs, Calls

\* put_object writes the .tmp file of its object.
LEMMA PutObjectKeeps ==
    ASSUME IInv, NEW n \in Node, NEW o \in Obj, NEW d \in Data, PutObject(n, o, d),
           UNCHANGED manifestVars
    PROVE  IInv'
<1>1. /\ job[n] = "idle" /\ clock < MaxTime /\ clock' = clock + 1
      /\ WriteTmp(n, o, d)
      /\ item' = [item EXCEPT ![n] = <<o, d>>]
      /\ job' = [job EXCEPT ![n] = "put"]
      /\ UNCHANGED <<kvVars, objects, storing, pushes, left, owned>>
    BY DEF PutObject, Idle, Tick
<1>2. clock' \in 0 .. MaxTime /\ clock' >= clock
    BY <1>1, StillTyped, StorageAssumption
<1>3. /\ tmp' \in [Node -> [Obj -> Data \cup {Empty, Absent}]]
      /\ \A p \in Node, q \in Obj : tmp'[p][q] = IF p = n /\ q = o THEN d ELSE tmp[p][q]
    BY <1>1, WriteTmpIs
<1>4. job' \in [Node -> Jobs] /\ item' \in [Node -> Items]
    BY <1>1, StillTyped DEF Items, Jobs, Calls
<1>5. /\ job'[n] = "put" /\ item'[n] = <<o, d>>
      /\ \A p \in Node \ {n} : job'[p] = job[p] /\ item'[p] = item[p]
    BY <1>1, StillTyped
<1>6. \A p \in Node : /\ left'[p] # {} <=> job'[p] \in {"push", "fetch"}
                      /\ job'[p] \in {"log", "append"} <=> job[p] \in {"log", "append"}
                      /\ job'[p] = "append" => job[p] = "append"
    BY <1>1, <1>5, StillTyped
<1>7. CallHasItem'
    <2> SUFFICES ASSUME NEW p \in Node
                 PROVE  /\ job'[p] \in {"put", "push"} => item'[p] \in Obj \X Data
                        /\ job'[p] \in {"fetch", "store"} =>
                              \E q \in Obj : item'[p] = <<q>> /\ <<p, q>> \notin owned'
        BY <1>4 DEF CallHasItem
    <2>1. CASE p = n
        BY <1>5, <2>1
    <2>2. CASE p # n
        BY <1>1, <1>5, <2>2 DEF IInv, CallHasItem
    <2> QED BY <2>1, <2>2
<1>8. EmptyIsFetched'
    <2> SUFFICES ASSUME NEW p \in Node, NEW q \in Obj, tmp'[p][q] = Empty
                 PROVE  job'[p] = "store" /\ item'[p] = <<q>>
        BY DEF EmptyIsFetched
    <2>1. tmp[p][q] = Empty
        BY <1>3, StorageAssumption
    <2>2. job[p] = "store" /\ item[p] = <<q>>
        BY <2>1 DEF IInv, EmptyIsFetched
    <2>3. p # n
        BY <1>1, <2>2
    <2> QED BY <1>5, <2>2, <2>3
<1>9. PutterKeepsObject'
    BY <1>1 DEF IInv, PutterKeepsObject
<1> QED BY <1>1, <1>2, <1>3, <1>4, <1>6, <1>7, <1>8, <1>9, StillTyped, ObjectsKeep

\* put_object stores the object, unless the listener moved its .tmp file, and starts to
\* push it.
LEMMA StoreOwnKeeps ==
    ASSUME IInv, NEW n \in Node, StoreOwn(n), UNCHANGED manifestVars
    PROVE  IInv'
<1>1. /\ job[n] = "put"
      /\ UNCHANGED <<clock, kvVars, storing, pushes>>
    BY DEF StoreOwn
<1>2. PICK o \in Obj, d \in Data : item[n] = <<o, d>>
    BY <1>1 DEF IInv, CallHasItem
<1>3. \/ /\ Replace(n, o)
         /\ owned' = owned \cup {<<n, o>>}
         /\ job' = [job EXCEPT ![n] = IF Peers(n) = {} THEN "idle" ELSE "push"]
         /\ left' = [left EXCEPT ![n] = Peers(n)]
         /\ item' = [item EXCEPT ![n] = IF Peers(n) = {} THEN <<>> ELSE item[n]]
      \/ /\ ReplaceFails(n, o)
         /\ GoOn(n, {})
         /\ UNCHANGED owned
    BY <1>2, StillTyped DEF StoreOwn
<1>4. /\ objects' \in [Node -> [Obj -> Data \cup {Empty, Absent}]]
      /\ tmp' \in [Node -> [Obj -> Data \cup {Empty, Absent}]]
      /\ \A p \in Node, q \in Obj :
             /\ tmp'[p][q] = tmp[p][q] \/ tmp'[p][q] = Absent
             /\ \/ objects'[p][q] = objects[p][q]
                \/ /\ p = n /\ q = o
                   /\ tmp[n][o] # Absent /\ objects'[p][q] = tmp[n][o]
      /\ Replace(n, o) => tmp[n][o] # Absent /\ objects'[n][o] = tmp[n][o]
    BY <1>3, ReplaceIs
<1>5. tmp[n][o] # Absent => tmp[n][o] \in Data
    BY <1>1, TmpOfOwned
<1>6. /\ left' \in [Node -> SUBSET Node]
      /\ job' \in [Node -> Jobs]
      /\ item' \in [Node -> Items]
      /\ job'[n] \in {"idle", "push"}
      /\ job'[n] = "push" => item'[n] = item[n]
      /\ \A p \in Node \ {n} : job'[p] = job[p] /\ item'[p] = item[p]
      /\ \A p \in Node : left'[p] # {} <=> job'[p] \in {"push", "fetch"}
    <2>1. CASE Peers(n) # {} /\ left' = [left EXCEPT ![n] = Peers(n)]
                             /\ job' = [job EXCEPT ![n] = "push"] /\ item' = item
        BY <2>1, StillTyped DEF Peers, Jobs, Calls
    <2>2. CASE left' = [left EXCEPT ![n] = {}] /\ job' = [job EXCEPT ![n] = "idle"]
                                              /\ item' = [item EXCEPT ![n] = <<>>]
        BY <2>2, StillTyped DEF Jobs, Items
    <2>3. GoOn(n, {}) => /\ left' = [left EXCEPT ![n] = {}]
                         /\ job' = [job EXCEPT ![n] = "idle"] /\ item' = [item EXCEPT ![n] = <<>>]
        BY DEF GoOn
    <2>4. item = [item EXCEPT ![n] = item[n]]
        BY StillTyped
    <2> QED BY <1>3, <2>1, <2>2, <2>3, <2>4
<1>7. \A p \in Node : /\ job'[p] \in {"log", "append"} <=> job[p] \in {"log", "append"}
                      /\ job'[p] = "append" => job[p] = "append"
    BY <1>1, <1>6
<1>8. owned \subseteq owned' /\ \A p \in Node, q \in Obj :
          <<p, q>> \in owned' /\ <<p, q>> \notin owned => p = n /\ q = o /\ Replace(n, o)
    BY <1>3
<1>9. CallHasItem'
    <2> SUFFICES ASSUME NEW p \in Node
                 PROVE  /\ job'[p] \in {"put", "push"} => item'[p] \in Obj \X Data
                        /\ job'[p] \in {"fetch", "store"} =>
                              \E q \in Obj : item'[p] = <<q>> /\ <<p, q>> \notin owned'
        BY <1>6 DEF CallHasItem
    <2>1. CASE p = n
        <3>1. <<o, d>> \in Obj \X Data
            OBVIOUS
        <3>2. job'[n] \notin {"fetch", "store", "put"}
            BY <1>6
        <3> QED BY <1>2, <1>6, <2>1, <3>1, <3>2
    <2>2. CASE p # n
        <3>1. /\ job[p] \in {"put", "push"} => item[p] \in Obj \X Data
              /\ job[p] \in {"fetch", "store"} =>
                    \E q \in Obj : item[p] = <<q>> /\ <<p, q>> \notin owned
            BY DEF IInv, CallHasItem
        <3>2. \A q \in Obj : <<p, q>> \notin owned => <<p, q>> \notin owned'
            BY <1>8, <2>2
        <3> QED BY <1>6, <2>2, <3>1, <3>2
    <2> QED BY <2>1, <2>2
<1>10. EmptyIsFetched'
    <2> SUFFICES ASSUME NEW p \in Node, NEW q \in Obj, tmp'[p][q] = Empty
                 PROVE  job'[p] = "store" /\ item'[p] = <<q>>
        BY DEF EmptyIsFetched
    <2>1. tmp[p][q] = Empty
        BY <1>4, StorageAssumption
    <2>2. job[p] = "store" /\ item[p] = <<q>>
        BY <2>1 DEF IInv, EmptyIsFetched
    <2> QED BY <1>1, <1>6, <2>2
<1>11. PutterKeepsObject'
    <2> SUFFICES ASSUME NEW p \in Node, NEW q \in Obj, <<p, q>> \in owned'
                 PROVE  objects'[p][q] \in Data
        BY DEF PutterKeepsObject
    <2>1. CASE p = n /\ q = o /\ Replace(n, o)
        BY <1>4, <1>5, <2>1
    <2>2. CASE <<p, q>> \in owned
        <3>1. objects[p][q] \in Data
            BY <2>2 DEF IInv, PutterKeepsObject
        <3> QED BY <1>4, <1>5, <3>1
    <2> QED BY <1>8, <2>1, <2>2
<1> QED BY <1>1, <1>4, <1>6, <1>7, <1>9, <1>10, <1>11, StillTyped, ObjectsKeep

\* A push leaves, or is lost.
LEMMA PushKeeps ==
    ASSUME IInv, NEW n \in Node, NEW p \in Node, Push(n, p), UNCHANGED manifestVars
    PROVE  IInv'
<1>1. /\ job[n] = "push" /\ GoOn(n, left[n] \ {p})
      /\ UNCHANGED <<clock, kvVars, objects, tmp, storing, owned>>
    BY DEF Push
<1>2. item[n] \in Obj \X Data /\ left[n] \in SUBSET Node
    BY <1>1 DEF IInv, CallHasItem, ManifestTypeOK
<1>3. pushes' \subseteq [to : Node, obj : Obj, data : Data]
    BY <1>2 DEF Push, IInv, ManifestTypeOK
<1>4. job[n] \in Calls
    BY <1>1 DEF Calls
<1>5. /\ left' \in [Node -> SUBSET Node]
      /\ job' \in [Node -> Jobs]
      /\ item' \in [Node -> Items]
      /\ \A q \in Node : /\ left'[q] # {} <=> job'[q] \in {"push", "fetch"}
                         /\ job'[q] \in {"log", "append"} <=> job[q] \in {"log", "append"}
                         /\ job'[q] = "append" => job[q] = "append"
                         /\ job'[q] \in Calls => job'[q] = job[q] /\ item'[q] = item[q]
                         /\ q # n => job'[q] = job[q] /\ item'[q] = item[q]
    BY <1>1, <1>2, <1>4, GoesOn
<1>6. CallHasItem'
    BY <1>1, <1>5 DEF IInv, CallHasItem, Calls
<1>7. EmptyIsFetched' /\ PutterKeepsObject'
    BY <1>1, <1>5 DEF IInv, EmptyIsFetched, PutterKeepsObject
<1> QED BY <1>1, <1>3, <1>5, <1>6, <1>7, StillTyped, ObjectsKeep

\* A push that arrives is written as a whole, or not at all.
LEMMA HandlePutKeeps ==
    ASSUME IInv, NEW m \in pushes, HandlePut(m), UNCHANGED manifestVars
    PROVE  IInv'
<1>1. /\ pushes' = pushes \ {m}
      /\ UNCHANGED <<clock, kvVars, objects, job, left, item, owned>>
      /\ \/ /\ WriteTmp(m.to, m.obj, m.data)
            /\ storing' = [storing EXCEPT ![m.to] = <<m.obj>>]
         \/ UNCHANGED <<tmp, storing>>
    BY DEF HandlePut
<1>2. m.to \in Node /\ m.obj \in Obj /\ m.data \in Data
    BY DEF IInv, ManifestTypeOK
<1>3. /\ tmp' \in [Node -> [Obj -> Data \cup {Empty, Absent}]]
      /\ \A p \in Node, q \in Obj : tmp'[p][q] = tmp[p][q] \/ tmp'[p][q] = m.data
    <2>1. CASE WriteTmp(m.to, m.obj, m.data)
        BY <1>2, <2>1, WriteTmpIs
    <2>2. CASE UNCHANGED <<tmp, storing>>
        BY <2>2, StillTyped
    <2> QED BY <1>1, <2>1, <2>2
<1>4. storing' \in [Node -> {<<>>} \cup {<<o>> : o \in Obj}]
    <2>1. CASE storing' = [storing EXCEPT ![m.to] = <<m.obj>>]
        <3>1. <<m.obj>> \in {<<>>} \cup {<<o>> : o \in Obj}
            BY <1>2
        <3> QED BY <2>1, <3>1, StillTyped
    <2>2. CASE storing' = storing
        BY <2>2, StillTyped
    <2> QED BY <1>1, <2>1, <2>2
<1>5. pushes' \subseteq [to : Node, obj : Obj, data : Data]
    BY <1>1, StillTyped
<1>6. CallHasItem' /\ PutterKeepsObject'
    BY <1>1 DEF IInv, CallHasItem, PutterKeepsObject
<1>7. EmptyIsFetched'
    BY <1>1, <1>2, <1>3, StorageAssumption DEF IInv, EmptyIsFetched
<1> QED BY <1>1, <1>3, <1>4, <1>5, <1>6, <1>7, StillTyped, ObjectsKeep

\* The listener puts what it has in the .tmp file into place: content, where the object
\* was put by this process.
LEMMA StorePushedKeeps ==
    ASSUME IInv, NEW n \in Node, StorePushed(n), UNCHANGED manifestVars
    PROVE  IInv'
<1>1. /\ storing[n] # <<>>
      /\ Replace(n, storing[n][1]) \/ ReplaceFails(n, storing[n][1])
      /\ storing' = [storing EXCEPT ![n] = <<>>]
      /\ UNCHANGED <<clock, kvVars, pushes, job, left, item, owned>>
    BY DEF StorePushed
<1>2. PICK o \in Obj : storing[n] = <<o>>
    BY <1>1, StillTyped
<1>3. /\ objects' \in [Node -> [Obj -> Data \cup {Empty, Absent}]]
      /\ tmp' \in [Node -> [Obj -> Data \cup {Empty, Absent}]]
      /\ \A p \in Node, q \in Obj :
             /\ tmp'[p][q] = tmp[p][q] \/ tmp'[p][q] = Absent
             /\ \/ objects'[p][q] = objects[p][q]
                \/ /\ p = n /\ q = o
                   /\ tmp[n][o] # Absent /\ objects'[p][q] = tmp[n][o]
    BY <1>1, <1>2, ReplaceIs
<1>4. storing' \in [Node -> {<<>>} \cup {<<q>> : q \in Obj}]
    BY <1>1, StillTyped
<1>5. CallHasItem'
    BY <1>1 DEF IInv, CallHasItem
<1>6. EmptyIsFetched'
    BY <1>1, <1>3, StorageAssumption DEF IInv, EmptyIsFetched
<1>7. PutterKeepsObject'
    <2> SUFFICES ASSUME NEW p \in Node, NEW q \in Obj, <<p, q>> \in owned
                 PROVE  objects'[p][q] \in Data
        BY <1>1 DEF PutterKeepsObject
    <2>1. objects[p][q] \in Data
        BY DEF IInv, PutterKeepsObject
    <2>2. CASE p = n /\ q = o /\ tmp[n][o] # Absent /\ objects'[p][q] = tmp[n][o]
        BY <2>2, TmpOfOwned
    <2> QED BY <1>3, <2>1, <2>2
<1> QED BY <1>1, <1>3, <1>4, <1>5, <1>6, <1>7, StillTyped, ObjectsKeep

\* get_object turns to the peers only for an object that was never put here.
LEMMA GetObjectKeeps ==
    ASSUME IInv, NEW n \in Node, NEW o \in Obj, GetObject(n, o), UNCHANGED manifestVars
    PROVE  IInv'
<1>1. /\ job[n] = "idle" /\ objects[n][o] = Absent /\ Peers(n) # {}
      /\ item' = [item EXCEPT ![n] = <<o>>]
      /\ left' = [left EXCEPT ![n] = Peers(n)]
      /\ job' = [job EXCEPT ![n] = "fetch"]
      /\ UNCHANGED <<clock, kvVars, objects, tmp, storing, pushes, owned>>
    BY DEF GetObject, Idle, Missing
<1>2. <<n, o>> \notin owned
    BY <1>1, StorageAssumption DEF IInv, PutterKeepsObject
<1>3. /\ left' \in [Node -> SUBSET Node]
      /\ job' \in [Node -> Jobs]
      /\ item' \in [Node -> Items]
    BY <1>1, StillTyped DEF Peers, Items, Jobs, Calls
<1>4. /\ job'[n] = "fetch" /\ item'[n] = <<o>>
      /\ \A p \in Node \ {n} : job'[p] = job[p] /\ item'[p] = item[p]
    BY <1>1, StillTyped
<1>5. \A p \in Node : /\ left'[p] # {} <=> job'[p] \in {"push", "fetch"}
                      /\ job'[p] \in {"log", "append"} <=> job[p] \in {"log", "append"}
                      /\ job'[p] = "append" => job[p] = "append"
    BY <1>1, StillTyped
<1>6. CallHasItem'
    <2> SUFFICES ASSUME NEW p \in Node
                 PROVE  /\ job'[p] \in {"put", "push"} => item'[p] \in Obj \X Data
                        /\ job'[p] \in {"fetch", "store"} =>
                              \E q \in Obj : item'[p] = <<q>> /\ <<p, q>> \notin owned'
        BY <1>3 DEF CallHasItem
    <2>1. CASE p = n
        BY <1>1, <1>2, <1>4, <2>1
    <2>2. CASE p # n
        BY <1>1, <1>4, <2>2 DEF IInv, CallHasItem
    <2> QED BY <2>1, <2>2
<1>7. EmptyIsFetched'
    BY <1>1, <1>4 DEF IInv, EmptyIsFetched
<1>8. PutterKeepsObject'
    BY <1>1 DEF IInv, PutterKeepsObject
<1> QED BY <1>1, <1>3, <1>5, <1>6, <1>7, <1>8, StillTyped, ObjectsKeep

\* Whatever is answered is on its way to where the object was never put.
LEMMA AdoptKeeps ==
    ASSUME IInv, NEW n \in Node, NEW p \in Node, Adopt(n, p), UNCHANGED manifestVars
    PROVE  IInv'
<1>1. /\ job[n] = "fetch"
      /\ WriteTmp(n, item[n][1], Answer(p, item[n][1]))
      /\ left' = [left EXCEPT ![n] = {}]
      /\ job' = [job EXCEPT ![n] = "store"]
      /\ UNCHANGED <<clock, kvVars, objects, storing, pushes, item, owned>>
    BY DEF Adopt
<1>2. PICK o \in Obj : item[n] = <<o>> /\ <<n, o>> \notin owned
    BY <1>1 DEF IInv, CallHasItem
<1>3. Answer(p, o) \in Data \cup {Empty, Absent}
    BY DEF Answer, IInv, ManifestTypeOK
<1>4. /\ tmp' \in [Node -> [Obj -> Data \cup {Empty, Absent}]]
      /\ \A q \in Node, x \in Obj :
             tmp'[q][x] = IF q = n /\ x = o THEN Answer(p, o) ELSE tmp[q][x]
    <2>1. WriteTmp(n, o, Answer(p, o))
        BY <1>1, <1>2
    <2> QED BY <1>3, <2>1, WriteTmpIs
<1>5. left' \in [Node -> SUBSET Node] /\ job' \in [Node -> Jobs]
    BY <1>1, StillTyped DEF Jobs, Calls
<1>6. job'[n] = "store" /\ \A q \in Node \ {n} : job'[q] = job[q]
    BY <1>1, StillTyped
<1>7. \A q \in Node : /\ left'[q] # {} <=> job'[q] \in {"push", "fetch"}
                      /\ job'[q] \in {"log", "append"} <=> job[q] \in {"log", "append"}
                      /\ job'[q] = "append" => job[q] = "append"
    BY <1>1, StillTyped
<1>8. CallHasItem'
    BY <1>1, <1>2, <1>6 DEF IInv, CallHasItem
<1>9. EmptyIsFetched'
    <2> SUFFICES ASSUME NEW q \in Node, NEW x \in Obj, tmp'[q][x] = Empty
                 PROVE  job'[q] = "store" /\ item'[q] = <<x>>
        BY DEF EmptyIsFetched
    <2>1. CASE q = n /\ x = o
        BY <1>1, <1>2, <1>6, <2>1
    <2>2. CASE ~(q = n /\ x = o)
        <3>1. job[q] = "store" /\ item[q] = <<x>>
            BY <1>4, <2>2 DEF IInv, EmptyIsFetched
        <3> QED BY <1>1, <1>6, <3>1
    <2> QED BY <2>1, <2>2
<1>10. PutterKeepsObject'
    BY <1>1 DEF IInv, PutterKeepsObject
<1> QED BY <1>1, <1>4, <1>5, <1>7, <1>8, <1>9, <1>10, StillTyped, ObjectsKeep

\* What was fetched goes into place, where the object was never put.
LEMMA StoreFetchedKeeps ==
    ASSUME IInv, NEW n \in Node, StoreFetched(n), UNCHANGED manifestVars
    PROVE  IInv'
<1>1. /\ job[n] = "store" /\ GoOn(n, {})
      /\ Replace(n, item[n][1]) \/ ReplaceFails(n, item[n][1])
      /\ UNCHANGED <<clock, kvVars, storing, pushes, owned>>
    BY DEF StoreFetched
<1>2. PICK o \in Obj : item[n] = <<o>> /\ <<n, o>> \notin owned
    BY <1>1 DEF IInv, CallHasItem
<1>3. /\ objects' \in [Node -> [Obj -> Data \cup {Empty, Absent}]]
      /\ tmp' \in [Node -> [Obj -> Data \cup {Empty, Absent}]]
      /\ tmp'[n][o] = Absent
      /\ \A p \in Node, q \in Obj :
             /\ tmp'[p][q] = tmp[p][q] \/ tmp'[p][q] = Absent
             /\ \/ objects'[p][q] = objects[p][q]
                \/ /\ p = n /\ q = o
                   /\ tmp[n][o] # Absent /\ objects'[p][q] = tmp[n][o]
    BY <1>1, <1>2, ReplaceIs
<1>4. job[n] \in Calls
    BY <1>1 DEF Calls
<1>5. /\ left' \in [Node -> SUBSET Node]
      /\ job' \in [Node -> Jobs]
      /\ item' \in [Node -> Items]
      /\ \A q \in Node : /\ left'[q] # {} <=> job'[q] \in {"push", "fetch"}
                         /\ job'[q] \in {"log", "append"} <=> job[q] \in {"log", "append"}
                         /\ job'[q] = "append" => job[q] = "append"
                         /\ job'[q] \in Calls => job'[q] = job[q] /\ item'[q] = item[q]
                         /\ q # n => job'[q] = job[q] /\ item'[q] = item[q]
    BY <1>1, <1>4, GoesOn
<1>6. CallHasItem'
    BY <1>1, <1>5 DEF IInv, CallHasItem, Calls
<1>7. EmptyIsFetched'
    <2> SUFFICES ASSUME NEW q \in Node, NEW x \in Obj, tmp'[q][x] = Empty
                 PROVE  job'[q] = "store" /\ item'[q] = <<x>>
        BY DEF EmptyIsFetched
    <2>1. job[q] = "store" /\ item[q] = <<x>>
        BY <1>3, StorageAssumption DEF IInv, EmptyIsFetched
    <2>2. q # n
        <3>1. ASSUME q = n PROVE FALSE
            <4>1. x = o
                BY <1>2, <2>1, <3>1
            <4> QED BY <1>3, <3>1, <4>1, StorageAssumption
        <3> QED BY <3>1
    <2> QED BY <1>5, <2>1, <2>2
<1>8. PutterKeepsObject'
    BY <1>1, <1>2, <1>3 DEF IInv, PutterKeepsObject
<1> QED BY <1>1, <1>3, <1>5, <1>6, <1>7, <1>8, StillTyped, ObjectsKeep

\* A peer does not answer.
LEMMA NoAnswerKeeps ==
    ASSUME IInv, NEW n \in Node, NEW p \in Node, NoAnswer(n, p), UNCHANGED manifestVars
    PROVE  IInv'
<1>1. /\ job[n] = "fetch" /\ GoOn(n, left[n] \ {p})
      /\ UNCHANGED <<clock, kvVars, objects, tmp, storing, pushes, owned>>
    BY DEF NoAnswer
<1>2. job[n] \in Calls /\ left[n] \ {p} \in SUBSET Node
    BY <1>1, StillTyped DEF Calls
<1>3. /\ left' \in [Node -> SUBSET Node]
      /\ job' \in [Node -> Jobs]
      /\ item' \in [Node -> Items]
      /\ \A q \in Node : /\ left'[q] # {} <=> job'[q] \in {"push", "fetch"}
                         /\ job'[q] \in {"log", "append"} <=> job[q] \in {"log", "append"}
                         /\ job'[q] = "append" => job[q] = "append"
                         /\ job'[q] \in Calls => job'[q] = job[q] /\ item'[q] = item[q]
                         /\ q # n => job'[q] = job[q] /\ item'[q] = item[q]
    BY <1>1, <1>2, GoesOn
<1>4. CallHasItem'
    BY <1>1, <1>3 DEF IInv, CallHasItem, Calls
<1>5. EmptyIsFetched' /\ PutterKeepsObject'
    BY <1>1, <1>3 DEF IInv, EmptyIsFetched, PutterKeepsObject
<1> QED BY <1>1, <1>3, <1>4, <1>5, StillTyped, ObjectsKeep
-----------------------------------------------------------------------------
(* Processes, and what caches forget *)

\* Elections and starts change nothing here.
LEMMA RaftKeeps ==
    ASSUME IInv, Raft, UNCHANGED manifestVars
    PROVE  IInv'
<1>1. /\ UNCHANGED <<clock, shard, cache, objects, tmp, storing, pushes, left, item, owned, job>>
      /\ UNCHANGED <<mcache, entry, held>>
    BY DEF Raft, storageVars, kvVars, objectVars, manifestVars
<1>2. clock \in Nat /\ clock' \in 0 .. MaxTime /\ clock' >= clock
    BY <1>1, StorageAssumption DEF IInv, ManifestTypeOK
<1>3. ManifestTypeOK'
    BY <1>1 DEF IInv, ManifestTypeOK, AtMostOne
<1>4. /\ OneManifest' /\ HistoriesArePast' /\ EntriesAreNew'
      /\ HeldGoesOn' /\ CacheGoesOnFromDisk' /\ ManifestNotStale'
    BY <1>1, <1>2, QuietKeepsManifest DEF kvVars, manifestVars
<1>5. CallHasItem' /\ EmptyIsFetched' /\ PutterKeepsObject'
    BY <1>1, QuietKeepsObjects DEF objectVars
<1> QED BY <1>3, <1>4, <1>5 DEF IInv

\* A cached value, or a cached manifest, gets too old.
LEMMA ExpireKeeps ==
    ASSUME IInv, NEW n \in Node,
           \/ ExpireManifest(n)
           \/ (\E k \in Key : Expire(n, k)) /\ UNCHANGED manifestVars
    PROVE  IInv'
<1>1. UNCHANGED <<clock, shard, objects, tmp, storing, pushes, left, item, owned, job, entry, held>>
    BY DEF ExpireManifest, Expire, storageVars, kvVars, objectVars, manifestVars
<1>2. /\ mcache \in [Node -> AtMostOne] /\ <<>> \in AtMostOne
      /\ clock \in Nat /\ clock \in 0 .. MaxTime
    BY StorageAssumption DEF IInv, ManifestTypeOK, AtMostOne
<1>3. CallHasItem' /\ EmptyIsFetched' /\ PutterKeepsObject'
    BY <1>1, QuietKeepsObjects DEF objectVars
<1>4. CASE ExpireManifest(n)
    <2>1. mcache' = [mcache EXCEPT ![n] = <<>>] /\ cache' = cache
        BY <1>4 DEF ExpireManifest, storageVars, kvVars
    <2>2. mcache' \in [Node -> AtMostOne] /\ \A p \in Node : mcache'[p] \in {mcache[p], <<>>}
        BY <1>2, <2>1
    <2>3. ManifestTypeOK'
        BY <1>1, <2>1, <2>2 DEF IInv, ManifestTypeOK, AtMostOne
    <2>4. OneManifest' /\ HeldGoesOn' /\ CacheGoesOnFromDisk' /\ ManifestNotStale'
        BY <1>1, <2>1, <2>2
        DEF IInv, OneManifest, HeldGoesOn, CacheGoesOnFromDisk, ManifestNotStale, AtMostOne
    <2>5. HistoriesArePast' /\ EntriesAreNew'
        BY <1>1, <1>2, <2>1, PastKeeps DEF Lists
    <2> QED BY <1>3, <2>3, <2>4, <2>5 DEF IInv
<1>5. ASSUME NEW k \in Key, Expire(n, k), UNCHANGED manifestVars
      PROVE  IInv'
    <2>1. cache' = Cached(n, k, <<>>) /\ mcache' = mcache
        BY <1>5 DEF Expire, manifestVars
    <2>2. /\ cache' \in [Node -> [Key -> Seq(Entry)]]
          /\ \A p \in Node, q \in Key : cache'[p][q] # <<>> => IsPrefix(shard[p][q], cache'[p][q])
          /\ \A p \in Node : /\ cache'[p][ManifestKey] \in AtMostOne
                             /\ cache'[p][HistoryKey] \in Lists \cup {<<>>}
        BY <2>1, CachedKeeps
    <2>3. ManifestTypeOK'
        BY <1>1, <2>1, <2>2 DEF IInv, ManifestTypeOK, AtMostOne
    <2>4. OneManifest' /\ HeldGoesOn' /\ CacheGoesOnFromDisk' /\ ManifestNotStale'
        BY <1>1, <2>1, <2>2
        DEF IInv, OneManifest, HeldGoesOn, CacheGoesOnFromDisk, ManifestNotStale, AtMostOne
    <2>5. Lists' \subseteq Lists \cup {<<>>}
        BY <1>1, <2>2 DEF Lists
    <2>6. HistoriesArePast' /\ EntriesAreNew'
        BY <1>1, <1>2, <2>5, PastKeeps
    <2> QED BY <1>3, <2>3, <2>4, <2>6 DEF IInv
<1> QED BY <1>4, <1>5

\* A process that dies forgets its calls and caches; its disk stays.
LEMMA CrashKeeps ==
    ASSUME IInv, NEW n \in Node, CrashWithCaches(n)
    PROVE  IInv'
<1>1. /\ cache' = [cache EXCEPT ![n] = [k \in Key |-> <<>>]]
      /\ tmp' = [tmp EXCEPT ![n] = [o \in Obj |-> Absent]]
      /\ storing' = [storing EXCEPT ![n] = <<>>]
      /\ pushes' = {m \in pushes : m.to # n}
      /\ job' = [job EXCEPT ![n] = "idle"]
      /\ left' = [left EXCEPT ![n] = {}]
      /\ item' = [item EXCEPT ![n] = <<>>]
      /\ mcache' = [mcache EXCEPT ![n] = <<>>]
      /\ entry' = [entry EXCEPT ![n] = <<>>]
      /\ held' = [held EXCEPT ![n] = <<>>]
      /\ UNCHANGED <<clock, shard, objects, owned>>
    BY DEF CrashWithCaches, StorageCrash
<1>2. /\ <<>> \in AtMostOne /\ <<>> \in Items /\ <<>> \in Seq(Entry)
      /\ clock \in Nat /\ clock \in 0 .. MaxTime
    BY StorageAssumption DEF IInv, ManifestTypeOK, AtMostOne, Items
<1>3. /\ cache \in [Node -> [Key -> Seq(Entry)]]
      /\ job \in [Node -> Jobs]
      /\ left \in [Node -> SUBSET Node]
      /\ item \in [Node -> Items]
      /\ mcache \in [Node -> AtMostOne]
      /\ entry \in [Node -> AtMostOne]
      /\ held \in [Node -> Seq(Entry)]
    BY StillTyped DEF IInv, ManifestTypeOK
<1>4. /\ cache' \in [Node -> [Key -> Seq(Entry)]]
      /\ \A p \in Node, k \in Key : cache'[p][k] = IF p = n THEN <<>> ELSE cache[p][k]
    <2>1. [k \in Key |-> <<>>] \in [Key -> Seq(Entry)]
        BY <1>2
    <2>2. \A p \in Node : cache'[p] = IF p = n THEN [k \in Key |-> <<>>] ELSE cache[p]
        BY <1>1, <1>3
    <2>3. cache' \in [Node -> [Key -> Seq(Entry)]]
        BY <1>1, <1>3, <2>1
    <2> QED BY <2>2, <2>3
<1>5. /\ job' \in [Node -> Jobs]
      /\ left' \in [Node -> SUBSET Node]
      /\ item' \in [Node -> Items]
      /\ mcache' \in [Node -> AtMostOne]
      /\ entry' \in [Node -> AtMostOne]
      /\ held' \in [Node -> Seq(Entry)]
    BY <1>1, <1>2, <1>3 DEF Jobs
<1>6. /\ job'[n] = "idle" /\ left'[n] = {} /\ mcache'[n] = <<>> /\ entry'[n] = <<>> /\ held'[n] = <<>>
      /\ \A p \in Node \ {n} : /\ job'[p] = job[p] /\ left'[p] = left[p] /\ item'[p] = item[p]
                               /\ mcache'[p] = mcache[p] /\ entry'[p] = entry[p]
                               /\ held'[p] = held[p]
    BY <1>1, <1>3
<1>11. /\ tmp' \in [Node -> [Obj -> Data \cup {Empty, Absent}]]
       /\ \A p \in Node, o \in Obj : tmp'[p][o] = IF p = n THEN Absent ELSE tmp[p][o]
    <2>1. [o \in Obj |-> Absent] \in [Obj -> Data \cup {Empty, Absent}]
        OBVIOUS
    <2>2. \A p \in Node : tmp'[p] = IF p = n THEN [o \in Obj |-> Absent] ELSE tmp[p]
        BY <1>1, StillTyped
    <2>3. tmp' \in [Node -> [Obj -> Data \cup {Empty, Absent}]]
        BY <1>1, <2>1, StillTyped
    <2> QED BY <2>2, <2>3
<1>7. ManifestTypeOK'
    <2>1. \A p \in Node : /\ left'[p] # {} <=> job'[p] \in {"push", "fetch"}
                          /\ entry'[p] # <<>> <=> job'[p] \in {"log", "append"}
        BY <1>6 DEF IInv, ManifestTypeOK
    <2>2. pushes' \subseteq [to : Node, obj : Obj, data : Data]
        BY <1>1 DEF IInv, ManifestTypeOK
    <2>3. /\ shard' \in [Node -> [Key -> Seq(Entry)]]
          /\ objects' \in [Node -> [Obj -> Data \cup {Empty, Absent}]]
          /\ clock' \in 0 .. MaxTime
        BY <1>1 DEF IInv, ManifestTypeOK
    <2>4. AtMostOne' = AtMostOne
        BY DEF AtMostOne
    <2>5. storing' \in [Node -> {<<>>} \cup {<<o>> : o \in Obj}]
        BY <1>1, StillTyped
    <2> QED BY <1>4, <1>5, <1>11, <2>1, <2>2, <2>3, <2>4, <2>5 DEF ManifestTypeOK, Jobs, Calls
<1>8. CallHasItem' /\ EmptyIsFetched' /\ PutterKeepsObject'
    <2>1. CallHasItem'
        BY <1>1, <1>5, <1>6 DEF IInv, CallHasItem
    <2>2. EmptyIsFetched'
        BY <1>6, <1>11, StorageAssumption DEF IInv, EmptyIsFetched
    <2>3. PutterKeepsObject'
        BY <1>1 DEF IInv, PutterKeepsObject
    <2> QED BY <2>1, <2>2, <2>3
<1>9. OneManifest' /\ HeldGoesOn' /\ CacheGoesOnFromDisk' /\ ManifestNotStale'
    BY <1>1, <1>2, <1>4, <1>6, TwoKeys
    DEF IInv, OneManifest, HeldGoesOn, CacheGoesOnFromDisk, ManifestNotStale
<1>10. HistoriesArePast' /\ EntriesAreNew'
    <2>1. Lists' \subseteq Lists \cup {<<>>}
        BY <1>1, <1>4, <1>6, TwoKeys DEF Lists
    <2>2. \A p \in Node : entry'[p] \in {entry[p], <<>>}
        BY <1>6
    <2> QED BY <1>1, <1>2, <2>1, <2>2, PastKeeps
<1> QED BY <1>7, <1>8, <1>9, <1>10 DEF IInv
-----------------------------------------------------------------------------
(* The steps of the manifest *)

\* A write that stays here reaches the disk and the cache; another one neither.
LEMMA PutStrongKeeps ==
    ASSUME IInv, NEW n \in Node, NEW k \in Key, NEW v \in Seq(Entry), PutStrong(n, k, v)
    PROVE  /\ shard' \in [Node -> [Key -> Seq(Entry)]]
           /\ cache' \in [Node -> [Key -> Seq(Entry)]]
           /\ CacheGoesOnFromDisk'
           /\ \A p \in Node, q \in Key :
                  \/ shard'[p][q] = shard[p][q] /\ cache'[p][q] = cache[p][q]
                  \/ p = n /\ q = k /\ shard'[p][q] = v /\ cache'[p][q] = v
<1>1. /\ shard \in [Node -> [Key -> Seq(Entry)]]
      /\ cache \in [Node -> [Key -> Seq(Entry)]]
      /\ CacheGoesOnFromDisk
    BY DEF IInv, ManifestTypeOK
<1>2. CASE UNCHANGED kvVars
    BY <1>1, <1>2 DEF kvVars, CacheGoesOnFromDisk
<1>3. CASE shard' = [shard EXCEPT ![n][k] = v] /\ cache' = [cache EXCEPT ![n][k] = v]
    <2>1. /\ shard' \in [Node -> [Key -> Seq(Entry)]]
          /\ cache' \in [Node -> [Key -> Seq(Entry)]]
          /\ \A p \in Node, q \in Key :
                /\ shard'[p][q] = IF p = n /\ q = k THEN v ELSE shard[p][q]
                /\ cache'[p][q] = IF p = n /\ q = k THEN v ELSE cache[p][q]
        BY <1>1, <1>3, UpdateAt
    <2>2. IsPrefix(v, v)
        BY PrefixTrivial
    <2>3. CacheGoesOnFromDisk'
        BY <1>1, <2>1, <2>2 DEF CacheGoesOnFromDisk
    <2> QED BY <2>1, <2>3
<1> QED BY <1>2, <1>3 DEF PutStrong

\* A manifest of the next version.
LEMMA NextVersion ==
    ASSUME IInv, clock < MaxTime, NEW d \in 1 .. (clock + 1)
    PROVE  /\ [version |-> clock + 1, data |-> d] \in Entry
           /\ <<[version |-> clock + 1, data |-> d]>> \in AtMostOne
           /\ clock \in Nat /\ clock + 1 \in 0 .. MaxTime
<1>1. clock \in Nat /\ clock + 1 \in 1 .. MaxTime /\ d \in 1 .. MaxTime
    BY StorageAssumption DEF IInv, ManifestTypeOK
<1>2. [version |-> clock + 1, data |-> d] \in Entry
    BY <1>1 DEF Entry, Version
<1> QED BY <1>1, <1>2 DEF AtMostOne

\* Every version on a disk was given.
LEMMA StoredWasGiven ==
    ASSUME IInv, NEW n \in Node, shard[n][ManifestKey] # <<>>
    PROVE  shard[n][ManifestKey][1].version \in Nat /\ shard[n][ManifestKey][1].version <= clock
<1>1. PICK e \in Entry : shard[n][ManifestKey] = <<e>>
    BY DEF IInv, OneManifest, AtMostOne
<1>2. 1 \in DOMAIN shard[n][ManifestKey] /\ shard[n][ManifestKey][1] = e
    BY <1>1
<1> QED BY <1>1, <1>2, StorageAssumption DEF IInv, OneManifest, Entry, Version

\* What a step of n that puts the next version, stored or not, keeps.
LEMMA NewManifestKeeps ==
    ASSUME IInv, NEW n \in Node, NEW new \in AtMostOne, new # <<>>, clock < MaxTime, clock' = clock + 1,
           new[1].version = clock + 1,
           mcache' = [mcache EXCEPT ![n] = new],
           \A p \in Node : shard'[p][ManifestKey] = shard[p][ManifestKey]
                              \/ (p = n /\ shard'[p][ManifestKey] = new),
           \A p \in Node : cache'[p][ManifestKey] = cache[p][ManifestKey]
                              \/ cache'[p][ManifestKey] = new
    PROVE  OneManifest' /\ ManifestNotStale'
<1>1. clock \in Nat /\ clock' \in Nat /\ mcache \in [Node -> AtMostOne]
    BY StorageAssumption DEF IInv, ManifestTypeOK
<1>2. \A i \in DOMAIN new : i = 1
    BY DEF AtMostOne
<1>3. AtMostOne' = AtMostOne
    BY DEF AtMostOne
<1>4. OneManifest'
    <2> SUFFICES ASSUME NEW p \in Node
                 PROVE  /\ shard'[p][ManifestKey] \in AtMostOne
                        /\ cache'[p][ManifestKey] \in AtMostOne
                        /\ \A i \in DOMAIN shard'[p][ManifestKey] :
                              shard'[p][ManifestKey][i].version <= clock'
        BY <1>3 DEF OneManifest
    <2>1. cache'[p][ManifestKey] \in AtMostOne
        BY DEF IInv, OneManifest
    <2>2. CASE shard'[p][ManifestKey] = new
        BY <1>1, <1>2, <2>1, <2>2
    <2>3. CASE shard'[p][ManifestKey] = shard[p][ManifestKey]
        <3>1. \A i \in DOMAIN shard[p][ManifestKey] : i = 1
            BY DEF IInv, OneManifest, AtMostOne
        <3>2. \A i \in DOMAIN shard[p][ManifestKey] : shard[p][ManifestKey][i].version <= clock'
            BY <1>1, <3>1, StoredWasGiven
        <3> QED BY <2>1, <2>3, <3>2 DEF IInv, OneManifest
    <2> QED BY <2>1, <2>2, <2>3
<1>5. ManifestNotStale'
    <2> SUFFICES ASSUME NEW p \in Node, mcache'[p] # <<>>, shard'[p][ManifestKey] # <<>>
                 PROVE  mcache'[p][1].version >= shard'[p][ManifestKey][1].version
        BY DEF ManifestNotStale
    <2>1. CASE p = n
        <3>1. mcache'[n] = new
            BY <1>1
        <3>2. CASE shard'[p][ManifestKey] = new
            BY <1>1, <2>1, <3>1, <3>2
        <3>3. CASE shard'[p][ManifestKey] = shard[p][ManifestKey]
            BY <1>1, <2>1, <3>1, <3>3, StoredWasGiven
        <3> QED BY <3>2, <3>3
    <2>2. CASE p # n
        BY <1>1, <2>2 DEF IInv, ManifestNotStale
    <2> QED BY <2>1, <2>2
<1> QED BY <1>4, <1>5

\* put: the entry that it has to add to the history is of the version it just took.
LEMMA PutKeeps ==
    ASSUME IInv, NEW n \in Node, Put(n)
    PROVE  IInv'
<1>1. /\ job[n] = "idle" /\ clock < MaxTime /\ clock' = clock + 1
      /\ job' = [job EXCEPT ![n] = "log"]
      /\ UNCHANGED <<objectVars, held>>
    BY DEF Put, Idle, PutEntry, Tick
<1>2. clock \in Nat
    BY StorageAssumption DEF IInv, ManifestTypeOK
<1>3. clock + 1 \in 1 .. (clock + 1)
    BY <1>2
<1>4. clock + 1 \in 0 .. MaxTime /\ [version |-> clock + 1, data |-> clock + 1] \in Entry
    BY <1>1, <1>3, NextVersion
<1>5. PICK e \in Entry : e = [version |-> clock + 1, data |-> clock + 1]
    BY <1>4
<1>6. e.version = clock + 1 /\ e.data = clock + 1
    BY <1>5
<1>7. PICK new \in AtMostOne : new = <<e>>
    BY DEF AtMostOne
<1>8. new \in Seq(Entry) /\ new # <<>> /\ new[1] = e
    BY <1>7, OneIsList
<1>9. /\ PutStrong(n, ManifestKey, new)
      /\ mcache' = [mcache EXCEPT ![n] = new]
      /\ entry' = [entry EXCEPT ![n] = mcache'[n]]
    BY <1>5, <1>7 DEF Put, PutEntry
<1>10. /\ shard' \in [Node -> [Key -> Seq(Entry)]]
      /\ cache' \in [Node -> [Key -> Seq(Entry)]]
      /\ CacheGoesOnFromDisk'
      /\ \A p \in Node, q \in Key :
            \/ shard'[p][q] = shard[p][q] /\ cache'[p][q] = cache[p][q]
            \/ /\ p = n /\ q = ManifestKey
               /\ shard'[p][q] = new /\ cache'[p][q] = new
    BY <1>8, <1>9, TwoKeys, PutStrongKeeps
<1>11. \A p \in Node : /\ shard'[p][HistoryKey] = shard[p][HistoryKey]
                      /\ cache'[p][HistoryKey] = cache[p][HistoryKey]
    BY <1>10, TwoKeys
<1>12. /\ mcache \in [Node -> AtMostOne] /\ entry \in [Node -> AtMostOne]
      /\ job \in [Node -> Jobs]
    BY DEF IInv, ManifestTypeOK, Jobs, Calls
<1>13. /\ mcache' \in [Node -> AtMostOne] /\ entry' \in [Node -> AtMostOne]
      /\ job' \in [Node -> Jobs]
      /\ entry'[n] = new /\ job'[n] = "log"
      /\ \A p \in Node \ {n} : entry'[p] = entry[p] /\ job'[p] = job[p]
    BY <1>1, <1>12, <1>9 DEF Jobs
<1>14. ManifestTypeOK'
    <2>1. \A p \in Node : /\ left'[p] # {} <=> job'[p] \in {"push", "fetch"}
                          /\ entry'[p] # <<>> <=> job'[p] \in {"log", "append"}
        BY <1>1, <1>13, <1>8 DEF IInv, ManifestTypeOK, objectVars
    <2>2. AtMostOne' = AtMostOne
        BY DEF AtMostOne
    <2>3. /\ objects' \in [Node -> [Obj -> Data \cup {Empty, Absent}]]
          /\ pushes' \subseteq [to : Node, obj : Obj, data : Data]
          /\ tmp' \in [Node -> [Obj -> Data \cup {Empty, Absent}]]
          /\ storing' \in [Node -> {<<>>} \cup {<<o>> : o \in Obj}]
          /\ left' \in [Node -> SUBSET Node]
          /\ held' \in [Node -> Seq(Entry)]
        BY <1>1 DEF IInv, ManifestTypeOK, objectVars
    <2>4. job' \in [Node -> {"idle", "put", "push", "fetch", "store", "log", "append"}]
        BY <1>13 DEF Jobs, Calls
    <2> QED BY <1>1, <1>4, <1>10, <1>13, <2>1, <2>2, <2>3, <2>4 DEF ManifestTypeOK
<1>15. OneManifest' /\ ManifestNotStale'
    <2>1. \A p \in Node : shard'[p][ManifestKey] = shard[p][ManifestKey]
                              \/ (p = n /\ shard'[p][ManifestKey] = new)
        BY <1>10, TwoKeys
    <2>2. \A p \in Node : cache'[p][ManifestKey] = cache[p][ManifestKey]
                              \/ cache'[p][ManifestKey] = new
        BY <1>10, TwoKeys
    <2>3. new[1].version = clock + 1
        BY <1>6, <1>8
    <2> QED BY <1>1, <1>8, <1>9, <2>1, <2>2, <2>3, NewManifestKeeps
<1>16. CallHasItem' /\ EmptyIsFetched' /\ PutterKeepsObject'
    <2>1. \A p \in Node : job[p] \in Calls \/ job'[p] \in Calls => job'[p] = job[p]
        BY <1>1, <1>13 DEF Calls
    <2> QED BY <1>1, <2>1, QuietKeepsObjects
<1>17. HeldGoesOn'
    BY <1>1, <1>11, <1>13 DEF IInv, HeldGoesOn
<1>18. HistoriesArePast'
    <2> SUFFICES ASSUME NEW list \in Lists PROVE IsPast(list)'
        BY <1>1, <1>11 DEF HistoriesArePast, Lists
    <2>1. list \in Seq(Entry) /\ IsPast(list)
        BY TwoKeys DEF IInv, ManifestTypeOK, HistoriesArePast, Lists
    <2>2. \A i \in DOMAIN list : list[i].version \in Nat /\ list[i].version <= clock
        <3>1. \A i \in DOMAIN list : list[i] \in Entry
            BY <2>1
        <3> QED BY <2>1, <3>1, StorageAssumption DEF IsPast, Entry, Version
    <2>3. \A i \in DOMAIN list : list[i].version <= clock' /\ list[i] # e
        BY <1>1, <1>2, <1>6, <2>2
    <2>4. \A i \in DOMAIN list, p \in Node : entry'[p] # <<list[i]>>
        <3> SUFFICES ASSUME NEW i \in DOMAIN list, NEW p \in Node PROVE entry'[p] # <<list[i]>>
            OBVIOUS
        <3>1. CASE p = n
            <4>1. new[1] # <<list[i]>>[1]
                BY <1>8, <2>3
            <4> QED BY <1>13, <3>1, <4>1
        <3>2. CASE p # n
            BY <1>13, <2>1, <3>2 DEF IsPast
        <3> QED BY <3>1, <3>2
    <2> QED BY <2>1, <2>3, <2>4 DEF IsPast
<1>19. EntriesAreNew'
    <2>1. \A p \in Node \ {n} : entry'[p] # <<>> =>
              entry[p][1].version <= clock /\ entry[p][1] \in Entry
        BY <1>12, <1>13 DEF IInv, EntriesAreNew, AtMostOne
    <2>2. \A p \in Node \ {n} : entry'[p] # <<>> =>
              entry[p][1].version <= clock' /\ entry[p][1].version # clock + 1
        BY <1>1, <1>2, <2>1, StorageAssumption DEF Entry, Version
    <2>3. \A p \in Node \ {n} : entry'[p] # entry'[n]
        BY <1>6, <1>13, <1>8, <2>2
    <2> SUFFICES ASSUME NEW p \in Node, entry'[p] # <<>>
                 PROVE  /\ entry'[p][1].data = entry'[p][1].version
                        /\ entry'[p][1].version <= clock'
                        /\ \A q \in Node \ {p} : entry'[q] # entry'[p]
        BY DEF EntriesAreNew
    <2>4. CASE p = n
        BY <1>1, <1>2, <1>6, <1>13, <1>8, <2>3, <2>4
    <2>5. CASE p # n
        <3>1. /\ entry[p][1].data = entry[p][1].version
              /\ \A q \in Node \ {p} : entry[q] # entry[p]
            BY <1>13, <2>5 DEF IInv, EntriesAreNew
        <3> QED BY <1>13, <2>2, <2>3, <2>5, <3>1
    <2> QED BY <2>4, <2>5
<1> QED BY <1>10, <1>14, <1>15, <1>16, <1>17, <1>18, <1>19 DEF IInv

\* push_history reads a list that goes on from the one on its disk.
LEMMA ReadHistoryKeeps ==
    ASSUME IInv, NEW n \in Node, ReadHistory(n)
    PROVE  IInv'
<1>1. PICK list \in Found(n, HistoryKey) :
          held' = [held EXCEPT ![n] = list] /\ cache' = Cached(n, HistoryKey, list)
    BY DEF ReadHistory
<1>2. /\ job[n] = "log" /\ job' = [job EXCEPT ![n] = "append"]
      /\ UNCHANGED <<shard, objectVars, clock, mcache, entry>>
    BY DEF ReadHistory
<1>3. list \in Seq(Entry) /\ IsPrefix(shard[n][HistoryKey], list) /\ list \in Lists
    BY TwoKeys, FoundIsRight
<1>4. /\ cache' \in [Node -> [Key -> Seq(Entry)]]
      /\ \A p \in Node, q \in Key : cache'[p][q] # <<>> => IsPrefix(shard[p][q], cache'[p][q])
      /\ \A p \in Node : /\ cache'[p][ManifestKey] \in AtMostOne
                         /\ cache'[p][HistoryKey] \in Lists \cup {<<>>}
    BY <1>1, TwoKeys, CachedKeeps
<1>5. /\ held \in [Node -> Seq(Entry)]
      /\ job \in [Node -> Jobs]
    BY DEF IInv, ManifestTypeOK, Jobs, Calls
<1>6. /\ held' \in [Node -> Seq(Entry)]
      /\ job' \in [Node -> Jobs]
      /\ held'[n] = list /\ job'[n] = "append"
      /\ \A p \in Node \ {n} : held'[p] = held[p] /\ job'[p] = job[p]
    BY <1>1, <1>2, <1>3, <1>5 DEF Jobs
<1>7. UNCHANGED <<shard, objects, tmp, storing, pushes, left, item, owned, clock, mcache, entry>>
    BY <1>2 DEF objectVars
<1>8. ManifestTypeOK'
    <2>1. \A p \in Node : /\ left'[p] # {} <=> job'[p] \in {"push", "fetch"}
                          /\ entry'[p] # <<>> <=> job'[p] \in {"log", "append"}
        BY <1>2, <1>6, <1>7 DEF IInv, ManifestTypeOK
    <2>2. AtMostOne' = AtMostOne
        BY DEF AtMostOne
    <2> QED BY <1>4, <1>6, <1>7, <2>1, <2>2 DEF IInv, ManifestTypeOK, Jobs, Calls
<1>9. CallHasItem' /\ EmptyIsFetched' /\ PutterKeepsObject'
    <2>1. \A p \in Node : job[p] \in Calls \/ job'[p] \in Calls => job'[p] = job[p]
        BY <1>2, <1>6 DEF Calls
    <2> QED BY <1>2, <2>1, QuietKeepsObjects
<1>10. OneManifest' /\ CacheGoesOnFromDisk' /\ ManifestNotStale'
    <2>1. AtMostOne' = AtMostOne
        BY DEF AtMostOne
    <2> QED BY <1>4, <1>7, <2>1 DEF IInv, OneManifest, CacheGoesOnFromDisk, ManifestNotStale
<1>11. HeldGoesOn'
    <2> SUFFICES ASSUME NEW p \in Node, job'[p] = "append"
                 PROVE  IsPrefix(shard[p][HistoryKey], held'[p])
        BY <1>7 DEF HeldGoesOn
    <2>1. CASE p = n
        BY <1>3, <1>6, <2>1
    <2>2. CASE p # n
        BY <1>6, <2>2 DEF IInv, HeldGoesOn
    <2> QED BY <2>1, <2>2
<1>12. HistoriesArePast' /\ EntriesAreNew'
    <2>1. \A p \in Node : {shard'[p][HistoryKey], cache'[p][HistoryKey], held'[p]}
                              \subseteq Lists \cup {<<>>}
        <3> SUFFICES ASSUME NEW p \in Node
                     PROVE  shard'[p][HistoryKey] \in Lists /\ held'[p] \in Lists
            BY <1>4
        <3>1. shard[p][HistoryKey] \in Lists /\ held[p] \in Lists
            BY DEF Lists
        <3>2. held'[p] = held[p] \/ held'[p] = list
            BY <1>6
        <3> QED BY <1>3, <1>7, <3>1, <3>2
    <2>4. Lists' \subseteq Lists \cup {<<>>}
        BY <2>1 DEF Lists
    <2>2. clock' \in 0 .. MaxTime /\ clock' >= clock
        BY <1>7, StorageAssumption DEF IInv, ManifestTypeOK
    <2>3. \A p \in Node : entry'[p] \in {entry[p], <<>>}
        BY <1>7
    <2> QED BY <2>2, <2>3, <2>4, PastKeeps
<1> QED BY <1>8, <1>9, <1>10, <1>11, <1>12 DEF IInv

\* The list that push_history writes goes on from the one on the disk, and has nothing twice.
LEMMA ExtendedIsRight ==
    ASSUME IInv, NEW n \in Node, job[n] = "append"
    PROVE  /\ Extended(n) \in Seq(Entry)
           /\ IsStrictPrefix(shard[n][HistoryKey], Extended(n))
           /\ \A i \in DOMAIN Extended(n) :
                 /\ Extended(n)[i].data = Extended(n)[i].version
                 /\ Extended(n)[i].version <= clock
                 /\ \A p \in Node \ {n} : entry[p] # <<Extended(n)[i]>>
           /\ \A i, j \in DOMAIN Extended(n) : Extended(n)[i] = Extended(n)[j] => i = j
<1>1. PICK e \in Entry : entry[n] = <<e>>
    BY DEF IInv, ManifestTypeOK, AtMostOne
<1>2. /\ held[n] \in Seq(Entry) /\ shard[n][HistoryKey] \in Seq(Entry)
      /\ IsPrefix(shard[n][HistoryKey], held[n])
    BY TwoKeys DEF IInv, ManifestTypeOK, HeldGoesOn
<1> DEFINE list == held[n]
           ext == list \o <<e>>
<1>3. /\ ext \in Seq(Entry) /\ Len(ext) = Len(list) + 1
      /\ \A i \in 1 .. Len(list) : ext[i] = list[i]
      /\ ext[Len(list) + 1] = e
      /\ IsPrefix(shard[n][HistoryKey], ext) /\ shard[n][HistoryKey] # ext
    BY <1>2, PrefixExtended
<1>4. Extended(n) = ext
    BY <1>1 DEF Extended
<1>5. IsPast(list) /\ DOMAIN list = 1 .. Len(list) /\ Len(list) \in Nat /\ DOMAIN ext = 1 .. Len(ext)
    BY <1>2, <1>3 DEF IInv, HistoriesArePast, Lists
<1>6. /\ e.data = e.version /\ e.version <= clock
      /\ \A p \in Node \ {n} : entry[p] # <<e>>
    <2>1. entry[n] # <<>> /\ entry[n][1] = e
        BY <1>1
    <2> QED BY <1>1, <2>1 DEF IInv, EntriesAreNew
<1>7. \A i \in 1 .. Len(list) : list[i] # e
    BY <1>1, <1>5 DEF IsPast
<1> HIDE DEF list, ext
<1>8. \A i \in DOMAIN ext : i \in 1 .. Len(list) \/ i = Len(list) + 1
    BY <1>3, <1>5
<1>9. \A i \in DOMAIN ext : /\ ext[i].data = ext[i].version
                            /\ ext[i].version <= clock
                            /\ \A p \in Node \ {n} : entry[p] # <<ext[i]>>
    <2> SUFFICES ASSUME NEW i \in DOMAIN ext
                 PROVE  /\ ext[i].data = ext[i].version
                        /\ ext[i].version <= clock
                        /\ \A p \in Node \ {n} : entry[p] # <<ext[i]>>
        OBVIOUS
    <2>1. CASE i \in 1 .. Len(list)
        BY <1>3, <1>5, <2>1 DEF IsPast
    <2>2. CASE i = Len(list) + 1
        BY <1>3, <1>6, <2>2
    <2> QED BY <1>8, <2>1, <2>2
<1>10. \A i, j \in DOMAIN ext : ext[i] = ext[j] => i = j
    <2> SUFFICES ASSUME NEW i \in DOMAIN ext, NEW j \in DOMAIN ext, ext[i] = ext[j]
                 PROVE  i = j
        OBVIOUS
    <2>1. CASE i \in 1 .. Len(list) /\ j \in 1 .. Len(list)
        BY <1>3, <1>5, <2>1 DEF IsPast
    <2>2. CASE i = Len(list) + 1 \/ j = Len(list) + 1
        BY <1>3, <1>7, <1>8, <2>2
    <2> QED BY <1>8, <2>1, <2>2
<1> QED BY <1>3, <1>4, <1>9, <1>10 DEF IsStrictPrefix

\* push_history writes that list, or leaves it in the cache.
LEMMA WriteHistoryKeeps ==
    ASSUME IInv, NEW n \in Node, WriteHistory(n)
    PROVE  IInv'
<1>1. PICK list : list = Extended(n)
    OBVIOUS
<1>2. /\ job[n] = "append"
      /\ \/ PutStrong(n, HistoryKey, list)
         \/ AppendInPlace(n, list)
      /\ job' = [job EXCEPT ![n] = "idle"]
      /\ entry' = [entry EXCEPT ![n] = <<>>]
      /\ held' = [held EXCEPT ![n] = <<>>]
      /\ UNCHANGED <<objectVars, clock, mcache>>
    BY <1>1 DEF WriteHistory
<1>3. /\ list \in Seq(Entry)
      /\ IsPrefix(shard[n][HistoryKey], list)
      /\ \A i \in DOMAIN list : /\ list[i].data = list[i].version
                                /\ list[i].version <= clock
                                /\ \A p \in Node \ {n} : entry[p] # <<list[i]>>
      /\ \A i, j \in DOMAIN list : list[i] = list[j] => i = j
    BY <1>2, <1>1, ExtendedIsRight DEF IsStrictPrefix
<1>4. /\ shard' \in [Node -> [Key -> Seq(Entry)]]
      /\ cache' \in [Node -> [Key -> Seq(Entry)]]
      /\ CacheGoesOnFromDisk'
      /\ \A p \in Node, q \in Key :
            /\ shard'[p][q] = shard[p][q] \/ (p = n /\ q = HistoryKey /\ shard'[p][q] = list)
            /\ cache'[p][q] = cache[p][q] \/ (p = n /\ q = HistoryKey /\ cache'[p][q] = list)
    <2>1. CASE PutStrong(n, HistoryKey, list)
        BY <1>3, <2>1, TwoKeys, PutStrongKeeps
    <2>2. CASE AppendInPlace(n, list)
        <3>1. shard' = shard /\ (cache' = cache \/ cache' = [cache EXCEPT ![n][HistoryKey] = list])
            BY <2>2 DEF AppendInPlace, Cached
        <3>2. /\ shard \in [Node -> [Key -> Seq(Entry)]]
              /\ cache \in [Node -> [Key -> Seq(Entry)]]
              /\ CacheGoesOnFromDisk
            BY DEF IInv, ManifestTypeOK
        <3>3. /\ cache' \in [Node -> [Key -> Seq(Entry)]]
              /\ \A p \in Node, q \in Key :
                    cache'[p][q] = cache[p][q] \/ (p = n /\ q = HistoryKey /\ cache'[p][q] = list)
            <4>1. CASE cache' = cache
                BY <3>2, <4>1
            <4>2. CASE cache' = [cache EXCEPT ![n][HistoryKey] = list]
                BY <1>3, <3>2, <4>2, TwoKeys, UpdateAt
            <4> QED BY <3>1, <4>1, <4>2
        <3>4. CacheGoesOnFromDisk'
            BY <1>3, <3>1, <3>2, <3>3 DEF CacheGoesOnFromDisk
        <3> QED BY <3>1, <3>2, <3>3, <3>4
    <2> QED BY <1>2, <2>1, <2>2
<1>5. \A p \in Node : /\ shard'[p][ManifestKey] = shard[p][ManifestKey]
                      /\ cache'[p][ManifestKey] = cache[p][ManifestKey]
    BY <1>4, TwoKeys
<1>6. /\ held \in [Node -> Seq(Entry)] /\ entry \in [Node -> AtMostOne]
      /\ job \in [Node -> Jobs]
      /\ <<>> \in Seq(Entry) /\ <<>> \in AtMostOne
    BY DEF IInv, ManifestTypeOK, AtMostOne, Jobs, Calls
<1>7. /\ held' \in [Node -> Seq(Entry)] /\ entry' \in [Node -> AtMostOne]
      /\ job' \in [Node -> Jobs]
      /\ held'[n] = <<>> /\ entry'[n] = <<>> /\ job'[n] = "idle"
      /\ \A p \in Node \ {n} : held'[p] = held[p] /\ entry'[p] = entry[p] /\ job'[p] = job[p]
    BY <1>2, <1>6 DEF Jobs
<1>8. UNCHANGED <<objects, tmp, storing, pushes, left, item, owned, clock, mcache>>
    BY <1>2 DEF objectVars
<1>9. ManifestTypeOK'
    <2>1. \A p \in Node : /\ left'[p] # {} <=> job'[p] \in {"push", "fetch"}
                          /\ entry'[p] # <<>> <=> job'[p] \in {"log", "append"}
        BY <1>2, <1>7, <1>8 DEF IInv, ManifestTypeOK
    <2>2. AtMostOne' = AtMostOne
        BY DEF AtMostOne
    <2> QED BY <1>4, <1>7, <1>8, <2>1, <2>2 DEF IInv, ManifestTypeOK, Jobs, Calls
<1>10. CallHasItem' /\ EmptyIsFetched' /\ PutterKeepsObject'
    <2>1. \A p \in Node : job[p] \in Calls \/ job'[p] \in Calls => job'[p] = job[p]
        BY <1>2, <1>7 DEF Calls
    <2> QED BY <1>2, <2>1, QuietKeepsObjects
<1>11. OneManifest' /\ ManifestNotStale'
    <2>1. AtMostOne' = AtMostOne
        BY DEF AtMostOne
    <2> QED BY <1>5, <1>8, <2>1 DEF IInv, OneManifest, ManifestNotStale
<1>12. HeldGoesOn'
    <2> SUFFICES ASSUME NEW p \in Node, job'[p] = "append"
                 PROVE  IsPrefix(shard'[p][HistoryKey], held'[p])
        BY DEF HeldGoesOn
    <2>1. p # n /\ job[p] = "append" /\ held'[p] = held[p]
        BY <1>7
    <2>2. shard'[p][HistoryKey] = shard[p][HistoryKey]
        BY <1>4, <2>1, TwoKeys
    <2> QED BY <2>1, <2>2 DEF IInv, HeldGoesOn
<1>13. IsPast(list)'
    <2>1. \A i \in DOMAIN list, p \in Node : entry'[p] # <<list[i]>>
        <3>1. \A i \in DOMAIN list, p \in Node \ {n} : entry'[p] # <<list[i]>>
            BY <1>3, <1>7
        <3>2. \A i \in DOMAIN list : <<>> # <<list[i]>>
            OBVIOUS
        <3> QED BY <1>7, <3>1, <3>2
    <2> QED BY <1>3, <1>8, <2>1 DEF IsPast
<1>14. /\ \A l \in Lists \cup {<<>>} : IsPast(l)'
       /\ EntriesAreNew'
    <2>1. clock \in Nat /\ \A p \in Node : entry'[p] \in {entry[p], <<>>}
        BY <1>7, StorageAssumption DEF IInv, ManifestTypeOK
    <2>2. \A l \in Lists : IsPast(l)
        BY DEF IInv, HistoriesArePast
    <2>3. \A l \in Lists \cup {<<>>} : IsPast(l)'
        <3>1. IsPast(<<>>)'
            BY DEF IsPast
        <3>2. ASSUME NEW l \in Lists
              PROVE  IsPast(l)'
            <4>1. IsPast(l)
                BY <2>2, <3>2
            <4>2. ASSUME NEW i \in DOMAIN l, NEW p \in Node
                  PROVE  entry'[p] # <<l[i]>>
                <5>1. entry[p] # <<l[i]>> /\ <<>> # <<l[i]>>
                    BY <4>1, <4>2 DEF IsPast
                <5> QED BY <2>1, <4>2, <5>1
            <4> QED BY <1>8, <4>1, <4>2 DEF IsPast
        <3> QED BY <3>1, <3>2
    <2>4. EntriesAreNew'
        BY <1>7, <1>8 DEF IInv, EntriesAreNew
    <2> QED BY <2>3, <2>4
<1>15. HistoriesArePast'
    <2>1. \A p \in Node : {shard'[p][HistoryKey], cache'[p][HistoryKey], held'[p]}
                              \subseteq Lists \cup {<<>>, list}
        <3> SUFFICES ASSUME NEW p \in Node
                     PROVE  {shard'[p][HistoryKey], cache'[p][HistoryKey], held'[p]}
                                \subseteq Lists \cup {<<>>, list}
            OBVIOUS
        <3>1. {shard[p][HistoryKey], cache[p][HistoryKey], held[p]} \subseteq Lists
            BY DEF Lists
        <3>2. held'[p] = held[p] \/ held'[p] = <<>>
            BY <1>7
        <3>3. /\ shard'[p][HistoryKey] = shard[p][HistoryKey] \/ shard'[p][HistoryKey] = list
              /\ cache'[p][HistoryKey] = cache[p][HistoryKey] \/ cache'[p][HistoryKey] = list
            BY <1>4, TwoKeys
        <3> QED BY <3>1, <3>2, <3>3
    <2>2. Lists' \subseteq Lists \cup {<<>>, list}
        BY <2>1 DEF Lists
    <2> QED BY <1>13, <1>14, <2>2 DEF HistoriesArePast
<1> QED BY <1>4, <1>9, <1>10, <1>11, <1>12, <1>14, <1>15 DEF IInv

\* A step that leaves histories and calls alone keeps the invariant if it keeps what is
\* said of the manifests.
LEMMA ManifestStepKeeps ==
    ASSUME IInv, UNCHANGED <<objectVars, job, entry, held>>,
           clock' \in 0 .. MaxTime, clock' >= clock,
           shard' \in [Node -> [Key -> Seq(Entry)]],
           cache' \in [Node -> [Key -> Seq(Entry)]],
           mcache' \in [Node -> AtMostOne],
           \A p \in Node : /\ shard'[p][HistoryKey] = shard[p][HistoryKey]
                           /\ cache'[p][HistoryKey] \in Lists \cup {<<>>},
           CacheGoesOnFromDisk', OneManifest', ManifestNotStale'
    PROVE  IInv'
<1>1. UNCHANGED <<objects, tmp, storing, pushes, left, item, owned, job, entry, held>>
    BY DEF objectVars
<1>2. ManifestTypeOK'
    <2>1. AtMostOne' = AtMostOne
        BY DEF AtMostOne
    <2> QED BY <1>1, <2>1 DEF IInv, ManifestTypeOK
<1>3. CallHasItem' /\ EmptyIsFetched' /\ PutterKeepsObject'
    BY <1>1, QuietKeepsObjects
<1>4. HeldGoesOn'
    BY <1>1 DEF IInv, HeldGoesOn
<1>5. HistoriesArePast' /\ EntriesAreNew'
    <2>1. \A p \in Node : {shard'[p][HistoryKey], cache'[p][HistoryKey], held'[p]}
                              \subseteq Lists \cup {<<>>}
        BY <1>1 DEF Lists
    <2>2. Lists' \subseteq Lists \cup {<<>>}
        BY <2>1 DEF Lists
    <2>3. \A p \in Node : entry'[p] \in {entry[p], <<>>}
        BY <1>1
    <2> QED BY <2>2, <2>3, PastKeeps
<1> QED BY <1>2, <1>3, <1>4, <1>5 DEF IInv

\* get_eventual of the database caches a manifest no older than the one on the disk.
LEMMA GetKeeps ==
    ASSUME IInv, NEW n \in Node, Get(n)
    PROVE  IInv'
<1>1. PICK value \in Found(n, ManifestKey) \ {<<>>} :
          mcache' = [mcache EXCEPT ![n] = value] /\ cache' = Cached(n, ManifestKey, value)
    BY DEF Get
<1>2. UNCHANGED <<shard, objectVars, job, clock, entry, held>>
    BY DEF Get
<1>3. value \in AtMostOne /\ IsPrefix(shard[n][ManifestKey], value)
    BY TwoKeys, FoundIsRight
<1>4. /\ cache' \in [Node -> [Key -> Seq(Entry)]]
      /\ \A p \in Node, q \in Key : cache'[p][q] # <<>> => IsPrefix(shard[p][q], cache'[p][q])
      /\ \A p \in Node : /\ cache'[p][ManifestKey] \in AtMostOne
                         /\ cache'[p][HistoryKey] \in Lists \cup {<<>>}
    BY <1>1, TwoKeys, CachedKeeps
<1>5. mcache \in [Node -> AtMostOne] /\ shard \in [Node -> [Key -> Seq(Entry)]]
    BY DEF IInv, ManifestTypeOK
<1>6. /\ mcache' \in [Node -> AtMostOne] /\ mcache'[n] = value
      /\ \A p \in Node \ {n} : mcache'[p] = mcache[p]
    BY <1>1, <1>3, <1>5
<1>7. CacheGoesOnFromDisk' /\ OneManifest'
    <2>1. AtMostOne' = AtMostOne
        BY DEF AtMostOne
    <2> QED BY <1>2, <1>4, <2>1 DEF IInv, OneManifest, CacheGoesOnFromDisk
<1>8. ManifestNotStale'
    <2> SUFFICES ASSUME NEW p \in Node, mcache'[p] # <<>>, shard[p][ManifestKey] # <<>>
                 PROVE  mcache'[p][1].version >= shard[p][ManifestKey][1].version
        BY <1>2 DEF ManifestNotStale
    <2>1. CASE p = n
        <3>1. shard[n][ManifestKey] = value
            BY <1>3, <2>1, PrefixOfOne DEF IInv, OneManifest
        <3>2. shard[n][ManifestKey][1].version \in Nat
            BY <2>1, StoredWasGiven
        <3> QED BY <1>6, <2>1, <3>1, <3>2
    <2>2. CASE p # n
        BY <1>6, <2>2 DEF IInv, ManifestNotStale
    <2> QED BY <2>1, <2>2
<1>9. clock' \in 0 .. MaxTime /\ clock' >= clock
    BY <1>2, StorageAssumption DEF IInv, ManifestTypeOK
<1>10. \A p \in Node : shard'[p][HistoryKey] = shard[p][HistoryKey]
    BY <1>2
<1>11. shard' \in [Node -> [Key -> Seq(Entry)]]
    BY <1>2, <1>5
<1> QED BY <1>2, <1>4, <1>6, <1>7, <1>8, <1>9, <1>10, <1>11, ManifestStepKeeps

\* rollback only reads, or takes a new version for data that was put once.
LEMMA RollbackCases ==
    ASSUME IInv, NEW n \in Node, Rollback(n)
    PROVE  \E list \in Found(n, HistoryKey) :
               \/ /\ cache' = Cached(n, HistoryKey, list)
                  /\ UNCHANGED <<clock, shard, mcache>>
               \/ \E e \in Entry :
                     /\ clock < MaxTime /\ clock' = clock + 1
                     /\ e.version = clock + 1 /\ e.data \in 1 .. (clock + 1)
                     /\ e = [version |-> clock + 1, data |-> e.data]
                     /\ mcache' = [mcache EXCEPT ![n] = <<e>>]
                     /\ \/ /\ shard' = [shard EXCEPT ![n][ManifestKey] = <<e>>]
                           /\ cache' = [Cached(n, HistoryKey, list) EXCEPT ![n][ManifestKey] = <<e>>]
                        \/ /\ shard' = shard
                           /\ cache' = Cached(n, HistoryKey, list)
<1>1. PICK list \in Found(n, HistoryKey) :
          LET read == Cached(n, HistoryKey, list)
          IN  \/ cache' = read /\ UNCHANGED <<clock, shard, mcache>>
              \/ \E i \in DOMAIN list :
                    LET new == <<[version |-> clock + 1, data |-> list[i].data]>>
                    IN  /\ Tick
                        /\ mcache' = [mcache EXCEPT ![n] = new]
                        /\ \/ /\ Leader(n) = n
                              /\ shard' = [shard EXCEPT ![n][ManifestKey] = new]
                              /\ cache' = [read EXCEPT ![n][ManifestKey] = new]
                           \/ /\ Leader(n) # n
                              /\ shard' = shard
                              /\ cache' = read
    BY DEF Rollback
<1>2. CASE cache' = Cached(n, HistoryKey, list) /\ UNCHANGED <<clock, shard, mcache>>
    BY <1>2
<1>3. ASSUME NEW i \in DOMAIN list, Tick,
             LET read == Cached(n, HistoryKey, list)
                 new == <<[version |-> clock + 1, data |-> list[i].data]>>
             IN  /\ mcache' = [mcache EXCEPT ![n] = new]
                 /\ \/ /\ shard' = [shard EXCEPT ![n][ManifestKey] = new]
                       /\ cache' = [read EXCEPT ![n][ManifestKey] = new]
                    \/ /\ shard' = shard
                       /\ cache' = read
      PROVE  \E e \in Entry :
                 /\ clock < MaxTime /\ clock' = clock + 1
                 /\ e.version = clock + 1 /\ e.data \in 1 .. (clock + 1)
                 /\ e = [version |-> clock + 1, data |-> e.data]
                 /\ mcache' = [mcache EXCEPT ![n] = <<e>>]
                 /\ \/ /\ shard' = [shard EXCEPT ![n][ManifestKey] = <<e>>]
                       /\ cache' = [Cached(n, HistoryKey, list) EXCEPT ![n][ManifestKey] = <<e>>]
                    \/ /\ shard' = shard
                       /\ cache' = Cached(n, HistoryKey, list)
    <2> DEFINE e == [version |-> clock + 1, data |-> list[i].data]
    <2>1. clock < MaxTime /\ clock' = clock + 1 /\ clock \in Nat
        BY <1>3, StorageAssumption DEF Tick, IInv, ManifestTypeOK
    <2>2. list \in Seq(Entry) /\ IsPast(list)
        BY TwoKeys, FoundIsRight DEF IInv, HistoriesArePast
    <2>3. list[i] \in Entry /\ list[i].data = list[i].version /\ list[i].version <= clock
        BY <2>2 DEF IsPast
    <2>4. list[i].data \in 1 .. (clock + 1)
        BY <2>1, <2>3, StorageAssumption DEF Entry, Version
    <2>5. e \in Entry
        BY <2>1, <2>4, NextVersion
    <2>6. e.version = clock + 1 /\ e.data = list[i].data /\ e = [version |-> clock + 1, data |-> e.data]
        OBVIOUS
    <2> HIDE DEF e
    <2>7. /\ mcache' = [mcache EXCEPT ![n] = <<e>>]
          /\ \/ /\ shard' = [shard EXCEPT ![n][ManifestKey] = <<e>>]
                /\ cache' = [Cached(n, HistoryKey, list) EXCEPT ![n][ManifestKey] = <<e>>]
             \/ /\ shard' = shard
                /\ cache' = Cached(n, HistoryKey, list)
        BY <1>3 DEF e
    <2> QED BY <2>1, <2>4, <2>5, <2>6, <2>7
<1> QED BY <1>1, <1>2, <1>3

\* rollback keeps the invariant.
LEMMA RollbackKeeps ==
    ASSUME IInv, NEW n \in Node, Rollback(n)
    PROVE  IInv'
<1>1. PICK list \in Found(n, HistoryKey) :
          \/ /\ cache' = Cached(n, HistoryKey, list)
             /\ UNCHANGED <<clock, shard, mcache>>
          \/ \E e \in Entry :
                /\ clock < MaxTime /\ clock' = clock + 1
                /\ e.version = clock + 1
                /\ mcache' = [mcache EXCEPT ![n] = <<e>>]
                /\ \/ /\ shard' = [shard EXCEPT ![n][ManifestKey] = <<e>>]
                      /\ cache' = [Cached(n, HistoryKey, list) EXCEPT ![n][ManifestKey] = <<e>>]
                   \/ /\ shard' = shard
                      /\ cache' = Cached(n, HistoryKey, list)
    BY RollbackCases
<1>2. PICK read : read = Cached(n, HistoryKey, list)
    OBVIOUS
<1>3. /\ read \in [Node -> [Key -> Seq(Entry)]]
      /\ \A p \in Node, q \in Key : read[p][q] # <<>> => IsPrefix(shard[p][q], read[p][q])
      /\ \A p \in Node : /\ read[p][ManifestKey] \in AtMostOne
                         /\ read[p][HistoryKey] \in Lists \cup {<<>>}
    BY <1>2, TwoKeys, CachedKeeps
<1>4. \A p \in Node : read[p][ManifestKey] = cache[p][ManifestKey]
    BY <1>2, TwoKeys, CachedKeeps
<1>5. UNCHANGED <<objectVars, job, entry, held>>
    BY DEF Rollback
<1>6. /\ shard \in [Node -> [Key -> Seq(Entry)]] /\ mcache \in [Node -> AtMostOne]
      /\ clock \in Nat /\ clock \in 0 .. MaxTime
      /\ AtMostOne' = AtMostOne
    BY StorageAssumption DEF IInv, ManifestTypeOK, AtMostOne
<1>7. CASE cache' = read /\ UNCHANGED <<clock, shard, mcache>>
    <2>1. CacheGoesOnFromDisk' /\ OneManifest' /\ ManifestNotStale'
        BY <1>3, <1>6, <1>7 DEF IInv, CacheGoesOnFromDisk, OneManifest, ManifestNotStale
    <2> QED BY <1>3, <1>5, <1>6, <1>7, <2>1, ManifestStepKeeps
<1>8. ASSUME NEW e \in Entry,
             clock < MaxTime, clock' = clock + 1, e.version = clock + 1,
             mcache' = [mcache EXCEPT ![n] = <<e>>],
             \/ /\ shard' = [shard EXCEPT ![n][ManifestKey] = <<e>>]
                /\ cache' = [read EXCEPT ![n][ManifestKey] = <<e>>]
             \/ /\ shard' = shard
                /\ cache' = read
      PROVE  IInv'
    <2>1. PICK new \in AtMostOne : new = <<e>>
        BY DEF AtMostOne
    <2>2. new \in Seq(Entry) /\ new # <<>> /\ new[1].version = clock + 1
        BY <1>8, <2>1, OneIsList
    <2>3. IsPrefix(new, new)
        BY <2>2, PrefixTrivial
    <2>4. /\ shard' \in [Node -> [Key -> Seq(Entry)]]
          /\ cache' \in [Node -> [Key -> Seq(Entry)]]
          /\ \A p \in Node, q \in Key :
                \/ shard'[p][q] = shard[p][q] /\ cache'[p][q] = read[p][q]
                \/ /\ p = n /\ q = ManifestKey
                   /\ shard'[p][q] = new /\ cache'[p][q] = new
        <3>1. CASE shard' = shard /\ cache' = read
            BY <1>3, <1>6, <3>1
        <3>2. CASE /\ shard' = [shard EXCEPT ![n][ManifestKey] = new]
                   /\ cache' = [read EXCEPT ![n][ManifestKey] = new]
            <4>1. /\ shard' \in [Node -> [Key -> Seq(Entry)]]
                  /\ \A p \in Node, q \in Key :
                        shard'[p][q] = IF p = n /\ q = ManifestKey THEN new ELSE shard[p][q]
                BY <1>6, <2>2, <3>2, TwoKeys, UpdateAt
            <4>2. /\ cache' \in [Node -> [Key -> Seq(Entry)]]
                  /\ \A p \in Node, q \in Key :
                        cache'[p][q] = IF p = n /\ q = ManifestKey THEN new ELSE read[p][q]
                BY <1>3, <2>2, <3>2, TwoKeys, UpdateAt
            <4> QED BY <4>1, <4>2
        <3> QED BY <1>8, <2>1, <3>1, <3>2
    <2>5. CacheGoesOnFromDisk'
        BY <1>3, <2>3, <2>4 DEF CacheGoesOnFromDisk
    <2>6. \A p \in Node : /\ shard'[p][HistoryKey] = shard[p][HistoryKey]
                          /\ cache'[p][HistoryKey] \in Lists \cup {<<>>}
        BY <1>3, <2>4, TwoKeys
    <2>7. mcache' = [mcache EXCEPT ![n] = new] /\ mcache' \in [Node -> AtMostOne]
        BY <1>6, <1>8, <2>1
    <2>8. OneManifest' /\ ManifestNotStale'
        <3>1. \A p \in Node : shard'[p][ManifestKey] = shard[p][ManifestKey]
                                  \/ (p = n /\ shard'[p][ManifestKey] = new)
            BY <2>4, TwoKeys
        <3>2. \A p \in Node : cache'[p][ManifestKey] = cache[p][ManifestKey]
                                  \/ cache'[p][ManifestKey] = new
            BY <1>4, <2>4, TwoKeys
        <3> QED BY <1>8, <2>2, <2>7, <3>1, <3>2, NewManifestKeeps
    <2>9. clock' \in 0 .. MaxTime /\ clock' >= clock
        BY <1>6, <1>8, StorageAssumption
    <2> QED BY <1>5, <2>4, <2>5, <2>6, <2>7, <2>8, <2>9, ManifestStepKeeps
<1> QED BY <1>1, <1>2, <1>7, <1>8
-----------------------------------------------------------------------------
(* The invariant *)

\* Nothing is stored, cached or called before the first process starts.
LEMMA InvInit == ManifestInit => IInv
<1> SUFFICES ASSUME ManifestInit PROVE IInv
    OBVIOUS
<1>1. /\ clock = 0 /\ pushes = {} /\ owned = {}
      /\ shard = [n \in Node |-> [k \in Key |-> <<>>]]
      /\ cache = [n \in Node |-> [k \in Key |-> <<>>]]
      /\ objects = [n \in Node |-> [o \in Obj |-> Absent]]
      /\ tmp = [n \in Node |-> [o \in Obj |-> Absent]]
      /\ storing = [n \in Node |-> <<>>]
      /\ job = [n \in Node |-> "idle"]
      /\ left = [n \in Node |-> {}]
      /\ item = [n \in Node |-> <<>>]
      /\ mcache = [n \in Node |-> <<>>]
      /\ entry = [n \in Node |-> <<>>]
      /\ held = [n \in Node |-> <<>>]
    BY DEF ManifestInit, StorageInit
<1>2. <<>> \in Seq(Entry) /\ <<>> \in AtMostOne /\ <<>> \in Items /\ 0 \in 0 .. MaxTime
    BY StorageAssumption DEF AtMostOne, Items
<1>3. /\ shard \in [Node -> [Key -> Seq(Entry)]]
      /\ cache \in [Node -> [Key -> Seq(Entry)]]
    <2>1. [k \in Key |-> <<>>] \in [Key -> Seq(Entry)]
        BY <1>2
    <2> QED BY <1>1, <2>1
<1>4. /\ mcache \in [Node -> AtMostOne]
      /\ entry \in [Node -> AtMostOne]
      /\ held \in [Node -> Seq(Entry)]
      /\ item \in [Node -> Items]
    BY <1>1, <1>2
<1>5. /\ objects \in [Node -> [Obj -> Data \cup {Empty, Absent}]]
      /\ tmp \in [Node -> [Obj -> Data \cup {Empty, Absent}]]
      /\ storing \in [Node -> {<<>>} \cup {<<o>> : o \in Obj}]
      /\ pushes \subseteq [to : Node, obj : Obj, data : Data]
      /\ job \in [Node -> Jobs]
      /\ left \in [Node -> SUBSET Node]
    BY <1>1 DEF Jobs
<1>6. ManifestTypeOK
    <2>1. \A n \in Node : /\ left[n] # {} <=> job[n] \in {"push", "fetch"}
                          /\ entry[n] # <<>> <=> job[n] \in {"log", "append"}
        BY <1>1
    <2> QED BY <1>1, <1>2, <1>3, <1>4, <1>5, <2>1 DEF ManifestTypeOK, Jobs, Calls
<1>7. \A n \in Node : /\ \A k \in Key : shard[n][k] = <<>> /\ cache[n][k] = <<>>
                      /\ held[n] = <<>> /\ entry[n] = <<>> /\ mcache[n] = <<>> /\ job[n] = "idle"
    BY <1>1
<1>8. OneManifest
    <2>1. \A n \in Node : shard[n][ManifestKey] = <<>> /\ cache[n][ManifestKey] = <<>>
        BY <1>7, TwoKeys
    <2>2. DOMAIN <<>> = {}
        OBVIOUS
    <2> QED BY <1>2, <2>1, <2>2 DEF OneManifest
<1>9. HistoriesArePast
    <2>1. Lists \subseteq {<<>>}
        BY <1>7, TwoKeys DEF Lists
    <2>2. IsPast(<<>>)
        BY DEF IsPast
    <2> QED BY <2>1, <2>2 DEF HistoriesArePast
<1>10. CallHasItem /\ EntriesAreNew /\ HeldGoesOn /\ ManifestNotStale /\ CacheGoesOnFromDisk
    BY <1>4, <1>7 DEF CallHasItem, EntriesAreNew, HeldGoesOn, ManifestNotStale, CacheGoesOnFromDisk
<1>11. PutterKeepsObject /\ EmptyIsFetched
    BY <1>1, StorageAssumption DEF PutterKeepsObject, EmptyIsFetched
<1> QED BY <1>6, <1>8, <1>9, <1>10, <1>11 DEF IInv

\* Every step keeps the invariant.
LEMMA StepKeeps == IInv /\ [ManifestNext]_vars => IInv'
<1> SUFFICES ASSUME IInv, [ManifestNext]_vars PROVE IInv'
    OBVIOUS
<1>1. CASE Raft /\ UNCHANGED manifestVars
    BY <1>1, RaftKeeps
<1>2. CASE ObjectStep /\ UNCHANGED manifestVars
    <2>1. ASSUME NEW n \in Node, NEW o \in Obj, GetObject(n, o) PROVE IInv'
        BY <1>2, <2>1, GetObjectKeeps
    <2>2. ASSUME NEW n \in Node, NEW o \in Obj, NEW d \in Data, PutObject(n, o, d) PROVE IInv'
        BY <1>2, <2>2, PutObjectKeeps
    <2>3. ASSUME NEW n \in Node, NEW p \in Node, Push(n, p) PROVE IInv'
        BY <1>2, <2>3, PushKeeps
    <2>4. ASSUME NEW n \in Node, NEW p \in Node, Adopt(n, p) \/ NoAnswer(n, p) PROVE IInv'
        BY <1>2, <2>4, AdoptKeeps, NoAnswerKeeps
    <2>5. ASSUME NEW m \in pushes, HandlePut(m) PROVE IInv'
        BY <1>2, <2>5, HandlePutKeeps
    <2>6. ASSUME NEW n \in Node, StoreOwn(n) \/ StorePushed(n) \/ StoreFetched(n) PROVE IInv'
        BY <1>2, <2>6, StoreOwnKeeps, StorePushedKeeps, StoreFetchedKeeps
    <2> QED BY <1>2, <2>1, <2>2, <2>3, <2>4, <2>5, <2>6 DEF ObjectStep
<1>3. ASSUME NEW n \in Node,
             \/ (\E k \in Key : Expire(n, k) /\ UNCHANGED manifestVars)
             \/ ExpireManifest(n)
      PROVE  IInv'
    BY <1>3, ExpireKeeps
<1>4. ASSUME NEW n \in Node, Put(n) PROVE IInv'
    BY <1>4, PutKeeps
<1>5. ASSUME NEW n \in Node, ReadHistory(n) PROVE IInv'
    BY <1>5, ReadHistoryKeeps
<1>6. ASSUME NEW n \in Node, WriteHistory(n) PROVE IInv'
    BY <1>6, WriteHistoryKeeps
<1>7. ASSUME NEW n \in Node, Rollback(n) PROVE IInv'
    BY <1>7, RollbackKeeps
<1>8. ASSUME NEW n \in Node, Get(n) PROVE IInv'
    BY <1>8, GetKeeps
<1>9. ASSUME NEW n \in Node, CrashWithCaches(n) PROVE IInv'
    BY <1>9, CrashKeeps
<1>10. CASE UNCHANGED vars
    <2>1. /\ UNCHANGED <<shard, cache, mcache, entry, held, job, clock>>
          /\ UNCHANGED <<objects, tmp, storing, pushes, left, item, owned>>
        BY <1>10 DEF vars, storageVars, kvVars, objectVars, manifestVars
    <2>2. ManifestTypeOK'
        BY <2>1 DEF IInv, ManifestTypeOK, AtMostOne
    <2>3. clock' \in 0 .. MaxTime /\ clock' >= clock
        BY <2>1, StorageAssumption DEF IInv, ManifestTypeOK
    <2>4. CallHasItem' /\ EmptyIsFetched' /\ PutterKeepsObject'
        BY <2>1, QuietKeepsObjects DEF objectVars
    <2>5. /\ OneManifest' /\ HistoriesArePast' /\ EntriesAreNew'
          /\ HeldGoesOn' /\ CacheGoesOnFromDisk' /\ ManifestNotStale'
        BY <2>1, <2>3, QuietKeepsManifest DEF kvVars, manifestVars
    <2> QED BY <2>2, <2>4, <2>5 DEF IInv
<1> QED BY <1>1, <1>2, <1>3, <1>4, <1>5, <1>6, <1>7, <1>8, <1>9, <1>10 DEF ManifestNext

\* The invariant holds throughout.
LEMMA InvAlways == ManifestSpec => []IInv
BY InvInit, StepKeeps, PTL DEF ManifestSpec
-----------------------------------------------------------------------------
(* The theorems *)

\* The types of what processes store, send and hold, and what their calls go with.
THEOREM TypeCorrect == ManifestSpec => []ManifestTypeOK
<1>1. IInv => ManifestTypeOK
    BY DEF IInv
<1> QED BY <1>1, InvAlways, PTL

\* An object stays on the disk of whoever put it, though a get_object stores whatever
\* a peer answers, the empty answer included.
THEOREM PutterKeeps == ManifestSpec => []PutterKeepsObject
<1>1. IInv => PutterKeepsObject
    BY DEF IInv
<1> QED BY <1>1, InvAlways, PTL

\* A cached value goes on from what the node's own shard holds (CacheGoesOnFromDisk): the
\* layers of caches hide no write that reached the own disk.  What put_strong sent to
\* another leader is not on it.
THEOREM DiskIsNotHidden == ManifestSpec => []CacheGoesOnFromDisk
<1>1. IInv => CacheGoesOnFromDisk
    BY DEF IInv
<1> QED BY <1>1, InvAlways, PTL

\* No cached manifest is older than the one on the disk of its node.
THEOREM NeverStale == ManifestSpec => []ManifestNotStale
<1>1. IInv => ManifestNotStale
    BY DEF IInv
<1> QED BY <1>1, InvAlways, PTL
-----------------------------------------------------------------------------
(* The versioned store that the database implements *)

\* A version is given, and one node stores its manifest, or none does.
LEMMA NewVersionMaps ==
    ASSUME IInv, NEW n \in Node, NEW new, NEW d \in 1 .. (clock + 1),
           clock' = clock + 1,
           new = <<[version |-> clock + 1, data |-> d]>>,
           \A p \in Node : shard'[p][HistoryKey] = shard[p][HistoryKey],
           \A p \in Node : shard'[p][ManifestKey] = shard[p][ManifestKey]
                              \/ (p = n /\ shard'[p][ManifestKey] = new)
    PROVE  Store!Next
<1>1. [p \in Node |-> shard'[p][HistoryKey]] = [p \in Node |-> shard[p][HistoryKey]]
    OBVIOUS
<1>2. CASE \A p \in Node : shard'[p][ManifestKey] = shard[p][ManifestKey]
    <2>1. [p \in Node |-> shard'[p][ManifestKey]] = [p \in Node |-> shard[p][ManifestKey]]
        BY <1>2
    <2>2. Store!Lose
        BY <1>1, <2>1 DEF Store!Lose
    <2> QED BY <2>2 DEF Store!Next
<1>3. CASE ~ \A p \in Node : shard'[p][ManifestKey] = shard[p][ManifestKey]
    <2>1. shard'[n][ManifestKey] = new /\ \A p \in Node \ {n} : shard'[p][ManifestKey] = shard[p][ManifestKey]
        BY <1>3
    <2>2. [p \in Node |-> shard'[p][ManifestKey]]
              = [[p \in Node |-> shard[p][ManifestKey]] EXCEPT ![n] = new]
        BY <2>1
    <2>3. Store!Put(n)
        BY <1>1, <2>2 DEF Store!Put
    <2> QED BY <2>3 DEF Store!Next
<1> QED BY <1>2, <1>3

\* A step that leaves disks and clock alone is none of the versioned store.
LEMMA QuietMaps ==
    ASSUME UNCHANGED <<clock, shard>>
    PROVE  UNCHANGED <<clock, [n \in Node |-> shard[n][ManifestKey]],
                       [n \in Node |-> shard[n][HistoryKey]]>>
OBVIOUS

\* A history that is written goes on from the one on the disk, and is left as it is when
\* only the cache is extended.
LEMMA WriteHistoryMaps ==
    ASSUME IInv, NEW n \in Node, WriteHistory(n)
    PROVE  Store!Log(n) \/ UNCHANGED <<clock, shard>>
<1>1. PICK list : list = Extended(n)
    OBVIOUS
<1>2. /\ job[n] = "append" /\ clock' = clock
      /\ PutStrong(n, HistoryKey, list) \/ UNCHANGED shard
    BY <1>1 DEF WriteHistory, AppendInPlace
<1>3. /\ list \in Seq(Entry)
      /\ IsStrictPrefix(shard[n][HistoryKey], list)
      /\ \A i \in DOMAIN list : list[i].data = list[i].version /\ list[i].version <= clock
      /\ \A i, j \in DOMAIN list : list[i] = list[j] => i = j
    BY <1>2, <1>1, ExtendedIsRight
<1>4. CASE UNCHANGED shard
    BY <1>2, <1>4
<1>5. CASE shard' = [shard EXCEPT ![n][HistoryKey] = list]
    <2>1. shard \in [Node -> [Key -> Seq(Entry)]]
        BY DEF IInv, ManifestTypeOK
    <2>2. \A p \in Node, q \in Key :
              shard'[p][q] = IF p = n /\ q = HistoryKey THEN list ELSE shard[p][q]
        BY <1>3, <1>5, <2>1, TwoKeys, UpdateAt
    <2>3. \A p \in Node : /\ shard'[p][ManifestKey] = shard[p][ManifestKey]
                          /\ shard'[p][HistoryKey] = IF p = n THEN list ELSE shard[p][HistoryKey]
        BY <2>2, TwoKeys
    <2>4. [p \in Node |-> shard'[p][ManifestKey]] = [p \in Node |-> shard[p][ManifestKey]]
        BY <2>3
    <2> DEFINE before == [p \in Node |-> shard[p][HistoryKey]]
               after == [p \in Node |-> shard'[p][HistoryKey]]
    <2>5. after = [before EXCEPT ![n] = list]
        BY <2>3
    <2>6. after[n] = list /\ before[n] = shard[n][HistoryKey]
        BY <2>3
    <2>7. Store!Versions(list) \subseteq 1 .. clock
        <3>1. \A i \in DOMAIN list : list[i] \in Entry
            BY <1>3
        <3>2. clock \in Nat
            BY StorageAssumption DEF IInv, ManifestTypeOK
        <3>3. \A i \in DOMAIN list : list[i].version \in 1 .. clock
            BY <1>3, <3>1, <3>2, StorageAssumption DEF Entry, Version
        <3> QED BY <3>3 DEF Store!Versions
    <2> HIDE DEF before, after
    <2>8. /\ Store!IsStrictPrefix(before[n], after[n])
          /\ \A i \in DOMAIN after[n] : after[n][i].data = after[n][i].version
          /\ Store!Versions(after[n]) \subseteq 1 .. clock
          /\ \A i, j \in DOMAIN after[n] : after[n][i] = after[n][j] => i = j
          /\ after = [before EXCEPT ![n] = after[n]]
        BY <1>3, <2>5, <2>6, <2>7
        DEF IsStrictPrefix, IsPrefix, Store!IsStrictPrefix, Store!IsPrefix
    <2>9. Store!Log(n)
        BY <1>2, <2>4, <2>8 DEF Store!Log, before, after
    <2> QED BY <2>9
<1> QED BY <1>2, <1>4, <1>5 DEF PutStrong, kvVars

\* Every step of the database is one of the versioned store, or none.
LEMMA StepMaps ==
    ASSUME IInv, [ManifestNext]_vars
    PROVE  \/ Store!Next
           \/ UNCHANGED <<clock, [n \in Node |-> shard[n][ManifestKey]],
                          [n \in Node |-> shard[n][HistoryKey]]>>
<1>1. CASE UNCHANGED <<clock, shard>>
    BY <1>1, QuietMaps
<1>2. CASE clock' = clock + 1 /\ UNCHANGED shard
    <2>1. [n \in Node |-> shard'[n][ManifestKey]] = [n \in Node |-> shard[n][ManifestKey]]
        BY <1>2
    <2>2. [n \in Node |-> shard'[n][HistoryKey]] = [n \in Node |-> shard[n][HistoryKey]]
        BY <1>2
    <2>3. Store!Lose
        BY <1>2, <2>1, <2>2 DEF Store!Lose
    <2> QED BY <2>3 DEF Store!Next
<1>3. shard \in [Node -> [Key -> Seq(Entry)]] /\ clock \in Nat
    BY StorageAssumption DEF IInv, ManifestTypeOK
<1>4. ASSUME NEW n \in Node, NEW new \in Seq(Entry), NEW d \in 1 .. (clock + 1),
             clock' = clock + 1, new = <<[version |-> clock + 1, data |-> d]>>,
             shard' = shard \/ shard' = [shard EXCEPT ![n][ManifestKey] = new]
      PROVE  Store!Next
    <2>1. \A p \in Node, q \in Key :
              shard'[p][q] = shard[p][q] \/ (p = n /\ q = ManifestKey /\ shard'[p][q] = new)
        <3>1. CASE shard' = shard
            BY <3>1
        <3>2. CASE shard' = [shard EXCEPT ![n][ManifestKey] = new]
            <4>1. \A p \in Node, q \in Key :
                      shard'[p][q] = IF p = n /\ q = ManifestKey THEN new ELSE shard[p][q]
                BY <1>3, <3>2, TwoKeys, UpdateAt
            <4> QED BY <4>1
        <3> QED BY <1>4, <3>1, <3>2
    <2>2. \A p \in Node : shard'[p][HistoryKey] = shard[p][HistoryKey]
        BY <2>1, TwoKeys
    <2>3. \A p \in Node : shard'[p][ManifestKey] = shard[p][ManifestKey]
                              \/ (p = n /\ shard'[p][ManifestKey] = new)
        BY <2>1, TwoKeys
    <2> QED BY <1>4, <2>2, <2>3, NewVersionMaps
<1>5. ASSUME NEW n \in Node, Put(n) PROVE Store!Next
    <2>1. clock < MaxTime /\ clock' = clock + 1 /\ clock + 1 \in 1 .. (clock + 1)
        BY <1>3, <1>5 DEF Put, PutEntry, Tick
    <2>2. <<[version |-> clock + 1, data |-> clock + 1]>> \in Seq(Entry)
        BY <2>1, NextVersion, OneIsList
    <2>3. \/ shard' = shard
          \/ shard' = [shard EXCEPT ![n][ManifestKey] = <<[version |-> clock + 1, data |-> clock + 1]>>]
        BY <1>5 DEF Put, PutEntry, PutStrong, kvVars
    <2> QED BY <1>4, <2>1, <2>2, <2>3
<1>6. ASSUME NEW n \in Node, Rollback(n) PROVE Store!Next \/ UNCHANGED <<clock, shard>>
    <2>1. CASE UNCHANGED <<clock, shard>>
        BY <2>1
    <2>2. ASSUME NEW e \in Entry, clock' = clock + 1, e.data \in 1 .. (clock + 1),
                 e = [version |-> clock + 1, data |-> e.data],
                 shard' = shard \/ shard' = [shard EXCEPT ![n][ManifestKey] = <<e>>]
          PROVE  Store!Next
        <3>1. PICK d \in 1 .. (clock + 1) : d = e.data
            BY <2>2
        <3>2. <<[version |-> clock + 1, data |-> d]>> = <<e>> /\ <<e>> \in Seq(Entry)
            BY <2>2, <3>1
        <3> QED BY <1>4, <2>2, <3>2
    <2> QED BY <1>6, <2>1, <2>2, RollbackCases
<1>7. ASSUME NEW n \in Node, WriteHistory(n) PROVE Store!Next \/ UNCHANGED <<clock, shard>>
    BY <1>7, WriteHistoryMaps DEF Store!Next
<1>8. CASE Raft \/ UNCHANGED vars
    BY <1>1, <1>8 DEF Raft, vars, storageVars, kvVars
<1>9. CASE ObjectStep
    <2>1. UNCHANGED shard /\ (clock' = clock \/ clock' = clock + 1)
        BY <1>9 DEF ObjectStep, GetObject, PutObject, Push, Adopt, NoAnswer, HandlePut, StoreOwn,
              StorePushed, StoreFetched, Tick, kvVars
    <2> QED BY <1>1, <1>2, <2>1
<1>10. ASSUME NEW n \in Node,
              \/ \E k \in Key : Expire(n, k)
              \/ ReadHistory(n) \/ Get(n) \/ ExpireManifest(n) \/ CrashWithCaches(n)
       PROVE  UNCHANGED <<clock, shard>>
    BY <1>10 DEF Expire, ReadHistory, Get, ExpireManifest, CrashWithCaches, StorageCrash,
                 storageVars, kvVars
<1> QED BY <1>1, <1>5, <1>6, <1>7, <1>8, <1>9, <1>10 DEF ManifestNext

\* The database implements the versioned store: versions only grow, a manifest is
\* replaced only by a later one, and a history is only ever extended.
THEOREM ImplementsStore == ManifestSpec => KeepsHistory
<1>1. ManifestInit => Store!Init
    <2> SUFFICES ASSUME ManifestInit PROVE Store!Init
        OBVIOUS
    <2>1. clock = 0 /\ \A n \in Node, k \in Key : shard[n][k] = <<>>
        BY DEF ManifestInit, StorageInit
    <2> QED BY <2>1, TwoKeys DEF Store!Init
<1>2. IInv /\ [ManifestNext]_vars
          => [Store!Next]_<<clock, [n \in Node |-> shard[n][ManifestKey]],
                            [n \in Node |-> shard[n][HistoryKey]]>>
    BY StepMaps
<1> QED BY <1>1, <1>2, InvAlways, PTL DEF ManifestSpec, KeepsHistory, Store!Spec
=============================================================================
