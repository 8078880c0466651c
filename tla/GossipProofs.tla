---------------------------- MODULE GossipProofs ----------------------------
(***************************************************************************)
(* Proofs about Gossip, for any nodes, keys, values, timeouts and bounds.  *)
(***************************************************************************)
EXTENDS Gossip, TLAPS

(* The inductive invariant *)

Record == [hb : Nat, status : Status, age : 0 .. DeadTicks + 1]
Tables == UNION {[D -> Record] : D \in SUBSET Node}
KeyedEntry == Key \X (Entry \ {Absent})

\* What nodes keep: types, heartbeats that their owners reached, entries that were put,
\* no later than now.
Kept ==
    /\ now \in 1 .. MaxNow
    /\ up \in [Node -> BOOLEAN]
    /\ heartbeat \in [Node -> Nat]
    /\ gossiped \in [Node -> BOOLEAN]
    /\ next_sync \in [Node -> Nat]
    /\ store \in [Node -> [Key -> Entry]]
    /\ members \in [Node -> Tables]
    /\ peak \in [Node -> Nat]
    /\ crashes \in Nat
    /\ written \subseteq KeyedEntry
    /\ \A n \in Node : heartbeat[n] <= peak[n]
    /\ \A n \in Node : \A m \in DOMAIN members[n] : members[n][m].hb <= peak[m]
    /\ \A w \in written : w[2].version <= now
    /\ \A n \in Node, k \in Key : store[n][k] # Absent => <<k, store[n][k]>> \in written

\* What is on its way: an entry that was put, or heartbeats that were reached.
Sound(s) ==
    /\ s.from \in Node /\ s.to \in Peers(s.from)
    /\ s.type = "update" => /\ s.key \in Key /\ s.entry \in Entry \ {Absent}
                            /\ <<s.key, s.entry>> \in written
    /\ s.type = "state" => /\ DOMAIN s.members \subseteq Node
                           /\ s.members \in [DOMAIN s.members -> Nat]
                           /\ \A m \in DOMAIN s.members : s.members[m] <= peak[m]

\* Process p has an entry of k at least as new as v, or will be sent one.
WillHave(p, k, v) ==
    \/ store[p][k].version >= v
    \/ \E s \in outbox : s.type = "update" /\ s.to = p /\ s.key = k /\ s.entry.version >= v

\* While nobody crashed, everybody runs, and what was put reaches everybody.
PutsSpread ==
    crashes = 0 =>
        /\ \A n \in Node : up[n]
        /\ \A w \in written, p \in Node : WillHave(p, w[1], w[2].version)

IInv ==
    /\ Kept
    /\ \A s \in outbox : Sound(s)
    /\ PutsSpread
-----------------------------------------------------------------------------
(* Tables, payloads and entries *)

\* A table maps some nodes to records.
LEMMA TableIs ==
    ASSUME NEW t \in Tables
    PROVE  /\ DOMAIN t \subseteq Node
           /\ t \in [DOMAIN t -> Record]
           /\ \A m \in DOMAIN t : /\ t[m] \in Record /\ t[m].hb \in Nat
                                  /\ t[m].status \in Status /\ t[m].age \in 0 .. DeadTicks + 1
<1>1. PICK D \in SUBSET Node : t \in [D -> Record]
    BY DEF Tables
<1> QED BY <1>1 DEF Record

\* A function from some nodes to records is a table.
LEMMA IsTable ==
    ASSUME NEW D \in SUBSET Node, NEW t \in [D -> Record]
    PROVE  t \in Tables
BY DEF Tables

\* A merge keeps what it knew or takes what it heard, and changes no verdict.
LEMMA MergeIs ==
    ASSUME NEW mine \in Tables, NEW theirs, theirs \in [DOMAIN theirs -> Nat], DOMAIN theirs \subseteq Node
    PROVE  LET merged == MergeMembers(mine, theirs)
           IN  /\ merged \in Tables
               /\ DOMAIN merged = DOMAIN mine \cup DOMAIN theirs
               /\ \A m \in DOMAIN merged :
                     \/ (m \in DOMAIN mine /\ merged[m].hb = mine[m].hb)
                     \/ (m \in DOMAIN theirs /\ merged[m].hb <= theirs[m])
               /\ \A m \in DOMAIN mine : merged[m].status = mine[m].status
<1> DEFINE merged == MergeMembers(mine, theirs)
           D == DOMAIN mine \cup DOMAIN theirs
           Old(m) == IF m \in DOMAIN mine THEN mine[m] ELSE NewMember
           New(m) == IF m \in DOMAIN theirs /\ theirs[m] > Old(m).hb
                     THEN [Old(m) EXCEPT !.hb = theirs[m], !.age = 0] ELSE Old(m)
<1>1. merged = [m \in D |-> New(m)]
    BY DEF MergeMembers
<1>2. D \in SUBSET Node
    BY TableIs
<1>3. NewMember \in Record /\ NewMember.hb = 0
    BY GossipAssumption DEF NewMember, Record, Status
<1>4. \A m \in D : Old(m) \in Record
    BY <1>3, TableIs
<1>5. \A m \in DOMAIN mine : Old(m) = mine[m]
    OBVIOUS
<1>6. \A m \in D : m \notin DOMAIN mine => Old(m).hb = 0
    BY <1>3
<1> HIDE DEF Old
<1>7. ASSUME NEW m \in D
      PROVE  /\ New(m) \in Record
             /\ New(m).status = Old(m).status
             /\ New(m).hb = Old(m).hb \/ (m \in DOMAIN theirs /\ New(m).hb = theirs[m])
    <2>1. Old(m) \in Record
        BY <1>4
    <2>2. CASE m \in DOMAIN theirs /\ theirs[m] > Old(m).hb
        <3>1. theirs[m] \in Nat /\ 0 \in 0 .. DeadTicks + 1
            BY <2>2, GossipAssumption
        <3> QED BY <2>1, <2>2, <3>1 DEF Record
    <2>3. CASE ~(m \in DOMAIN theirs /\ theirs[m] > Old(m).hb)
        BY <2>1, <2>3
    <2> QED BY <2>2, <2>3
<1> HIDE DEF New
<1>8. merged \in Tables
    BY <1>1, <1>2, <1>7, IsTable
<1>9. DOMAIN merged = D /\ \A m \in D : merged[m] = New(m)
    BY <1>1
<1> HIDE DEF merged
<1>10. ASSUME NEW m \in D
       PROVE  \/ (m \in DOMAIN mine /\ merged[m].hb = mine[m].hb)
              \/ (m \in DOMAIN theirs /\ merged[m].hb <= theirs[m])
    <2>1. CASE m \in DOMAIN mine
        BY <1>5, <1>7, <1>9, <2>1
    <2>2. CASE m \notin DOMAIN mine
        <3>1. m \in DOMAIN theirs /\ theirs[m] \in Nat
            BY <2>2
        <3> QED BY <1>6, <1>7, <1>9, <2>2, <3>1
    <2> QED BY <2>1, <2>2
<1>11. \A m \in DOMAIN mine : merged[m].status = mine[m].status
    BY <1>5, <1>7, <1>9
<1> QED BY <1>8, <1>9, <1>10, <1>11 DEF merged

\* A payload holds what its sender kept under string keys, and else its own heartbeat.
LEMMA PayloadIs ==
    ASSUME NEW n \in Node, members[n] \in Tables, NEW h \in Nat, NEW sent, sent = Payload(n, h)
    PROVE  /\ DOMAIN sent = DOMAIN members[n] \cup {n}
           /\ DOMAIN sent \subseteq Node
           /\ sent \in [DOMAIN sent -> Nat]
           /\ \A m \in DOMAIN members[n] : sent[m] = members[n][m].hb
           /\ n \notin DOMAIN members[n] => sent[n] = h
<1>1. /\ DOMAIN members[n] \subseteq Node
      /\ \A m \in DOMAIN members[n] : members[n][m].hb \in Nat
    BY TableIs
<1> QED BY <1>1 DEF Payload

\* The newer of two entries is one of them, and as new as both.
LEMMA NewerIs ==
    ASSUME NEW a \in Entry, NEW b \in Entry
    PROVE  /\ Newer(a, b) \in {a, b}
           /\ a.version \in Nat /\ b.version \in Nat /\ Newer(a, b).version \in Nat
           /\ Newer(a, b).version >= a.version
           /\ Newer(a, b).version >= b.version
<1>1. \A e \in Entry : e.version \in Nat
    BY GossipAssumption DEF Entry, Absent
<1>2. a.version \in Nat /\ b.version \in Nat
    BY <1>1
<1> QED BY <1>2 DEF Newer

\* No put is older than a key that is absent.
LEMMA AbsentIsOldest == Absent \in Entry /\ Absent.version = 0
BY DEF Entry, Absent

\* What is right stays right when more was put, reached or sent.
LEMMA SoundStays ==
    ASSUME NEW s, Sound(s), IInv, peak' \in [Node -> Nat],
           \A n \in Node : peak'[n] >= peak[n], written \subseteq written'
    PROVE  Sound(s)'
<1>1. \A m \in Node : peak[m] \in Nat /\ peak'[m] \in Nat
    BY DEF IInv, Kept
<1>2. s.type = "state" => \A m \in DOMAIN s.members : s.members[m] <= peak'[m]
    BY <1>1 DEF Sound
<1> QED BY <1>2 DEF Sound, Peers

\* Some node keeps h as the heartbeat of m.
Keeps(m, h) ==
    \E n \in Node : m \in DOMAIN members[n] /\ h = members[n][m].hb

\* Some message carries h as the heartbeat of m.
Carries(m, h) ==
    \E s \in outbox : s.type = "state" /\ m \in DOMAIN s.members /\ h = s.members[m]

\* What circulates is kept or carried.
LEMMA CirculatingIs ==
    ASSUME NEW m, NEW h
    PROVE  h \in Circulating(m) <=> Keeps(m, h) \/ Carries(m, h)
<1>1. h \in {members[n][m].hb : n \in {i \in Node : m \in DOMAIN members[i]}}
         <=> Keeps(m, h)
    BY DEF Keeps
<1>2. h \in {s.members[m] : s \in {t \in outbox : t.type = "state" /\ m \in DOMAIN t.members}}
         <=> Carries(m, h)
    BY DEF Carries
<1> QED BY <1>1, <1>2 DEF Circulating

\* The invariant says what the runs check.
LEMMA InvImplies == IInv => TypeOK /\ HeartbeatWasReached /\ EntriesWerePut /\ QuietAgreement
<1> SUFFICES ASSUME IInv PROVE TypeOK /\ HeartbeatWasReached /\ EntriesWerePut /\ QuietAgreement
    OBVIOUS
<1>1. \A n \in Node : /\ DOMAIN members[n] \subseteq Node
                      /\ \A m \in DOMAIN members[n] : members[n][m] \in Record
    BY TableIs DEF IInv, Kept
<1>2. TypeOK
    BY <1>1 DEF IInv, Kept, Sound, TypeOK, Record
<1>3. HeartbeatWasReached
    <2> SUFFICES ASSUME NEW m \in Node, NEW h \in Circulating(m) PROVE h <= peak[m]
        BY DEF HeartbeatWasReached
    <2>1. CASE Keeps(m, h)
        BY <2>1 DEF Keeps, IInv, Kept
    <2>2. CASE Carries(m, h)
        BY <2>2 DEF Carries, IInv, Sound
    <2> QED BY <2>1, <2>2, CirculatingIs
<1>4. EntriesWerePut
    BY DEF IInv, Kept, Sound, EntriesWerePut
<1>5. QuietAgreement
    <2> SUFFICES ASSUME outbox = {}, crashes = 0, NEW n \in Node, NEW p \in Node, NEW k \in Key
                 PROVE  store[n][k].version = store[p][k].version
        BY DEF QuietAgreement
    <2>1. ASSUME NEW i \in Node, NEW j \in Node
          PROVE  store[i][k].version >= store[j][k].version /\ store[i][k].version \in Nat
        <3>1. store[i][k] \in Entry /\ store[j][k] \in Entry
            BY DEF IInv, Kept
        <3>2. store[i][k].version \in Nat /\ store[j][k].version \in Nat
            BY <3>1, NewerIs
        <3>3. CASE store[j][k] = Absent
            BY <3>2, <3>3, AbsentIsOldest
        <3>4. CASE store[j][k] # Absent
            <4>1. <<k, store[j][k]>> \in written
                BY <3>4 DEF IInv, Kept
            <4>2. WillHave(i, k, store[j][k].version)
                BY <4>1 DEF IInv, PutsSpread
            <4> QED BY <3>2, <4>2 DEF WillHave
        <3> QED BY <3>3, <3>4
    <2>2. /\ store[n][k].version >= store[p][k].version /\ store[n][k].version \in Nat
          /\ store[p][k].version >= store[n][k].version /\ store[p][k].version \in Nat
        BY <2>1
    <2> QED BY <2>2
<1> QED BY <1>2, <1>3, <1>4, <1>5
-----------------------------------------------------------------------------
(* The invariant holds at first and is kept *)

\* The invariant holds when all processes have started (GossipNode.__init__).
LEMMA InvInit == Init => IInv
<1> SUFFICES ASSUME Init PROVE IInv
    OBVIOUS
<1>1. NoMembers \in Tables
    <2>1. {} \in SUBSET Node /\ NoMembers \in [{} -> Record]
        BY DEF NoMembers
    <2> QED BY <2>1, IsTable
<1>2. EmptyStore \in [Key -> Entry] /\ \A k \in Key : EmptyStore[k] = Absent
    BY AbsentIsOldest DEF EmptyStore
<1>3. 1 \in 1 .. MaxNow /\ 1 + SyncTicks \in Nat /\ 0 \in Nat
    BY GossipAssumption
<1>4. \A n \in Node : members[n] = NoMembers /\ store[n] = EmptyStore
    BY DEF Init
<1>5. \A n \in Node : DOMAIN members[n] = {}
    BY <1>4 DEF NoMembers
<1>6. Kept
    <2>1. /\ now \in 1 .. MaxNow
          /\ up \in [Node -> BOOLEAN]
          /\ heartbeat \in [Node -> Nat]
          /\ gossiped \in [Node -> BOOLEAN]
          /\ next_sync \in [Node -> Nat]
          /\ peak \in [Node -> Nat]
          /\ crashes \in Nat
        BY <1>3 DEF Init
    <2>2. store \in [Node -> [Key -> Entry]] /\ members \in [Node -> Tables]
        BY <1>1, <1>2 DEF Init
    <2>3. written \subseteq KeyedEntry /\ \A w \in written : w[2].version <= now
        BY DEF Init
    <2>4. \A n \in Node : heartbeat[n] <= peak[n]
        BY DEF Init
    <2>5. \A n \in Node : \A m \in DOMAIN members[n] : members[n][m].hb <= peak[m]
        BY <1>5
    <2>6. \A n \in Node, k \in Key : store[n][k] # Absent => <<k, store[n][k]>> \in written
        BY <1>2, <1>4
    <2> QED BY <2>1, <2>2, <2>3, <2>4, <2>5, <2>6 DEF Kept
<1>7. \A s \in outbox : Sound(s)
    BY DEF Init
<1>8. PutsSpread
    BY DEF Init, PutsSpread
<1> QED BY <1>6, <1>7, <1>8 DEF IInv

\* What was put stays on its way to everybody when stores only get newer and updates
\* only vanish into the store of their receiver.
LEMMA SpreadStays ==
    ASSUME IInv, crashes' = crashes, up' = up, written' = written,
           store' \in [Node -> [Key -> Entry]],
           \A n \in Node, k \in Key : store'[n][k].version >= store[n][k].version,
           \A s \in outbox : s.type = "update" =>
               \/ s \in outbox'
               \/ store'[s.to][s.key].version >= s.entry.version
    PROVE  PutsSpread'
<1> SUFFICES ASSUME crashes = 0
             PROVE  /\ \A n \in Node : up[n]
                    /\ \A w \in written, p \in Node : WillHave(p, w[1], w[2].version)'
    BY DEF PutsSpread
<1>1. \A n \in Node : up[n]
    BY DEF IInv, PutsSpread
<1>2. ASSUME NEW w \in written, NEW p \in Node PROVE WillHave(p, w[1], w[2].version)'
    <2>1. w[1] \in Key /\ w[2] \in Entry
        BY DEF IInv, Kept, KeyedEntry
    <2>2. w[2].version \in Nat
        BY <2>1, NewerIs
    <2>3. WillHave(p, w[1], w[2].version)
        BY DEF IInv, PutsSpread
    <2>4. CASE store[p][w[1]].version >= w[2].version
        <3>1. store[p][w[1]] \in Entry /\ store'[p][w[1]] \in Entry
            BY <2>1 DEF IInv, Kept
        <3>2. store[p][w[1]].version \in Nat /\ store'[p][w[1]].version \in Nat
            BY <3>1, NewerIs
        <3>3. store'[p][w[1]].version >= store[p][w[1]].version
            BY <2>1
        <3>4. store'[p][w[1]].version >= w[2].version
            BY <2>2, <2>4, <3>2, <3>3
        <3> QED BY <3>4 DEF WillHave
    <2>5. CASE \E s \in outbox : /\ s.type = "update" /\ s.to = p /\ s.key = w[1]
                                 /\ s.entry.version >= w[2].version
        <3>1. PICK s \in outbox : /\ s.type = "update" /\ s.to = p /\ s.key = w[1]
                                  /\ s.entry.version >= w[2].version
            BY <2>5
        <3>2. CASE s \in outbox'
            BY <3>1, <3>2 DEF WillHave
        <3>3. CASE store'[s.to][s.key].version >= s.entry.version
            <4>1. s.entry \in Entry /\ store'[p][w[1]] \in Entry
                BY <2>1, <3>1 DEF IInv, Sound
            <4>2. s.entry.version \in Nat /\ store'[p][w[1]].version \in Nat
                BY <4>1, NewerIs
            <4>3. store'[p][w[1]].version >= w[2].version
                BY <2>2, <3>1, <3>3, <4>2
            <4> QED BY <4>3 DEF WillHave
        <3> QED BY <3>1, <3>2, <3>3
    <2> QED BY <2>3, <2>4, <2>5 DEF WillHave
<1> QED BY <1>1, <1>2

\* A version is as new as itself.
LEMMA SameVersion ==
    ASSUME IInv, NEW n \in Node, NEW k \in Key
    PROVE  store[n][k].version \in Nat /\ store[n][k].version >= store[n][k].version
<1>1. store[n][k] \in Entry
    BY DEF IInv, Kept
<1> QED BY <1>1, NewerIs

\* A message with heartbeats that its sender keeps or reached is sound.
LEMMA PayloadIsSound ==
    ASSUME IInv, Kept', members' = members, NEW n \in Node, NEW p \in Peers(n),
           NEW h \in Nat, h <= peak'[n], NEW s,
           s = [type |-> "state", from |-> n, to |-> p, members |-> Payload(n, h)]
    PROVE  Sound(s)'
<1>1. PICK sent : sent = Payload(n, h)
    OBVIOUS
<1>2. members[n] \in Tables
    BY DEF IInv, Kept
<1>3. /\ DOMAIN sent = DOMAIN members[n] \cup {n}
      /\ DOMAIN sent \subseteq Node
      /\ sent \in [DOMAIN sent -> Nat]
      /\ \A m \in DOMAIN members[n] : sent[m] = members[n][m].hb
      /\ n \notin DOMAIN members[n] => sent[n] = h
    <2>1. DOMAIN members[n] \subseteq Node /\ \A m \in DOMAIN members[n] : members[n][m].hb \in Nat
        BY <1>2, TableIs
    <2> QED BY <1>1, <2>1 DEF Payload
<1>4. \A m \in DOMAIN members[n] : members[n][m].hb <= peak'[m]
    BY DEF Kept
<1>5. \A m \in DOMAIN sent : sent[m] <= peak'[m]
    BY <1>3, <1>4
<1>6. s.type = "state" /\ s.from = n /\ s.to = p /\ s.members = sent /\ s.type # "update"
    BY <1>1
<1> QED BY <1>3, <1>5, <1>6 DEF Sound, Peers

\* A gossip round counts one up and sends what its node knows.
LEMMA GossipRoundKeeps == ASSUME IInv, NEW n \in Node, GossipRound(n) PROVE IInv'
<1>1. PICK h : h = heartbeat[n] + 1
    OBVIOUS
<1>2. /\ h \in Nat /\ heartbeat \in [Node -> Nat] /\ peak \in [Node -> Nat]
      /\ heartbeat' = [heartbeat EXCEPT ![n] = h]
      /\ peak' = [peak EXCEPT ![n] = IF h > @ THEN h ELSE @]
    BY <1>1 DEF GossipRound, IInv, Kept
<1>3. /\ heartbeat' \in [Node -> Nat] /\ peak' \in [Node -> Nat]
      /\ \A m \in Node : peak'[m] >= peak[m] /\ peak[m] \in Nat /\ peak'[m] \in Nat
      /\ heartbeat'[n] = h /\ h <= peak'[n]
      /\ \A m \in Node \ {n} : heartbeat'[m] = heartbeat[m] /\ peak'[m] = peak[m]
    BY <1>2
<1>4. Kept'
    <2>1. gossiped' \in [Node -> BOOLEAN]
        BY DEF GossipRound, IInv, Kept
    <2>2. \A m \in Node : heartbeat'[m] <= peak'[m]
        BY <1>3 DEF IInv, Kept
    <2>3. ASSUME NEW i \in Node, NEW m \in DOMAIN members[i] PROVE members[i][m].hb <= peak'[m]
        <3>1. m \in Node /\ members[i][m].hb \in Nat
            BY TableIs DEF IInv, Kept
        <3>2. members[i][m].hb <= peak[m]
            BY DEF IInv, Kept
        <3> QED BY <1>3, <3>1, <3>2
    <2> QED BY <1>3, <2>1, <2>2, <2>3 DEF GossipRound, IInv, Kept
<1>5. PICK p \in Peers(n) :
          outbox' = outbox \cup {[type |-> "state", from |-> n, to |-> p,
                                 members |-> Payload(n, h)]}
    BY <1>1 DEF GossipRound
<1>6. ASSUME NEW s \in outbox PROVE Sound(s)'
    <2>1. Sound(s) /\ written \subseteq written'
        BY DEF IInv, GossipRound
    <2> QED BY <1>3, <2>1, SoundStays
<1>7. ASSUME NEW s, s = [type |-> "state", from |-> n, to |-> p, members |-> Payload(n, h)]
      PROVE  Sound(s)'
    <2>1. h <= peak'[n] /\ members' = members
        BY <1>3 DEF GossipRound
    <2> QED BY <1>2, <1>4, <1>7, <2>1, PayloadIsSound
<1>8. PutsSpread'
    <2>1. /\ crashes' = crashes /\ up' = up /\ written' = written /\ store' = store
          /\ outbox \subseteq outbox' /\ store' \in [Node -> [Key -> Entry]]
        BY <1>5 DEF GossipRound, IInv, Kept
    <2>2. \A i \in Node, k \in Key : store'[i][k].version >= store[i][k].version
        BY <2>1, SameVersion
    <2> QED BY <2>1, <2>2, SpreadStays
<1> QED BY <1>4, <1>5, <1>6, <1>7, <1>8 DEF IInv

\* Anti-entropy sends what its node knows to all its peers.
LEMMA AntiEntropyKeeps == ASSUME IInv, NEW n \in Node, AntiEntropy(n) PROVE IInv'
<1>1. PICK h : h = heartbeat[n]
    OBVIOUS
<1>2. /\ h \in Nat /\ h <= peak'[n] /\ peak' = peak /\ written' = written /\ members' = members
      /\ peak' \in [Node -> Nat] /\ \A m \in Node : peak'[m] >= peak[m]
    BY <1>1 DEF AntiEntropy, IInv, Kept
<1>3. outbox' = outbox \cup {[type |-> "state", from |-> n, to |-> p,
                              members |-> Payload(n, h)] : p \in Peers(n)}
    BY <1>1 DEF AntiEntropy
<1>4. Kept'
    <2>1. now + SyncTicks \in Nat
        BY GossipAssumption DEF IInv, Kept
    <2>2. next_sync' \in [Node -> Nat]
        BY <2>1 DEF AntiEntropy, IInv, Kept
    <2> QED BY <2>2 DEF AntiEntropy, IInv, Kept
<1>5. ASSUME NEW s \in outbox PROVE Sound(s)'
    <2>1. Sound(s)
        BY DEF IInv
    <2> QED BY <1>2, <2>1, SoundStays
<1>6. ASSUME NEW p \in Peers(n), NEW s,
             s = [type |-> "state", from |-> n, to |-> p, members |-> Payload(n, h)]
      PROVE  Sound(s)'
    BY <1>2, <1>4, <1>6, PayloadIsSound
<1>7. PutsSpread'
    <2>1. /\ crashes' = crashes /\ up' = up /\ written' = written /\ store' = store
          /\ outbox \subseteq outbox' /\ store' \in [Node -> [Key -> Entry]]
        BY <1>3 DEF AntiEntropy, IInv, Kept
    <2>2. \A i \in Node, k \in Key : store'[i][k].version >= store[i][k].version
        BY <2>1, SameVersion
    <2> QED BY <2>1, <2>2, SpreadStays
<1>8. \A s \in outbox' : Sound(s)'
    BY <1>3, <1>5, <1>6
<1> QED BY <1>4, <1>7, <1>8 DEF IInv

\* The health checker changes verdicts only.
LEMMA HealthCheckKeeps == ASSUME IInv, NEW n \in Node, HealthCheck(n) PROVE IInv'
<1>1. members[n] \in Tables /\ members \in [Node -> Tables]
    BY DEF IInv, Kept
<1>2. PICK t : t = [m \in DOMAIN members[n] |->
           [members[n][m] EXCEPT !.status = IF members[n][m].age > DeadTicks THEN "dead"
                                            ELSE IF members[n][m].age > SuspectTicks
                                                 THEN "suspect" ELSE @]]
    OBVIOUS
<1>3. members' = [members EXCEPT ![n] = t]
    BY <1>2 DEF HealthCheck
<1>4. ASSUME NEW m \in DOMAIN members[n] PROVE t[m] \in Record /\ t[m].hb = members[n][m].hb
    <2>1. members[n][m] \in Record
        BY <1>1, TableIs
    <2>2. "dead" \in Status /\ "suspect" \in Status
        BY DEF Status
    <2> QED BY <1>2, <2>1, <2>2 DEF Record
<1>5. DOMAIN t = DOMAIN members[n] /\ t \in [DOMAIN members[n] -> Record]
    BY <1>2, <1>4
<1>6. t \in Tables
    <2>1. DOMAIN members[n] \in SUBSET Node
        BY <1>1, TableIs
    <2> QED BY <1>5, <2>1, IsTable
<1>7. members' \in [Node -> Tables] /\ members'[n] = t /\ \A i \in Node \ {n} : members'[i] = members[i]
    BY <1>1, <1>3, <1>6
<1>8. \A i \in Node : \A m \in DOMAIN members'[i] : members'[i][m].hb <= peak[m]
    BY <1>4, <1>5, <1>7 DEF IInv, Kept
<1>9. Kept'
    BY <1>7, <1>8 DEF HealthCheck, IInv, Kept
<1>10. /\ crashes' = crashes /\ up' = up /\ written' = written /\ store' = store
       /\ outbox' = outbox /\ peak' = peak /\ store' \in [Node -> [Key -> Entry]]
       /\ peak' \in [Node -> Nat] /\ \A m \in Node : peak'[m] >= peak[m]
    BY DEF HealthCheck, IInv, Kept
<1>11. \A s \in outbox' : Sound(s)'
    BY <1>10, SoundStays DEF IInv
<1>12. \A i \in Node, k \in Key : store'[i][k].version >= store[i][k].version
    BY <1>10, SameVersion
<1>13. PutsSpread'
    BY <1>10, <1>12, SpreadStays
<1> QED BY <1>9, <1>11, <1>13 DEF IInv

\* The clock makes members older.
LEMMA TickKeeps == ASSUME IInv, Tick PROVE IInv'
<1>1. members \in [Node -> Tables]
    BY DEF IInv, Kept
<1>2. members' = [n \in Node |-> [m \in DOMAIN members[n] |->
           [members[n][m] EXCEPT !.age = IF @ > DeadTicks THEN @ ELSE @ + 1]]]
    BY DEF Tick
<1>3. ASSUME NEW n \in Node
      PROVE  /\ members'[n] \in Tables
             /\ \A m \in DOMAIN members'[n] : members'[n][m].hb <= peak[m]
    <2>1. PICK t : t = [m \in DOMAIN members[n] |->
           [members[n][m] EXCEPT !.age = IF @ > DeadTicks THEN @ ELSE @ + 1]]
        OBVIOUS
    <2>2. members'[n] = t
        BY <1>2, <2>1
    <2>3. ASSUME NEW m \in DOMAIN members[n] PROVE t[m] \in Record /\ t[m].hb = members[n][m].hb
        <3>1. members[n][m] \in Record
            BY <1>1, TableIs
        <3>2. \A a \in 0 .. DeadTicks + 1 :
                  (IF a > DeadTicks THEN a ELSE a + 1) \in 0 .. DeadTicks + 1
            BY GossipAssumption
        <3> QED BY <2>1, <3>1, <3>2 DEF Record
    <2>4. DOMAIN t = DOMAIN members[n] /\ t \in [DOMAIN members[n] -> Record]
        BY <2>1, <2>3
    <2>5. DOMAIN members[n] \in SUBSET Node
        BY <1>1, TableIs
    <2>6. t \in Tables
        BY <2>4, <2>5, IsTable
    <2>7. \A m \in DOMAIN t : t[m].hb <= peak[m]
        BY <2>3, <2>4 DEF IInv, Kept
    <2> QED BY <2>2, <2>6, <2>7
<1>4. members' \in [Node -> Tables]
    <2>1. DOMAIN members' = Node /\ members' = [n \in Node |-> members'[n]]
        BY <1>2
    <2> QED BY <1>3, <2>1
<1>5. now' \in 1 .. MaxNow /\ \A w \in written : w[2].version <= now'
    <2>1. ASSUME NEW w \in written PROVE w[2].version <= now'
        <3>1. w[2] \in Entry /\ w[2].version <= now
            BY DEF IInv, Kept, KeyedEntry
        <3>2. w[2].version \in Nat
            BY <3>1, NewerIs
        <3> QED BY <3>1, <3>2, GossipAssumption DEF Tick, IInv, Kept
    <2> QED BY <2>1, GossipAssumption DEF Tick, IInv, Kept
<1>6. Kept'
    <2>1. gossiped' \in [Node -> BOOLEAN]
        BY DEF Tick
    <2> QED BY <1>3, <1>4, <1>5, <2>1 DEF Tick, IInv, Kept
<1>7. /\ crashes' = crashes /\ up' = up /\ written' = written /\ store' = store
      /\ outbox' = outbox /\ peak' = peak /\ store' \in [Node -> [Key -> Entry]]
      /\ peak' \in [Node -> Nat] /\ \A m \in Node : peak'[m] >= peak[m]
    BY DEF Tick, IInv, Kept
<1>8. \A s \in outbox' : Sound(s)'
    BY <1>7, SoundStays DEF IInv
<1>9. \A i \in Node, k \in Key : store'[i][k].version >= store[i][k].version
    BY <1>7, SameVersion
<1>10. PutsSpread'
    BY <1>7, <1>9, SpreadStays
<1> QED BY <1>6, <1>8, <1>10 DEF IInv

\* A restart needs a process that is down, so that somebody crashed.
LEMMA RestartKeeps == ASSUME IInv, NEW n \in Node, Restart(n) PROVE IInv'
<1>1. now + SyncTicks \in Nat
    BY GossipAssumption DEF IInv, Kept
<1>2. Kept'
    <2>1. next_sync' \in [Node -> Nat] /\ up' \in [Node -> BOOLEAN]
        BY <1>1 DEF Restart, IInv, Kept
    <2> QED BY <2>1 DEF Restart, IInv, Kept
<1>3. /\ written' = written /\ outbox' = outbox /\ peak' = peak
      /\ peak' \in [Node -> Nat] /\ \A m \in Node : peak'[m] >= peak[m]
    BY DEF Restart, IInv, Kept
<1>4. \A s \in outbox' : Sound(s)'
    BY <1>3, SoundStays DEF IInv
<1>5. crashes' # 0
    BY DEF Restart, IInv, PutsSpread
<1>6. PutsSpread'
    BY <1>5 DEF PutsSpread
<1> QED BY <1>2, <1>4, <1>6 DEF IInv

\* A process is down only after a crash, so that a send that fails is no loss before one.
LEMMA SendFailsKeeps == ASSUME IInv, NEW s \in outbox, SendFails(s) PROVE IInv'
<1>1. Kept'
    BY DEF SendFails, IInv, Kept
<1>2. /\ written' = written /\ outbox' \subseteq outbox /\ peak' = peak
      /\ peak' \in [Node -> Nat] /\ \A m \in Node : peak'[m] >= peak[m]
    BY DEF SendFails, IInv, Kept
<1>3. \A t \in outbox' : Sound(t)'
    BY <1>2, SoundStays DEF IInv
<1>4. s.to \in Node
    BY DEF IInv, Sound, Peers
<1>5. crashes' # 0
    BY <1>4 DEF SendFails, IInv, PutsSpread
<1>6. PutsSpread'
    BY <1>5 DEF PutsSpread
<1> QED BY <1>1, <1>3, <1>6 DEF IInv

\* A crash forgets what the process kept and what it had not sent yet.
LEMMA CrashKeeps == ASSUME IInv, NEW n \in Node, Crash(n) PROVE IInv'
<1>1. NoMembers \in Tables /\ DOMAIN NoMembers = {}
    <2>1. {} \in SUBSET Node /\ NoMembers \in [{} -> Record]
        BY DEF NoMembers
    <2> QED BY <2>1, IsTable
<1>2. EmptyStore \in [Key -> Entry] /\ \A k \in Key : EmptyStore[k] = Absent
    BY AbsentIsOldest DEF EmptyStore
<1>3. /\ members \in [Node -> Tables] /\ store \in [Node -> [Key -> Entry]]
      /\ members' = [members EXCEPT ![n] = NoMembers]
      /\ store' = [store EXCEPT ![n] = EmptyStore]
    BY DEF Crash, IInv, Kept
<1>4. /\ members' \in [Node -> Tables] /\ store' \in [Node -> [Key -> Entry]]
      /\ members'[n] = NoMembers /\ store'[n] = EmptyStore
      /\ \A i \in Node \ {n} : members'[i] = members[i] /\ store'[i] = store[i]
    BY <1>1, <1>2, <1>3
<1>5. Kept'
    <2>1. /\ up' \in [Node -> BOOLEAN] /\ heartbeat' \in [Node -> Nat]
          /\ gossiped' \in [Node -> BOOLEAN] /\ next_sync' \in [Node -> Nat]
          /\ crashes' \in Nat
        BY DEF Crash, IInv, Kept
    <2>2. \A m \in Node : heartbeat'[m] <= peak'[m]
        BY DEF Crash, IInv, Kept
    <2>3. \A i \in Node : \A m \in DOMAIN members'[i] : members'[i][m].hb <= peak'[m]
        BY <1>1, <1>4 DEF Crash, IInv, Kept
    <2>4. \A i \in Node, k \in Key : store'[i][k] # Absent => <<k, store'[i][k]>> \in written'
        BY <1>2, <1>4 DEF Crash, IInv, Kept
    <2> QED BY <1>4, <2>1, <2>2, <2>3, <2>4 DEF Crash, IInv, Kept
<1>6. /\ written' = written /\ outbox' \subseteq outbox /\ peak' = peak
      /\ peak' \in [Node -> Nat] /\ \A m \in Node : peak'[m] >= peak[m]
    BY DEF Crash, IInv, Kept
<1>7. \A t \in outbox' : Sound(t)'
    BY <1>6, SoundStays DEF IInv
<1>8. crashes' # 0
    BY DEF Crash, IInv, Kept
<1>9. PutsSpread'
    BY <1>8 DEF PutsSpread
<1> QED BY <1>5, <1>7, <1>9 DEF IInv

\* What a store holds is no later than now.
LEMMA StoredIsPast ==
    ASSUME IInv, NEW n \in Node, NEW k \in Key
    PROVE  /\ now \in Nat \ {0}
           /\ store[n][k] \in Entry /\ store[n][k].version \in Nat
           /\ store[n][k].version <= now
<1>1. store[n][k] \in Entry /\ now \in Nat \ {0}
    BY GossipAssumption DEF IInv, Kept
<1>2. store[n][k].version \in Nat
    BY <1>1, NewerIs
<1>3. CASE store[n][k] = Absent
    BY <1>1, <1>3, AbsentIsOldest
<1>4. CASE store[n][k] # Absent
    <2>1. PICK w \in written : w = <<k, store[n][k]>>
        BY <1>4 DEF IInv, Kept
    <2>2. w[2].version <= now /\ w[2] = store[n][k]
        BY <2>1 DEF IInv, Kept
    <2> QED BY <1>1, <1>2, <2>2
<1> QED BY <1>1, <1>2, <1>3, <1>4

\* Changing one entry of one store leaves the others.
LEMMA StoreAt ==
    ASSUME store \in [Node -> [Key -> Entry]], NEW n \in Node, NEW k \in Key, NEW e \in Entry,
           store' = [store EXCEPT ![n][k] = e]
    PROVE  /\ store' \in [Node -> [Key -> Entry]]
           /\ store'[n][k] = e
           /\ \A i \in Node, j \in Key : i # n \/ j # k => store'[i][j] = store[i][j]
<1>1. store'[n] = [store[n] EXCEPT ![k] = e]
    OBVIOUS
<1>2. store[n] \in [Key -> Entry]
    OBVIOUS
<1>3. store'[n] \in [Key -> Entry] /\ store'[n][k] = e /\ \A j \in Key \ {k} : store'[n][j] = store[n][j]
    BY <1>1, <1>2
<1>4. \A i \in Node \ {n} : store'[i] = store[i]
    OBVIOUS
<1>5. store' \in [Node -> [Key -> Entry]]
    BY <1>3, <1>4
<1> QED BY <1>3, <1>4, <1>5

\* A put stores an entry as new as anything, written now.
LEMMA PutStores ==
    ASSUME IInv, NEW n \in Node, NEW k \in Key, NEW v \in Value, Put(n, k, v),
           NEW e, e = [value |-> v, version |-> now]
    PROVE  /\ e \in Entry \ {Absent} /\ e.version = now
           /\ store' \in [Node -> [Key -> Entry]]
           /\ store'[n][k] = e
           /\ \A i \in Node, j \in Key : i # n \/ j # k => store'[i][j] = store[i][j]
           /\ \A i \in Node, j \in Key : store'[i][j].version >= store[i][j].version
<1>1. now \in 1 .. MaxNow /\ v # NoValue
    BY GossipAssumption DEF IInv, Kept
<1>2. e \in Entry \ {Absent} /\ e.version = now
    BY <1>1 DEF Entry, Absent
<1>3. store' = [store EXCEPT ![n][k] = e] /\ store \in [Node -> [Key -> Entry]] /\ e \in Entry
    BY <1>2 DEF Put, IInv, Kept
<1>4. /\ store' \in [Node -> [Key -> Entry]]
      /\ store'[n][k] = e
      /\ \A i \in Node, j \in Key : i # n \/ j # k => store'[i][j] = store[i][j]
    BY <1>3, StoreAt
<1>5. ASSUME NEW i \in Node, NEW j \in Key PROVE store'[i][j].version >= store[i][j].version
    <2>1. CASE i = n /\ j = k
        <3>1. store[i][j].version \in Nat /\ store[i][j].version <= now /\ now \in Nat
            BY StoredIsPast
        <3>2. store'[i][j].version = now
            BY <1>2, <1>4, <2>1
        <3> QED BY <3>1, <3>2
    <2>2. CASE i # n \/ j # k
        BY <1>4, <2>2, SameVersion
    <2> QED BY <2>1, <2>2
<1> QED BY <1>2, <1>4, <1>5

\* A put is written and sent to every other process.
LEMMA PutKeeps == ASSUME IInv, NEW n \in Node, NEW k \in Key, NEW v \in Value, Put(n, k, v) PROVE IInv'
<1>1. PICK e : e = [value |-> v, version |-> now]
    OBVIOUS
<1>2. /\ e \in Entry \ {Absent} /\ e.version = now
      /\ store' \in [Node -> [Key -> Entry]]
      /\ store'[n][k] = e
      /\ \A i \in Node, j \in Key : i # n \/ j # k => store'[i][j] = store[i][j]
      /\ \A i \in Node, j \in Key : store'[i][j].version >= store[i][j].version
    BY <1>1, PutStores
<1>3. /\ written' = written \cup {<<k, e>>}
      /\ outbox' = outbox \cup {[type |-> "update", from |-> n, to |-> p, key |-> k,
                                 entry |-> e] : p \in Peers(n)}
    BY <1>1 DEF Put
<1>4. now' = now /\ now \in Nat /\ up' = up /\ crashes' = crashes /\ peak' = peak
    BY GossipAssumption DEF Put, IInv, Kept
<1>5. Kept'
    <2>1. written' \subseteq KeyedEntry
        BY <1>2, <1>3 DEF IInv, Kept, KeyedEntry
    <2>2. ASSUME NEW w \in written' PROVE w[2].version <= now'
        <3>1. CASE w \in written
            BY <1>4, <3>1 DEF IInv, Kept
        <3>2. CASE w = <<k, e>>
            <4>1. w[2] = e
                BY <3>2
            <4> QED BY <1>2, <1>4, <4>1
        <3> QED BY <1>3, <3>1, <3>2
    <2>3. ASSUME NEW i \in Node, NEW j \in Key, store'[i][j] # Absent
          PROVE  <<j, store'[i][j]>> \in written'
        <3>1. CASE i = n /\ j = k
            BY <1>2, <1>3, <3>1
        <3>2. CASE i # n \/ j # k
            <4>1. store'[i][j] = store[i][j]
                BY <1>2, <3>2
            <4>2. <<j, store[i][j]>> \in written
                BY <2>3, <4>1 DEF IInv, Kept
            <4> QED BY <1>3, <4>1, <4>2
        <3> QED BY <3>1, <3>2
    <2> QED BY <1>2, <2>1, <2>2, <2>3 DEF Put, IInv, Kept
<1>6. ASSUME NEW s \in outbox PROVE Sound(s)'
    <2>1. Sound(s) /\ written \subseteq written' /\ peak' \in [Node -> Nat]
          /\ \A m \in Node : peak'[m] >= peak[m]
        BY <1>3, <1>4 DEF IInv, Kept
    <2> QED BY <2>1, SoundStays
<1>7. ASSUME NEW p \in Peers(n), NEW s,
             s = [type |-> "update", from |-> n, to |-> p, key |-> k, entry |-> e]
      PROVE  Sound(s)'
    <2>1. /\ s.type = "update" /\ s.type # "state" /\ s.from = n /\ s.to = p
          /\ s.key = k /\ s.entry = e
        BY <1>7
    <2>2. <<k, e>> \in written'
        BY <1>3
    <2> QED BY <1>2, <2>1, <2>2 DEF Sound, Peers
<1>8. \A s \in outbox' : Sound(s)'
    BY <1>3, <1>6, <1>7
<1>9. PutsSpread'
    <2> SUFFICES ASSUME crashes = 0
                 PROVE  /\ \A i \in Node : up[i]
                        /\ \A w \in written', p \in Node : WillHave(p, w[1], w[2].version)'
        BY <1>4 DEF PutsSpread
    <2>1. \A i \in Node : up[i]
        BY DEF IInv, PutsSpread
    <2>2. ASSUME NEW w \in written, NEW p \in Node PROVE WillHave(p, w[1], w[2].version)'
        <3>1. w[1] \in Key /\ w[2] \in Entry
            BY DEF IInv, Kept, KeyedEntry
        <3>2. w[2].version \in Nat
            BY <3>1, NewerIs
        <3>3. WillHave(p, w[1], w[2].version)
            BY DEF IInv, PutsSpread
        <3>4. CASE store[p][w[1]].version >= w[2].version
            <4>1. store[p][w[1]] \in Entry /\ store'[p][w[1]] \in Entry
                BY <1>2, <3>1 DEF IInv, Kept
            <4>2. store[p][w[1]].version \in Nat /\ store'[p][w[1]].version \in Nat
                BY <4>1, NewerIs
            <4>3. store'[p][w[1]].version >= store[p][w[1]].version
                BY <1>2, <3>1
            <4>4. store'[p][w[1]].version >= w[2].version
                BY <3>2, <3>4, <4>2, <4>3
            <4> QED BY <4>4 DEF WillHave
        <3>5. CASE \E s \in outbox : /\ s.type = "update" /\ s.to = p /\ s.key = w[1]
                                     /\ s.entry.version >= w[2].version
            BY <1>3, <3>5 DEF WillHave
        <3> QED BY <3>3, <3>4, <3>5 DEF WillHave
    <2>3. ASSUME NEW p \in Node PROVE WillHave(p, k, now)'
        <3>1. CASE p = n
            BY <1>2, <1>4, <3>1 DEF WillHave
        <3>2. CASE p # n
            <4>1. PICK s : s = [type |-> "update", from |-> n, to |-> p, key |-> k, entry |-> e]
                OBVIOUS
            <4>2. s \in outbox'
                BY <1>3, <3>2, <4>1 DEF Peers
            <4>3. s.type = "update" /\ s.to = p /\ s.key = k /\ s.entry = e
                BY <4>1
            <4>4. s.entry.version >= now
                BY <1>2, <1>4, <4>3
            <4> QED BY <1>4, <4>2, <4>3, <4>4 DEF WillHave
        <3> QED BY <3>1, <3>2
    <2>4. ASSUME NEW w, w = <<k, e>>, NEW p \in Node PROVE WillHave(p, w[1], w[2].version)'
        <3>1. w[1] = k /\ w[2] = e /\ w[2].version = now
            BY <1>2, <2>4
        <3> QED BY <1>4, <2>3, <3>1
    <2> QED BY <1>3, <2>1, <2>2, <2>4
<1> QED BY <1>5, <1>8, <1>9 DEF IInv

\* An update is merged into the store of its receiver only.
LEMMA UpdateStores ==
    ASSUME IInv, NEW s \in outbox, HandleUpdate(s)
    PROVE  /\ s.to \in Node /\ s.key \in Key /\ s.entry \in Entry
           /\ store' \in [Node -> [Key -> Entry]]
           /\ store'[s.to][s.key] \in {store[s.to][s.key], s.entry}
           /\ store'[s.to][s.key].version >= s.entry.version
           /\ \A i \in Node, j \in Key : i # s.to \/ j # s.key => store'[i][j] = store[i][j]
           /\ \A i \in Node, j \in Key : store'[i][j].version >= store[i][j].version
<1>1. s.to \in Node /\ s.key \in Key /\ s.entry \in Entry
    BY DEF HandleUpdate, IInv, Sound, Peers
<1>2. PICK n \in Node, k \in Key : n = s.to /\ k = s.key
    BY <1>1
<1>3. store \in [Node -> [Key -> Entry]] /\ store[n][k] \in Entry
    BY DEF IInv, Kept
<1>4. PICK e : e = Newer(store[n][k], s.entry)
    OBVIOUS
<1>5. /\ e \in {store[n][k], s.entry} /\ e \in Entry
      /\ e.version >= store[n][k].version /\ e.version >= s.entry.version
    BY <1>1, <1>3, <1>4, NewerIs
<1>6. store' = [store EXCEPT ![n][k] = e]
    BY <1>2, <1>4 DEF HandleUpdate
<1>7. /\ store' \in [Node -> [Key -> Entry]]
      /\ store'[n][k] = e
      /\ \A i \in Node, j \in Key : i # n \/ j # k => store'[i][j] = store[i][j]
    BY <1>3, <1>5, <1>6, StoreAt
<1>8. ASSUME NEW i \in Node, NEW j \in Key PROVE store'[i][j].version >= store[i][j].version
    <2>1. CASE i = n /\ j = k
        BY <1>5, <1>7, <2>1
    <2>2. CASE i # n \/ j # k
        BY <1>7, <2>2, SameVersion
    <2> QED BY <2>1, <2>2
<1> QED BY <1>1, <1>2, <1>5, <1>7, <1>8

\* An update is gone when its receiver is as new.
LEMMA HandleUpdateKeeps == ASSUME IInv, NEW s \in outbox, HandleUpdate(s) PROVE IInv'
<1>1. /\ s.to \in Node /\ s.key \in Key /\ s.entry \in Entry
      /\ store' \in [Node -> [Key -> Entry]]
      /\ store'[s.to][s.key] \in {store[s.to][s.key], s.entry}
      /\ store'[s.to][s.key].version >= s.entry.version
      /\ \A i \in Node, j \in Key : i # s.to \/ j # s.key => store'[i][j] = store[i][j]
      /\ \A i \in Node, j \in Key : store'[i][j].version >= store[i][j].version
    BY UpdateStores
<1>2. /\ s.type = "update" /\ outbox' = outbox \ {s} /\ written' = written /\ peak' = peak
      /\ up' = up /\ crashes' = crashes
      /\ peak' \in [Node -> Nat] /\ \A m \in Node : peak'[m] >= peak[m]
    BY DEF HandleUpdate, Deliver, IInv, Kept
<1>3. <<s.key, s.entry>> \in written
    BY <1>2 DEF IInv, Sound
<1>4. ASSUME NEW i \in Node, NEW j \in Key, store'[i][j] # Absent
      PROVE  <<j, store'[i][j]>> \in written
    <2>1. CASE store'[i][j] = store[i][j]
        BY <1>4, <2>1 DEF IInv, Kept
    <2>2. CASE i = s.to /\ j = s.key
        BY <1>1, <1>3, <2>1, <2>2
    <2> QED BY <1>1, <2>1, <2>2
<1>5. Kept'
    BY <1>1, <1>2, <1>4 DEF HandleUpdate, Deliver, IInv, Kept
<1>6. \A t \in outbox' : Sound(t)'
    BY <1>2, SoundStays DEF IInv
<1>7. PutsSpread'
    BY <1>1, <1>2, SpreadStays
<1> QED BY <1>5, <1>6, <1>7 DEF IInv

\* The sender's store is merged into the one of the receiver.
LEMMA StateStores ==
    ASSUME IInv, NEW s \in outbox, HandleState(s)
    PROVE  /\ store' \in [Node -> [Key -> Entry]]
           /\ \A i \in Node, j \in Key : \/ store'[i][j] = store[i][j]
                                         \/ store'[i][j] = store[s.from][j]
           /\ \A i \in Node, j \in Key : store'[i][j].version >= store[i][j].version
<1>1. s.from \in Node /\ s.to \in Node
    BY DEF IInv, Sound, Peers
<1>2. store \in [Node -> [Key -> Entry]]
    BY DEF IInv, Kept
<1>3. PICK t : t = MergeStore(store[s.to], store[s.from])
    OBVIOUS
<1>4. store' = [store EXCEPT ![s.to] = t]
    BY <1>3 DEF HandleState
<1>5. ASSUME NEW j \in Key
      PROVE  /\ t[j] \in Entry /\ t[j] \in {store[s.to][j], store[s.from][j]}
             /\ t[j].version >= store[s.to][j].version
    <2>1. store[s.to][j] \in Entry /\ store[s.from][j] \in Entry
        BY <1>1, <1>2
    <2>2. t[j] = Newer(store[s.to][j], store[s.from][j])
        BY <1>3 DEF MergeStore
    <2> QED BY <2>1, <2>2, NewerIs
<1>6. t \in [Key -> Entry]
    BY <1>3, <1>5 DEF MergeStore
<1>7. /\ store' \in [Node -> [Key -> Entry]] /\ store'[s.to] = t
      /\ \A i \in Node \ {s.to} : store'[i] = store[i]
    BY <1>1, <1>2, <1>4, <1>6
<1>8. ASSUME NEW i \in Node, NEW j \in Key
      PROVE  /\ store'[i][j] = store[i][j] \/ store'[i][j] = store[s.from][j]
             /\ store'[i][j].version >= store[i][j].version
    <2>1. CASE i = s.to
        BY <1>5, <1>7, <2>1
    <2>2. CASE i # s.to
        BY <1>7, <2>2, SameVersion
    <2> QED BY <2>1, <2>2
<1> QED BY <1>7, <1>8

\* The heartbeats of a message are merged into the table of its receiver.
LEMMA StateMembers ==
    ASSUME IInv, NEW s \in outbox, HandleState(s)
    PROVE  /\ s.type = "state" /\ s.to \in Node
           /\ members' \in [Node -> Tables]
           /\ \A i \in Node \ {s.to} : members'[i] = members[i]
           /\ DOMAIN members'[s.to] = DOMAIN members[s.to] \cup DOMAIN s.members
           /\ \A m \in DOMAIN members'[s.to] :
                 \/ (m \in DOMAIN members[s.to] /\ members'[s.to][m].hb = members[s.to][m].hb)
                 \/ (m \in DOMAIN s.members /\ members'[s.to][m].hb <= s.members[m])
           /\ \A m \in DOMAIN members[s.to] : members'[s.to][m].status = members[s.to][m].status
<1>1. s.type = "state" /\ s.to \in Node
    BY DEF HandleState, IInv, Sound, Peers
<1>2. members \in [Node -> Tables]
    BY DEF IInv, Kept
<1>3. PICK mine \in Tables : mine = members[s.to]
    BY <1>1, <1>2
<1>4. PICK theirs : theirs = s.members
    OBVIOUS
<1>5. DOMAIN theirs \subseteq Node /\ theirs \in [DOMAIN theirs -> Nat]
    BY <1>1, <1>4 DEF IInv, Sound
<1>6. PICK merged : merged = MergeMembers(mine, theirs)
    OBVIOUS
<1>7. /\ merged \in Tables
      /\ DOMAIN merged = DOMAIN mine \cup DOMAIN theirs
      /\ \A m \in DOMAIN merged :
            \/ (m \in DOMAIN mine /\ merged[m].hb = mine[m].hb)
            \/ (m \in DOMAIN theirs /\ merged[m].hb <= theirs[m])
      /\ \A m \in DOMAIN mine : merged[m].status = mine[m].status
    BY <1>5, <1>6, MergeIs
<1>8. members' = [members EXCEPT ![s.to] = merged]
    BY <1>3, <1>4, <1>6 DEF HandleState
<1>9. /\ members' \in [Node -> Tables] /\ members'[s.to] = merged
      /\ \A i \in Node \ {s.to} : members'[i] = members[i]
    BY <1>1, <1>2, <1>7, <1>8
<1> QED BY <1>1, <1>3, <1>4, <1>7, <1>9

\* A state message merges what was reached and what was put.
LEMMA HandleStateKeeps == ASSUME IInv, NEW s \in outbox, HandleState(s) PROVE IInv'
<1>1. /\ s.type = "state" /\ s.to \in Node
      /\ members' \in [Node -> Tables]
      /\ \A i \in Node \ {s.to} : members'[i] = members[i]
      /\ \A m \in DOMAIN members'[s.to] :
            \/ (m \in DOMAIN members[s.to] /\ members'[s.to][m].hb = members[s.to][m].hb)
            \/ (m \in DOMAIN s.members /\ members'[s.to][m].hb <= s.members[m])
    BY StateMembers
<1>2. /\ store' \in [Node -> [Key -> Entry]]
      /\ \A i \in Node, j \in Key : store'[i][j] = store[i][j] \/ store'[i][j] = store[s.from][j]
      /\ \A i \in Node, j \in Key : store'[i][j].version >= store[i][j].version
    BY StateStores
<1>3. /\ outbox' = outbox \ {s} /\ written' = written /\ peak' = peak
      /\ up' = up /\ crashes' = crashes
      /\ peak' \in [Node -> Nat] /\ \A m \in Node : peak'[m] >= peak[m]
    BY DEF HandleState, Deliver, IInv, Kept
<1>4. s.from \in Node /\ DOMAIN s.members \subseteq Node
      /\ s.members \in [DOMAIN s.members -> Nat]
      /\ \A m \in DOMAIN s.members : s.members[m] <= peak[m]
    BY <1>1 DEF IInv, Sound
<1>5. ASSUME NEW i \in Node, NEW j \in Key, store'[i][j] # Absent
      PROVE  <<j, store'[i][j]>> \in written
    <2>1. CASE store'[i][j] = store[i][j]
        BY <1>5, <2>1 DEF IInv, Kept
    <2>2. CASE store'[i][j] = store[s.from][j]
        BY <1>4, <1>5, <2>2 DEF IInv, Kept
    <2> QED BY <1>2, <2>1, <2>2
<1>6. ASSUME NEW i \in Node, NEW m \in DOMAIN members'[i] PROVE members'[i][m].hb <= peak[m]
    <2>1. CASE i # s.to
        BY <1>1, <2>1 DEF IInv, Kept
    <2>2. CASE i = s.to
        <3>1. CASE m \in DOMAIN members[i] /\ members'[i][m].hb = members[i][m].hb
            BY <3>1 DEF IInv, Kept
        <3>2. CASE m \in DOMAIN s.members /\ members'[i][m].hb <= s.members[m]
            <4>1. members'[i] \in Tables
                BY <1>1
            <4>2. members'[i][m].hb \in Nat /\ m \in Node
                BY <4>1, TableIs
            <4>3. s.members[m] \in Nat /\ s.members[m] <= peak[m] /\ peak[m] \in Nat
                BY <1>4, <3>2, <4>2 DEF IInv, Kept
            <4> QED BY <3>2, <4>2, <4>3
        <3> QED BY <1>1, <2>2, <3>1, <3>2
    <2> QED BY <2>1, <2>2
<1>7. Kept'
    BY <1>1, <1>2, <1>3, <1>5, <1>6 DEF HandleState, Deliver, IInv, Kept
<1>8. \A t \in outbox' : Sound(t)'
    BY <1>3, SoundStays DEF IInv
<1>9. PutsSpread'
    <2>1. \A t \in outbox : t.type = "update" => t \in outbox'
        BY <1>1, <1>3
    <2> QED BY <1>2, <1>3, <2>1, SpreadStays
<1> QED BY <1>7, <1>8, <1>9 DEF IInv

\* A step that changes nothing keeps the invariant.
LEMMA StutterKeeps == ASSUME IInv, UNCHANGED vars PROVE IInv'
<1>1. Kept'
    BY DEF vars, IInv, Kept
<1>2. \A s \in outbox' : Sound(s)'
    BY DEF vars, IInv, Sound, Peers
<1>3. PutsSpread'
    BY DEF vars, IInv, PutsSpread, WillHave
<1> QED BY <1>1, <1>2, <1>3 DEF IInv

\* Every step keeps the invariant.
LEMMA StepKeeps == IInv /\ [Next]_vars => IInv'
<1> SUFFICES ASSUME IInv, [Next]_vars PROVE IInv'
    OBVIOUS
<1>1. CASE UNCHANGED vars
    BY <1>1, StutterKeeps
<1>2. ASSUME NEW n \in Node, GossipRound(n) PROVE IInv'
    BY <1>2, GossipRoundKeeps
<1>3. ASSUME NEW n \in Node, AntiEntropy(n) PROVE IInv'
    BY <1>3, AntiEntropyKeeps
<1>4. ASSUME NEW n \in Node, HealthCheck(n) PROVE IInv'
    BY <1>4, HealthCheckKeeps
<1>5. ASSUME NEW n \in Node, Crash(n) PROVE IInv'
    BY <1>5, CrashKeeps
<1>6. ASSUME NEW n \in Node, Restart(n) PROVE IInv'
    BY <1>6, RestartKeeps
<1>7. ASSUME NEW n \in Node, NEW k \in Key, NEW v \in Value, Put(n, k, v) PROVE IInv'
    BY <1>7, PutKeeps
<1>8. ASSUME NEW s \in outbox, HandleState(s) PROVE IInv'
    BY <1>8, HandleStateKeeps
<1>9. ASSUME NEW s \in outbox, HandleUpdate(s) PROVE IInv'
    BY <1>9, HandleUpdateKeeps
<1>10. ASSUME NEW s \in outbox, SendFails(s) PROVE IInv'
    BY <1>10, SendFailsKeeps
<1>11. CASE Tick
    BY <1>11, TickKeeps
<1> QED
    BY <1>1, <1>2, <1>3, <1>4, <1>5, <1>6, <1>7, <1>8, <1>9, <1>10, <1>11 DEF Next

\* The invariant holds in every behaviour.
LEMMA InvAlways == Spec => []IInv
BY InvInit, StepKeeps, PTL DEF Spec
-----------------------------------------------------------------------------
(* What a step does to members *)

\* The health checker keeps heartbeats and never finds anybody alive.
LEMMA CheckedMembers ==
    ASSUME IInv, NEW n \in Node, HealthCheck(n), NEW i \in Node
    PROVE  /\ DOMAIN members'[i] = DOMAIN members[i]
           /\ \A m \in DOMAIN members[i] :
                 /\ members'[i][m].hb = members[i][m].hb
                 /\ members[i][m].status # "alive" => members'[i][m].status # "alive"
<1>1. members \in [Node -> Tables] /\ members[n] \in Tables
    BY DEF IInv, Kept
<1>2. PICK t : t = [m \in DOMAIN members[n] |->
           [members[n][m] EXCEPT !.status = IF members[n][m].age > DeadTicks THEN "dead"
                                            ELSE IF members[n][m].age > SuspectTicks
                                                 THEN "suspect" ELSE @]]
    OBVIOUS
<1>3. members' = [members EXCEPT ![n] = t]
    BY <1>2 DEF HealthCheck
<1>4. ASSUME NEW m \in DOMAIN members[n]
      PROVE  /\ t[m].hb = members[n][m].hb
             /\ members[n][m].status # "alive" => t[m].status # "alive"
    <2>1. members[n][m] \in Record
        BY <1>1, TableIs
    <2> QED BY <1>2, <2>1 DEF Record
<1>5. DOMAIN t = DOMAIN members[n]
    BY <1>2
<1>6. members'[n] = t /\ (i # n => members'[i] = members[i])
    BY <1>1, <1>3
<1>7. CASE i = n
    BY <1>4, <1>5, <1>6, <1>7
<1>8. CASE i # n
    BY <1>6, <1>8
<1> QED BY <1>7, <1>8

\* The clock keeps heartbeats and verdicts.
LEMMA OlderMembers ==
    ASSUME IInv, Tick, NEW i \in Node
    PROVE  /\ DOMAIN members'[i] = DOMAIN members[i]
           /\ \A m \in DOMAIN members[i] : /\ members'[i][m].hb = members[i][m].hb
                                           /\ members'[i][m].status = members[i][m].status
<1>1. members[i] \in Tables
    BY DEF IInv, Kept
<1>2. members'[i] = [m \in DOMAIN members[i] |->
           [members[i][m] EXCEPT !.age = IF @ > DeadTicks THEN @ ELSE @ + 1]]
    BY DEF Tick
<1>3. \A m \in DOMAIN members[i] : members[i][m] \in Record
    BY <1>1, TableIs
<1> QED BY <1>2, <1>3 DEF Record

\* A crash forgets all members.
LEMMA ForgottenMembers ==
    ASSUME IInv, NEW n \in Node, Crash(n), NEW i \in Node
    PROVE  IF i = n THEN DOMAIN members'[i] = {} ELSE members'[i] = members[i]
<1>1. members \in [Node -> Tables] /\ members' = [members EXCEPT ![n] = NoMembers]
    BY DEF Crash, IInv, Kept
<1>2. DOMAIN NoMembers = {}
    BY DEF NoMembers
<1> QED BY <1>1, <1>2

\* No step of a process that goes on makes a member alive again.
LEMMA StepKeepsVerdict ==
    ASSUME IInv, [Next]_vars, NEW n \in Node, up'[n], NEW m \in DOMAIN members[n],
           members[n][m].status # "alive"
    PROVE  members'[n][m].status # "alive"
<1>1. CASE members' = members
    BY <1>1
<1>2. ASSUME NEW i \in Node, HealthCheck(i) PROVE members'[n][m].status # "alive"
    BY <1>2, CheckedMembers
<1>3. ASSUME NEW i \in Node, Crash(i) PROVE members'[n][m].status # "alive"
    <2>1. i # n
        BY <1>3 DEF Crash, IInv, Kept
    <2> QED BY <1>3, <2>1, ForgottenMembers
<1>4. ASSUME NEW s \in outbox, HandleState(s) PROVE members'[n][m].status # "alive"
    <2>1. /\ \A j \in Node \ {s.to} : members'[j] = members[j]
          /\ \A j \in DOMAIN members[s.to] :
                members'[s.to][j].status = members[s.to][j].status
        BY <1>4, StateMembers
    <2> QED BY <2>1
<1>5. CASE Tick
    BY <1>5, OlderMembers
<1>6. ASSUME NEW i \in Node, NEW k \in Key, NEW v \in Value, Put(i, k, v)
      PROVE  members' = members
    BY <1>6 DEF Put
<1>7. ASSUME NEW i \in Node, GossipRound(i) \/ AntiEntropy(i) \/ Restart(i)
      PROVE  members' = members
    BY <1>7 DEF GossipRound, AntiEntropy, Restart
<1>8. ASSUME NEW s \in outbox, HandleUpdate(s) \/ SendFails(s) PROVE members' = members
    BY <1>8 DEF HandleUpdate, SendFails
<1>9. CASE UNCHANGED vars
    BY <1>9 DEF vars
<1> QED
    BY <1>1, <1>2, <1>3, <1>4, <1>5, <1>6, <1>7, <1>8, <1>9 DEF Next

\* No step of a process that goes on takes an entry back to an older version.
LEMMA StepKeepsVersions ==
    ASSUME IInv, [Next]_vars, NEW n \in Node, NEW k \in Key, up'[n]
    PROVE  store'[n][k].version >= store[n][k].version
<1>1. CASE store' = store
    BY <1>1, SameVersion
<1>2. ASSUME NEW i \in Node, NEW j \in Key, NEW v \in Value, Put(i, j, v)
      PROVE  store'[n][k].version >= store[n][k].version
    BY <1>2, PutStores
<1>3. ASSUME NEW i \in Node, Crash(i) PROVE store'[n][k].version >= store[n][k].version
    <2>1. store' = [store EXCEPT ![i] = EmptyStore] /\ store \in [Node -> [Key -> Entry]]
        BY <1>3 DEF Crash, IInv, Kept
    <2>2. i # n
        BY <1>3 DEF Crash, IInv, Kept
    <2>3. store'[n] = store[n]
        BY <2>1, <2>2
    <2> QED BY <2>3, SameVersion
<1>4. ASSUME NEW s \in outbox, HandleState(s) PROVE store'[n][k].version >= store[n][k].version
    BY <1>4, StateStores
<1>5. ASSUME NEW s \in outbox, HandleUpdate(s) PROVE store'[n][k].version >= store[n][k].version
    BY <1>5, UpdateStores
<1>6. ASSUME NEW i \in Node,
             GossipRound(i) \/ AntiEntropy(i) \/ HealthCheck(i) \/ Restart(i)
      PROVE  store' = store
    BY <1>6 DEF GossipRound, AntiEntropy, HealthCheck, Restart
<1>7. ASSUME NEW s \in outbox, SendFails(s) PROVE store' = store
    BY <1>7 DEF SendFails
<1>8. CASE Tick
    BY <1>1, <1>8 DEF Tick
<1>9. CASE UNCHANGED vars
    BY <1>1, <1>9 DEF vars
<1> QED
    BY <1>1, <1>2, <1>3, <1>4, <1>5, <1>6, <1>7, <1>8, <1>9 DEF Next
-----------------------------------------------------------------------------
(* What circulates of a process that heard its echo *)

\* Something at least as new as h circulates of m.
Known(m, h) == \E g \in Circulating(m) : h <= g

\* What is kept or carried is known.
LEMMA CirculatingIsKnown ==
    ASSUME IInv, NEW m \in Node
    PROVE  /\ \A i \in Node : m \in DOMAIN members[i] => Known(m, members[i][m].hb)
           /\ \A s \in outbox : s.type = "state" /\ m \in DOMAIN s.members
                  => Known(m, s.members[m])
<1>1. ASSUME NEW i \in Node, m \in DOMAIN members[i] PROVE Known(m, members[i][m].hb)
    <2>1. members[i] \in Tables
        BY DEF IInv, Kept
    <2>2. members[i][m].hb \in Nat
        BY <1>1, <2>1, TableIs
    <2>3. members[i][m].hb <= members[i][m].hb
        BY <2>2
    <2>4. members[i][m].hb \in Circulating(m)
        BY <1>1 DEF Circulating
    <2> QED BY <2>3, <2>4 DEF Known
<1>2. ASSUME NEW s \in outbox, s.type = "state", m \in DOMAIN s.members
      PROVE  Known(m, s.members[m])
    <2>1. s.members[m] \in Nat
        BY <1>2 DEF IInv, Sound
    <2>2. s.members[m] <= s.members[m]
        BY <2>1
    <2>3. s.members[m] \in Circulating(m)
        BY <1>2 DEF Circulating
    <2> QED BY <2>2, <2>3 DEF Known
<1> QED BY <1>1, <1>2

\* When all that is kept and carried after a step was known before it, nothing new of m
\* circulates.
LEMMA NothingNew ==
    ASSUME NEW m \in Node,
           \A i \in Node : m \in DOMAIN members'[i] => Known(m, members'[i][m].hb),
           \A s \in outbox' : s.type = "state" /\ m \in DOMAIN s.members
               => Known(m, s.members[m])
    PROVE  \A h \in Circulating(m)' : Known(m, h)
<1> SUFFICES ASSUME NEW h \in Circulating(m)' PROVE Known(m, h)
    OBVIOUS
<1>1. CASE h \in {members'[i][m].hb : i \in {j \in Node : m \in DOMAIN members'[j]}}
    BY <1>1
<1>2. CASE h \in {s.members[m] : s \in {t \in outbox' : t.type = "state" /\ m \in DOMAIN t.members}}
    BY <1>2
<1> QED BY <1>1, <1>2 DEF Circulating

\* The payloads of a process that heard its echo repeat what it keeps.
LEMMA PayloadIsKnown ==
    ASSUME IInv, NEW n \in Node, NEW m \in Node, m \in DOMAIN members[m], NEW h \in Nat,
           NEW sent, sent = Payload(n, h), m \in DOMAIN sent
    PROVE  Known(m, sent[m])
<1>1. members[n] \in Tables
    BY DEF IInv, Kept
<1>2. DOMAIN sent = DOMAIN members[n] \cup {n}
    BY <1>1, PayloadIs
<1>3. m \in DOMAIN members[n]
    BY <1>2
<1>4. sent[m] = members[n][m].hb
    BY <1>3 DEF Payload
<1> QED BY <1>3, <1>4, CirculatingIsKnown

\* No step lets anything new circulate of a process that heard its echo.
LEMMA StepSaysNothingNew ==
    ASSUME IInv, [Next]_vars, NEW m \in Node, m \in DOMAIN members[m]
    PROVE  \A h \in Circulating(m)' : Known(m, h)
<1>1. ASSUME members' = members, outbox' \subseteq outbox
      PROVE  \A h \in Circulating(m)' : Known(m, h)
    BY <1>1, CirculatingIsKnown, NothingNew
<1>2. ASSUME NEW n \in Node, GossipRound(n) PROVE \A h \in Circulating(m)' : Known(m, h)
    <2>1. PICK h : h = heartbeat[n] + 1 /\ h \in Nat
        BY DEF IInv, Kept
    <2>2. PICK p \in Peers(n) :
              outbox' = outbox \cup {[type |-> "state", from |-> n, to |-> p,
                                     members |-> Payload(n, h)]}
        BY <1>2, <2>1 DEF GossipRound
    <2>3. ASSUME NEW s \in outbox', s.type = "state", m \in DOMAIN s.members
          PROVE  Known(m, s.members[m])
        <3>1. CASE s \in outbox
            BY <2>3, <3>1, CirculatingIsKnown
        <3>2. CASE s \notin outbox
            <4>1. s.members = Payload(n, h)
                BY <2>2, <3>2
            <4> QED BY <2>1, <2>3, <4>1, PayloadIsKnown
        <3> QED BY <3>1, <3>2
    <2>4. members' = members
        BY <1>2 DEF GossipRound
    <2> QED BY <2>3, <2>4, CirculatingIsKnown, NothingNew
<1>3. ASSUME NEW n \in Node, AntiEntropy(n) PROVE \A h \in Circulating(m)' : Known(m, h)
    <2>1. PICK h : h = heartbeat[n] /\ h \in Nat
        BY DEF IInv, Kept
    <2>2. outbox' = outbox \cup {[type |-> "state", from |-> n, to |-> p,
                                  members |-> Payload(n, h)] : p \in Peers(n)}
        BY <1>3, <2>1 DEF AntiEntropy
    <2>3. ASSUME NEW s \in outbox', s.type = "state", m \in DOMAIN s.members
          PROVE  Known(m, s.members[m])
        <3>1. CASE s \in outbox
            BY <2>3, <3>1, CirculatingIsKnown
        <3>2. CASE s \notin outbox
            <4>1. s.members = Payload(n, h)
                BY <2>2, <3>2
            <4> QED BY <2>1, <2>3, <4>1, PayloadIsKnown
        <3> QED BY <3>1, <3>2
    <2>4. members' = members
        BY <1>3 DEF AntiEntropy
    <2> QED BY <2>3, <2>4, CirculatingIsKnown, NothingNew
<1>4. ASSUME outbox' \subseteq outbox,
             \A i \in Node : /\ DOMAIN members'[i] = DOMAIN members[i]
                             /\ \A j \in DOMAIN members[i] : members'[i][j].hb = members[i][j].hb
      PROVE  \A h \in Circulating(m)' : Known(m, h)
    BY <1>4, CirculatingIsKnown, NothingNew
<1>5. ASSUME NEW n \in Node, HealthCheck(n) PROVE \A h \in Circulating(m)' : Known(m, h)
    <2>1. outbox' \subseteq outbox
        BY <1>5 DEF HealthCheck
    <2> QED BY <1>4, <1>5, <2>1, CheckedMembers
<1>6. CASE Tick
    <2>1. outbox' \subseteq outbox
        BY <1>6 DEF Tick
    <2> QED BY <1>4, <1>6, <2>1, OlderMembers
<1>7. ASSUME NEW n \in Node, Crash(n) PROVE \A h \in Circulating(m)' : Known(m, h)
    <2>1. outbox' \subseteq outbox
        BY <1>7 DEF Crash
    <2>2. \A i \in Node : m \in DOMAIN members'[i] => Known(m, members'[i][m].hb)
        BY <1>7, ForgottenMembers, CirculatingIsKnown
    <2> QED BY <2>1, <2>2, CirculatingIsKnown, NothingNew
<1>8. ASSUME NEW s \in outbox, HandleState(s) PROVE \A h \in Circulating(m)' : Known(m, h)
    <2>1. outbox' \subseteq outbox
        BY <1>8 DEF HandleState, Deliver
    <2>2. /\ s.type = "state" /\ s.to \in Node
          /\ members' \in [Node -> Tables]
          /\ \A i \in Node \ {s.to} : members'[i] = members[i]
          /\ \A j \in DOMAIN members'[s.to] :
                \/ (j \in DOMAIN members[s.to] /\ members'[s.to][j].hb = members[s.to][j].hb)
                \/ (j \in DOMAIN s.members /\ members'[s.to][j].hb <= s.members[j])
        BY <1>8, StateMembers
    <2>3. ASSUME NEW i \in Node, m \in DOMAIN members'[i] PROVE Known(m, members'[i][m].hb)
        <3>1. CASE i # s.to
            BY <2>2, <2>3, <3>1, CirculatingIsKnown
        <3>2. CASE m \in DOMAIN members[i] /\ members'[i][m].hb = members[i][m].hb
            BY <3>2, CirculatingIsKnown
        <3>3. CASE m \in DOMAIN s.members /\ members'[i][m].hb <= s.members[m]
            <4>1. s.members[m] \in Circulating(m) /\ members'[i][m].hb <= s.members[m]
                BY <2>2, <3>3 DEF Circulating
            <4> QED BY <4>1 DEF Known
        <3> QED BY <2>2, <2>3, <3>1, <3>2, <3>3
    <2> QED BY <2>1, <2>3, CirculatingIsKnown, NothingNew
<1>9. ASSUME NEW s \in outbox, HandleUpdate(s) \/ SendFails(s)
      PROVE  \A h \in Circulating(m)' : Known(m, h)
    <2>1. members' = members /\ outbox' \subseteq outbox
        BY <1>9 DEF HandleUpdate, SendFails, Deliver
    <2> QED BY <1>1, <2>1
<1>10. ASSUME NEW n \in Node, NEW k \in Key, NEW v \in Value, Put(n, k, v)
       PROVE  \A h \in Circulating(m)' : Known(m, h)
    <2>1. members' = members
        BY <1>10 DEF Put
    <2>2. \A s \in outbox' : s \in outbox \/ s.type = "update"
        BY <1>10 DEF Put
    <2>3. ASSUME NEW s \in outbox', s.type = "state", m \in DOMAIN s.members
          PROVE  Known(m, s.members[m])
        <3>1. s \in outbox
            BY <2>2, <2>3
        <3> QED BY <2>3, <3>1, CirculatingIsKnown
    <2> QED BY <2>1, <2>3, CirculatingIsKnown, NothingNew
<1>11. ASSUME NEW n \in Node, Restart(n) PROVE \A h \in Circulating(m)' : Known(m, h)
    <2>1. members' = members /\ outbox' \subseteq outbox
        BY <1>11 DEF Restart
    <2> QED BY <1>1, <2>1
<1>12. CASE UNCHANGED vars
    <2>1. members' = members /\ outbox' \subseteq outbox
        BY <1>12 DEF vars
    <2> QED BY <1>1, <2>1
<1> QED
    BY <1>2, <1>3, <1>5, <1>6, <1>7, <1>8, <1>9, <1>10, <1>11, <1>12 DEF Next
-----------------------------------------------------------------------------
(* Theorems *)

\* Clocks, heartbeats, tables, stores and messages have their types, in particular no
\* message carries an absent entry (GossipNode).
THEOREM TypeCorrect == Spec => []TypeOK
BY InvAlways, InvImplies, PTL

\* Nobody ever hears of a heartbeat that its owner did not reach (_handle_gossip,
\* _handle_sync), however many processes there are and however often they restart.
THEOREM OnlyReachedIsHeard == Spec => []HeartbeatWasReached
BY InvAlways, InvImplies, PTL

\* No store and no update holds an entry that was not put under its key (_handle_gossip,
\* _handle_sync, _handle_kv_update).
THEOREM OnlyPutIsStored == Spec => []EntriesWerePut
BY InvAlways, InvImplies, PTL

\* When nobody crashed and nothing is on its way, all stores agree up to two puts of one
\* version (put, _handle_kv_update): no put is lost, whatever overtakes it.
THEOREM QuietStoresAgree == Spec => []QuietAgreement
BY InvAlways, InvImplies, PTL

\* No process that goes on takes a key back to an older version (put, which compares
\* nothing, _handle_gossip, _handle_sync, _handle_kv_update).
THEOREM NeverOlder == Spec => VersionsGrow
<1>1. IInv /\ [Next]_vars => [\A n \in Node, k \in Key :
          up'[n] => store'[n][k].version >= store[n][k].version]_vars
    BY StepKeepsVersions
<1> QED BY <1>1, InvAlways, PTL DEF Spec, VersionsGrow

\* No process that goes on finds a member alive again that it had suspected or given up
\* (_health_checker, _handle_gossip).
THEOREM NeverAliveAgain == Spec => VerdictIsFinal
<1>1. IInv /\ [Next]_vars => [\A n \in Node : up'[n] => \A m \in DOMAIN members[n] :
          members[n][m].status # "alive" => members'[n][m].status # "alive"]_vars
    BY StepKeepsVerdict
<1> QED BY <1>1, InvAlways, PTL DEF Spec, VerdictIsFinal

\* Once a process heard its own echo, nothing newer of it circulates than what already
\* did (_gossip_loop and _anti_entropy_loop send the string-keyed echo last).
THEOREM EchoFreezes == Spec => EchoFreezesHeartbeat
<1>1. IInv /\ [Next]_vars => [\A m \in Node : m \in DOMAIN members[m] =>
          \A h \in Circulating(m)' : \E g \in Circulating(m) : h <= g]_vars
    BY StepSaysNothingNew DEF Known
<1> QED BY <1>1, InvAlways, PTL DEF Spec, EchoFreezesHeartbeat
=============================================================================
