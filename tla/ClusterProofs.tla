---------------------------- MODULE ClusterProofs ----------------------------
(***************************************************************************)
(* Proofs about the two services over Leadership that never look into each *)
(* other, TaskQueue and EventBus, for every set of processes, tasks,       *)
(* channels and events.  Whatever RAFT implements Leadership, they hold.   *)
(***************************************************************************)
EXTENDS TaskQueue, EventBus, TLAPS, SequenceTheorems, FiniteSetTheorems

-----------------------------------------------------------------------------
(* The task queue: the inductive invariant *)

\* What a queue may hold depends on who was given the task, and how often.
Accounted ==
    \A n \in Node, t \in Task :
        /\ status[n][t] = "queued" /\ sending[n] # t => handed[t] = 0
        /\ sending[n] = t => handed[t] = 1
        /\ status[n][t] # "none" => t \in submitted
        /\ t \notin submitted => handed[t] = 0

IInv ==
    /\ TaskTypeOK
    /\ Accounted
    /\ HandedOverOnce
    /\ SendingIsQueued

\* The statuses that the loop starts from: those of now, or those after an await.
Statuses(n, st) ==
    \/ sending[n] = None /\ st = status[n]
    \/ sending[n] # None /\ st = MarkSent(n)

\* What one stretch of the loop of n does to a single task, when it starts from the
\* statuses st.
Effect(n, t, st) ==
    \/ status'[n][t] = st[t] /\ handed'[t] = handed[t] /\ sending'[n] # t
    \/ /\ status[n][t] = "queued" /\ sending[n] # t
       /\ \/ /\ handed'[t] = handed[t] /\ t \in expired[n]
             /\ status'[n][t] = "failed" /\ sending'[n] # t
          \/ /\ handed'[t] = handed[t] + 1
             /\ status'[n][t] \in {"done", "failed"} /\ sending'[n] # t
          \/ /\ handed'[t] = handed[t] + 1
             /\ status'[n][t] = "queued" /\ sending'[n] = t /\ t \notin todo'[n]
-----------------------------------------------------------------------------
(* The loop from one await to the next *)

\* The statuses a stretch starts from keep their type.
LEMMA StatusesType ==
    ASSUME IInv, NEW n \in Node, NEW st, Statuses(n, st)
    PROVE  st \in [Task -> Status]
  BY DEF IInv, TaskTypeOK, Status, Statuses, MarkSent

\* A stretch of the loop of n changes nothing of other nodes, and each task of n as
\* Effect says.
LEMMA RoundEffect ==
    ASSUME IInv, NEW n \in Node, NEW tasks \in SUBSET Task, NEW st,
           sending[n] \notin tasks, Statuses(n, st), Round(n, tasks, st)
    PROVE  /\ \A a \in Node \ {n} :
                  /\ status'[a] = status[a] /\ todo'[a] = todo[a]
                  /\ sending'[a] = sending[a]
           /\ \A t \in Task : Effect(n, t, st)
           /\ status' \in [Node -> [Task -> Status]]
           /\ todo' \in [Node -> SUBSET Task]
           /\ sending' \in [Node -> Task \cup {None}]
           /\ handed' \in [Task -> Nat]
  <1> DEFINE queued == QueuedOf(n, tasks)
             late   == queued \cap expired[n]
             ready  == queued \ late
  <1>1. st \in [Task -> Status]
    BY StatusesType
  <1>2. \A t \in queued : t \in Task /\ status[n][t] = "queued" /\ sending[n] # t
    <2>1. \A t : t \in queued <=> t \in tasks /\ status[n][t] = "queued"
      BY DEF QueuedOf
    <2>2. \A t \in tasks : t \in Task /\ sending[n] # t
      OBVIOUS
    <2>3. QED BY <2>1, <2>2
  <1>3. /\ status \in [Node -> [Task -> Status]] /\ todo \in [Node -> SUBSET Task]
        /\ sending \in [Node -> Task \cup {None}] /\ handed \in [Task -> Nat]
    BY DEF IInv, TaskTypeOK
  <1>4. CASE /\ todo' = [todo EXCEPT ![n] = {}]
             /\ sending' = [sending EXCEPT ![n] = None]
             /\ handed' = [t \in Task |->
                              IF t \in ready THEN handed[t] + 1 ELSE handed[t]]
             /\ \E good \in SUBSET ready :
                    status' = [status EXCEPT ![n] = [t \in Task |->
                        IF t \in good THEN "done"
                        ELSE IF t \in queued THEN "failed" ELSE st[t]]]
    <2>1. PICK good \in SUBSET ready :
              status' = [status EXCEPT ![n] = [t \in Task |->
                  IF t \in good THEN "done"
                  ELSE IF t \in queued THEN "failed" ELSE st[t]]]
      BY <1>4
    <2>2. /\ todo'[n] = {} /\ sending'[n] = None /\ handed' \in [Task -> Nat]
          /\ \A a \in Node \ {n} : /\ status'[a] = status[a] /\ todo'[a] = todo[a]
                                   /\ sending'[a] = sending[a]
      BY <1>3, <1>4, <2>1
    <2>3. status'[n] = [t \in Task |-> IF t \in good THEN "done"
                                       ELSE IF t \in queued THEN "failed" ELSE st[t]]
      BY <1>3, <2>1
    <2>4. ASSUME NEW t \in Task PROVE Effect(n, t, st)
      <3>1. sending'[n] # t
        BY <2>2, TaskAssumption
      <3>2. CASE t \notin queued
        BY <1>4, <2>3, <3>1, <3>2 DEF Effect
      <3>3. CASE t \in late
        BY <1>2, <1>4, <2>3, <3>1, <3>3 DEF Effect
      <3>4. CASE t \in ready
        BY <1>2, <1>4, <2>3, <3>1, <3>4 DEF Effect
      <3>5. QED BY <3>2, <3>3, <3>4
    <2>5. status' \in [Node -> [Task -> Status]]
      <3>1. [t \in Task |-> IF t \in good THEN "done"
                            ELSE IF t \in queued THEN "failed" ELSE st[t]]
                \in [Task -> Status]
        BY <1>1 DEF Status
      <3>2. QED BY <1>3, <2>1, <3>1
    <2>6. todo' \in [Node -> SUBSET Task] /\ sending' \in [Node -> Task \cup {None}]
      BY <1>3, <1>4
    <2>7. QED BY <2>2, <2>4, <2>5, <2>6
  <1>5. CASE \E next \in ready : \E gone \in SUBSET late :
                 /\ status' = [status EXCEPT ![n] = [t \in Task |->
                        IF t \in gone THEN "failed" ELSE st[t]]]
                 /\ sending' = [sending EXCEPT ![n] = next]
                 /\ handed' = [handed EXCEPT ![next] = @ + 1]
                 /\ todo' = [todo EXCEPT ![n] = tasks \ (gone \cup {next})]
    <2>1. PICK next \in ready, gone \in SUBSET late :
              /\ status' = [status EXCEPT ![n] = [t \in Task |->
                     IF t \in gone THEN "failed" ELSE st[t]]]
              /\ sending' = [sending EXCEPT ![n] = next]
              /\ handed' = [handed EXCEPT ![next] = @ + 1]
              /\ todo' = [todo EXCEPT ![n] = tasks \ (gone \cup {next})]
      BY <1>5
    <2>2. /\ sending'[n] = next /\ next \in Task /\ handed' \in [Task -> Nat]
          /\ todo'[n] = tasks \ (gone \cup {next})
          /\ \A a \in Node \ {n} : /\ status'[a] = status[a] /\ todo'[a] = todo[a]
                                   /\ sending'[a] = sending[a]
      BY <1>2, <1>3, <2>1
    <2>3. status'[n] = [t \in Task |-> IF t \in gone THEN "failed" ELSE st[t]]
      BY <1>3, <2>1
    <2>4. \A t \in queued : st[t] = "queued"
      BY <1>2 DEF Statuses, MarkSent, IInv, TaskTypeOK
    <2>5. ASSUME NEW t \in Task PROVE Effect(n, t, st)
      <3>1. CASE t = next
        BY <1>2, <1>3, <2>1, <2>2, <2>3, <2>4, <3>1 DEF Effect
      <3>2. CASE t \in gone
        BY <1>2, <1>3, <2>1, <2>2, <2>3, <3>2 DEF Effect
      <3>3. CASE t # next /\ t \notin gone
        BY <1>3, <2>1, <2>2, <2>3, <3>3 DEF Effect
      <3>4. QED BY <3>1, <3>2, <3>3
    <2>6. status' \in [Node -> [Task -> Status]]
      <3>1. [t \in Task |-> IF t \in gone THEN "failed" ELSE st[t]]
                \in [Task -> Status]
        BY <1>1 DEF Status
      <3>2. QED BY <1>3, <2>1, <3>1
    <2>7. todo' \in [Node -> SUBSET Task] /\ sending' \in [Node -> Task \cup {None}]
      BY <1>3, <2>1, <2>2
    <2>8. QED BY <2>2, <2>5, <2>6, <2>7
  <1>6. QED BY <1>4, <1>5 DEF Round

\* A stretch of the loop keeps the invariant.
LEMMA RoundKeeps ==
    ASSUME IInv, NEW n \in Node, NEW tasks \in SUBSET Task, NEW st,
           sending[n] \notin tasks, Statuses(n, st), Round(n, tasks, st),
           UNCHANGED <<leadershipVars, submitted, expired>>
    PROVE  IInv'
  <1>1. TaskTypeOK'
    BY RoundEffect DEF IInv, TaskTypeOK, leadershipVars
  <1>2. \A t \in Task : st[t] = status[n][t] \/ (sending[n] = t /\ st[t] = "running")
    BY DEF IInv, TaskTypeOK, Statuses, MarkSent
  <1>3. \A t \in Task : status'[n][t] # "none" => status[n][t] # "none"
    <2> SUFFICES ASSUME NEW t \in Task, status[n][t] = "none"
                 PROVE  status'[n][t] = "none"
      OBVIOUS
    <2>1. sending[n] # t
      BY TaskAssumption DEF IInv, SendingIsQueued
    <2>2. st[t] = "none"
      BY <1>2, <2>1
    <2>3. Effect(n, t, st)
      BY RoundEffect
    <2>4. QED BY <2>2, <2>3 DEF Effect
  <1>4. \A t \in Task : status'[n][t] = "queued" /\ sending'[n] # t =>
            status[n][t] = "queued" /\ sending[n] # t /\ handed'[t] = handed[t]
    <2>1. \A t \in Task : st[t] = "queued" => sending[n] # t
      BY TaskAssumption DEF IInv, TaskTypeOK, Statuses, MarkSent
    <2>2. QED BY <1>2, <2>1, RoundEffect DEF Effect
  <1>5. \A t \in Task : handed'[t] = handed[t]
            \/ (handed'[t] = handed[t] + 1 /\ status[n][t] = "queued" /\ sending[n] # t)
    BY RoundEffect DEF Effect
  <1>6. \A a \in Node \ {n}, t \in Task :
            status'[a][t] # "none" => status[n][t] = "none" /\ handed'[t] = handed[t]
    BY <1>5, RoundEffect DEF IInv, HandedOverOnce
  <1>7. Accounted'
    <2> SUFFICES ASSUME NEW a \in Node, NEW t \in Task
                 PROVE  /\ status'[a][t] = "queued" /\ sending'[a] # t => handed'[t] = 0
                        /\ sending'[a] = t => handed'[t] = 1
                        /\ status'[a][t] # "none" => t \in submitted'
                        /\ t \notin submitted' => handed'[t] = 0
      BY DEF Accounted
    <2>1. t \notin submitted' => handed'[t] = 0
      BY <1>5 DEF IInv, Accounted
    <2>2. CASE a = n
      <3>1. sending'[n] = t => handed'[t] = 1
        BY RoundEffect DEF Effect, IInv, Accounted
      <3>2. QED BY <1>3, <1>4, <2>1, <2>2, <3>1 DEF IInv, Accounted
    <2>3. CASE a # n
      <3>1. sending[a] = t => status[a][t] = "queued"
        BY TaskAssumption DEF IInv, SendingIsQueued
      <3>2. QED BY <1>6, <2>1, <2>3, <3>1, RoundEffect DEF IInv, Accounted
    <2>4. QED BY <2>2, <2>3
  <1>8. HandedOverOnce'
    <2>1. \A t \in Task : handed'[t] <= 1
      <3> TAKE t \in Task
      <3>1. handed[t] \in Nat /\ handed[t] <= 1
        BY DEF IInv, TaskTypeOK, HandedOverOnce
      <3>2. CASE handed'[t] = handed[t]
        BY <3>1, <3>2
      <3>3. CASE handed'[t] = handed[t] + 1 /\ status[n][t] = "queued" /\ sending[n] # t
        BY <3>3 DEF IInv, Accounted
      <3>4. QED BY <1>5, <3>2, <3>3
    <2>2. \A t \in Task, a \in Node : status'[a][t] # "none" => status[a][t] # "none"
      BY <1>3, RoundEffect
    <2>3. QED BY <2>1, <2>2 DEF IInv, HandedOverOnce
  <1>9. SendingIsQueued'
    <2> SUFFICES ASSUME NEW a \in Node, sending'[a] # None
                 PROVE  status'[a][sending'[a]] = "queued" /\ sending'[a] \notin todo'[a]
      BY DEF SendingIsQueued
    <2>1. CASE a = n
      <3>1. sending'[n] \in Task
        BY <2>1, RoundEffect
      <3>2. Effect(n, sending'[n], st)
        BY <3>1, RoundEffect
      <3>3. QED BY <2>1, <3>2 DEF Effect
    <2>2. CASE a # n
      BY <2>2, RoundEffect DEF IInv, SendingIsQueued
    <2>3. QED BY <2>1, <2>2
  <1>10. QED BY <1>1, <1>7, <1>8, <1>9 DEF IInv
-----------------------------------------------------------------------------
(* The other actions *)

LEMMA BeginRoundKeeps ==
    ASSUME IInv, NEW n \in Node, BeginRound(n)
    PROVE  IInv'
  <1>1. sending[n] \notin {t \in Task : status[n][t] # "none"}
    BY TaskAssumption DEF BeginRound
  <1>2. Statuses(n, status[n])
    BY DEF Statuses, BeginRound
  <1>3. {t \in Task : status[n][t] # "none"} \in SUBSET Task
    OBVIOUS
  <1>4. QED BY <1>1, <1>2, <1>3, RoundKeeps DEF BeginRound

LEMMA SentKeeps ==
    ASSUME IInv, NEW n \in Node, Sent(n)
    PROVE  IInv'
  <1>1. sending[n] \notin todo[n] /\ todo[n] \in SUBSET Task
    BY DEF Sent, IInv, SendingIsQueued, TaskTypeOK
  <1>2. Statuses(n, MarkSent(n))
    BY DEF Statuses, Sent
  <1>3. QED BY <1>1, <1>2, RoundKeeps DEF Sent

LEMMA SubmitKeeps ==
    ASSUME IInv, NEW n \in Node, NEW t \in Task, Submit(n, t)
    PROVE  IInv'
  <1> USE DEF IInv, TaskTypeOK
  <1>1. \A a \in Node : status[a][t] = "none" /\ handed[t] = 0
    BY DEF Submit, Accounted
  <1>2. \A a \in Node : sending[a] # t
    BY <1>1, TaskAssumption DEF SendingIsQueued
  <1>3. /\ \A a \in Node, u \in Task :
               status'[a][u] = status[a][u] \/ (a = n /\ u = t /\ status'[a][u] = "queued")
        /\ submitted' = submitted \cup {t}
        /\ UNCHANGED <<leadershipVars, expired, todo, sending, handed>>
    BY DEF Submit
  <1>4. TaskTypeOK'
    BY DEF Submit, leadershipVars, Status
  <1>5. Accounted'
    BY <1>1, <1>3 DEF Accounted
  <1>6. HandedOverOnce'
    BY <1>1, <1>3 DEF HandedOverOnce
  <1>7. SendingIsQueued'
    BY <1>2, <1>3 DEF SendingIsQueued
  <1>8. QED BY <1>4, <1>5, <1>6, <1>7

LEMMA CleanupKeeps ==
    ASSUME IInv, NEW n \in Node, Cleanup(n)
    PROVE  IInv'
  <1> USE DEF IInv, TaskTypeOK
  <1>1. /\ \A a \in Node, u \in Task :
               \/ status'[a][u] = status[a][u]
               \/ status'[a][u] = "none" /\ status[a][u] \in {"done", "failed"}
        /\ UNCHANGED <<leadershipVars, submitted, todo, sending, handed>>
    BY DEF Cleanup, Removable
  <1>2. TaskTypeOK'
    BY DEF Cleanup, leadershipVars, Status
  <1>3. Accounted' /\ HandedOverOnce'
    BY <1>1 DEF Accounted, HandedOverOnce
  <1>4. SendingIsQueued'
    BY <1>1 DEF SendingIsQueued
  <1>5. QED BY <1>2, <1>3, <1>4

LEMMA CrashWithTasksKeeps ==
    ASSUME IInv, NEW n \in Node, CrashWithTasks(n)
    PROVE  IInv'
  <1> USE DEF IInv, TaskTypeOK
  <1>1. /\ \A u \in Task : status'[n][u] = "none"
        /\ \A a \in Node \ {n} : /\ status'[a] = status[a] /\ todo'[a] = todo[a]
                                 /\ sending'[a] = sending[a]
        /\ sending'[n] = None
        /\ UNCHANGED <<submitted, handed>>
    BY DEF CrashWithTasks, NoTasks
  <1>2. TaskTypeOK'
    <2>1. NoTasks \in [Task -> Status]
      BY DEF NoTasks, Status
    <2>2. /\ status' \in [Node -> [Task -> Status]]
          /\ expired' \in [Node -> SUBSET Task]
          /\ todo' \in [Node -> SUBSET Task]
          /\ sending' \in [Node -> Task \cup {None}]
      BY <2>1 DEF CrashWithTasks
    <2>3. up' \in [Node -> BOOLEAN] /\ leader_id' \in [Node -> Node \cup {None}]
      BY DEF CrashWithTasks, Crash
    <2>4. QED BY <2>2, <2>3 DEF CrashWithTasks, Crash
  <1>3. Accounted' /\ HandedOverOnce'
    <2>1. \A a \in Node, u \in Task :
              \/ status'[a][u] = "none" /\ sending'[a] # u
              \/ status'[a][u] = status[a][u] /\ sending'[a] = sending[a]
      BY <1>1, TaskAssumption
    <2>2. Accounted'
      BY <1>1, <2>1 DEF Accounted
    <2>3. HandedOverOnce'
      BY <1>1, <2>1 DEF HandedOverOnce
    <2>4. QED BY <2>2, <2>3
  <1>4. SendingIsQueued'
    BY <1>1 DEF SendingIsQueued
  <1>5. QED BY <1>2, <1>3, <1>4

\* RAFT and the passing of time leave tasks alone.
LEMMA OthersKeep ==
    ASSUME IInv,
           \/ Raft
           \/ \E n \in Node, t \in Task : Expire(n, t)
           \/ UNCHANGED vars
    PROVE  IInv'
  <1> USE DEF IInv
  <1>1. UNCHANGED <<submitted, status, todo, sending, handed>>
    BY DEF Raft, taskVars, Expire, vars
  <1>2. TaskTypeOK'
    <2>1. CASE Raft
      <3>1. PICK n \in Node : Start(n) \/ Win(n) \/ \E l \in Node : Learn(n, l)
        BY <2>1 DEF Raft
      <3>2. UNCHANGED taskVars
        BY <2>1 DEF Raft
      <3>3. CASE Start(n)
        BY <3>2, <3>3 DEF Start, taskVars, TaskTypeOK
      <3>4. CASE Win(n)
        BY <3>2, <3>4 DEF Win, taskVars, TaskTypeOK
      <3>5. CASE \E l \in Node : Learn(n, l)
        BY <3>2, <3>5 DEF Learn, taskVars, TaskTypeOK
      <3>6. QED BY <3>1, <3>3, <3>4, <3>5
    <2>2. CASE \E n \in Node, t \in Task : Expire(n, t)
      BY <2>2 DEF Expire, TaskTypeOK, leadershipVars
    <2>3. CASE UNCHANGED vars
      BY <2>3 DEF vars, leadershipVars, taskVars, TaskTypeOK
    <2>4. QED BY <2>1, <2>2, <2>3
  <1>3. QED BY <1>1, <1>2 DEF Accounted, HandedOverOnce, SendingIsQueued
-----------------------------------------------------------------------------
(* The invariant and its consequences *)

LEMMA InitEstablishes == TaskInit => IInv
  BY TaskAssumption DEF TaskInit, Init, NoTasks, IInv, TaskTypeOK, Status, Accounted,
     HandedOverOnce, SendingIsQueued

LEMMA StepKeeps == IInv /\ [TaskNext]_vars => IInv'
  BY OthersKeep, CrashWithTasksKeeps, BeginRoundKeeps, SentKeeps, CleanupKeeps, SubmitKeeps
  DEF TaskNext

\* IInv holds in every reachable state.
LEMMA Invariance == TaskSpec => []IInv
  <1>1. QED BY InitEstablishes, StepKeeps, PTL DEF TaskSpec

\* The fields of every queue keep their types.
THEOREM TypeCorrect == TaskSpec => []TaskTypeOK
  <1>1. IInv => TaskTypeOK
    BY DEF IInv
  <1>2. QED BY <1>1, Invariance, PTL

\* In every cluster, no task is executed or sent twice, or held by two queues.
THEOREM AtMostOnce == TaskSpec => []HandedOverOnce
  <1>1. IInv => HandedOverOnce
    BY DEF IInv
  <1>2. QED BY <1>1, Invariance, PTL

\* In every cluster, the task whose sending is awaited is still held, and queued.
THEOREM AwaitedStays == TaskSpec => []SendingIsQueued
  <1>1. IInv => SendingIsQueued
    BY DEF IInv
  <1>2. QED BY <1>1, Invariance, PTL
-----------------------------------------------------------------------------
(* The way of a task *)

\* TaskLife for one node and task.
Life(n, t) ==
    up'[n] /\ status'[n][t] # status[n][t] =>
        \/ status[n][t] = "none" /\ t \notin submitted
        \/ status[n][t] = "queued" /\ status'[n][t] \in {"running", "done"}
               /\ handed'[t] = 1
        \/ status[n][t] = "queued" /\ status'[n][t] = "failed"
               /\ (t \in expired[n] \/ handed'[t] = 1)
        \/ status[n][t] \in {"done", "failed"} /\ status'[n][t] = "none"
               /\ t \in expired[n]

\* A stretch of the loop takes every task one step on its way.
LEMMA RoundLife ==
    ASSUME IInv, NEW n \in Node, NEW tasks \in SUBSET Task, NEW st,
           sending[n] \notin tasks, Statuses(n, st), Round(n, tasks, st),
           NEW a \in Node, NEW t \in Task
    PROVE  Life(a, t)
  <1>1. CASE a # n
    BY <1>1, RoundEffect DEF Life
  <1>2. CASE a = n
    <2>1. Effect(n, t, st)
      BY RoundEffect
    <2>2. \/ st[t] = status[n][t]
          \/ sending[n] = t /\ st[t] = "running" /\ status[n][t] = "queued"
      BY TaskAssumption DEF IInv, TaskTypeOK, SendingIsQueued, Statuses, MarkSent
    <2>3. sending[n] = t => handed[t] = 1
      BY DEF IInv, Accounted
    <2>4. status[n][t] = "queued" /\ sending[n] # t => handed[t] = 0
      BY DEF IInv, Accounted
    <2>5. QED BY <1>2, <2>1, <2>2, <2>3, <2>4 DEF Life, Effect
  <1>3. QED BY <1>1, <1>2

\* In every cluster, a task leaves its queue only when executed, sent or expired,
\* stays running, done or failed, and is forgotten only when expired and finished.
THEOREM LifeOfTask == TaskSpec => TaskLife
  <1>1. ASSUME IInv, [TaskNext]_vars, NEW a \in Node, NEW t \in Task PROVE Life(a, t)
    <2> USE <1>1
    <2>1. CASE UNCHANGED status
      BY <2>1 DEF Life
    <2>2. ASSUME NEW n \in Node, BeginRound(n) PROVE Life(a, t)
      <3>1. /\ sending[n] \notin {u \in Task : status[n][u] # "none"}
            /\ {u \in Task : status[n][u] # "none"} \in SUBSET Task
            /\ Statuses(n, status[n])
        BY <2>2, TaskAssumption DEF BeginRound, Statuses
      <3>2. QED BY <2>2, <3>1, RoundLife DEF BeginRound
    <2>3. ASSUME NEW n \in Node, Sent(n) PROVE Life(a, t)
      <3>1. /\ sending[n] \notin todo[n] /\ todo[n] \in SUBSET Task
            /\ Statuses(n, MarkSent(n))
        BY <2>3 DEF Sent, Statuses, IInv, SendingIsQueued, TaskTypeOK
      <3>2. QED BY <2>3, <3>1, RoundLife DEF Sent
    <2>4. ASSUME NEW n \in Node, Cleanup(n) PROVE Life(a, t)
      BY <2>4 DEF Cleanup, Removable, Life, IInv, TaskTypeOK
    <2>5. ASSUME NEW n \in Node, CrashWithTasks(n) PROVE Life(a, t)
      <3>1. CASE a = n
        BY <2>5, <3>1 DEF CrashWithTasks, Crash, Life, IInv, TaskTypeOK
      <3>2. CASE a # n
        BY <2>5, <3>2 DEF CrashWithTasks, Life, IInv, TaskTypeOK
      <3>3. QED BY <3>1, <3>2
    <2>6. ASSUME NEW n \in Node, NEW u \in Task, Submit(n, u) PROVE Life(a, t)
      <3>1. \A b \in Node : status[b][u] = "none" /\ u \notin submitted
        BY <2>6 DEF Submit, IInv, Accounted
      <3>2. status'[a][t] # status[a][t] => t = u
        BY <2>6 DEF Submit, IInv, TaskTypeOK
      <3>3. QED BY <3>1, <3>2 DEF Life
    <2>7. Raft \/ UNCHANGED vars \/ (\E n \in Node, u \in Task : Expire(n, u))
              => UNCHANGED status
      BY DEF Raft, taskVars, vars, Expire
    <2>8. QED BY <2>1, <2>2, <2>3, <2>4, <2>5, <2>6, <2>7 DEF TaskNext
  <1>2. IInv /\ [TaskNext]_vars
            => [\A n \in Node, t \in Task : Life(n, t)]_vars
    BY <1>1
  <1>3. QED BY <1>2, Invariance, PTL DEF TaskSpec, TaskLife, Life
-----------------------------------------------------------------------------
(* The event bus: what subscribers see *)

BusTypeOK ==
    /\ subs \in [Node -> [Channel -> Nat]]
    /\ queue \in [Node -> Seq(Event)]
    /\ sends \in [Node -> [Event -> Int]]
    /\ forwards \subseteq [to : Node, event : Event, send : Int]
    /\ blocked \in [Node -> BOOLEAN]
    /\ history \in [Node -> SUBSET Event]
    /\ calls \in [Node -> Seq(Event \X Nat)]

OnDisk(e) == \E m \in Node : e \in history[m]

\* Whatever is sent, received or queued was stored.
BusBacked ==
    /\ \A n \in Node, e \in Event : sends[n][e] # NoPublish => OnDisk(e)
    /\ \A m \in forwards : OnDisk(m.event)
    /\ \A n \in Node : \A i \in DOMAIN queue[n] : OnDisk(queue[n][i])

\* Position i of a record of calls comes in turn after the one before it.
InTurn(list, i) == list[i][2] > 1 => i > 1 /\ list[i - 1] = <<list[i][1], list[i][2] - 1>>

AllInTurn(list) == \A i \in DOMAIN list : InTurn(list, i)

\* The calls of `new` are in turn, and of e or of events called before.
GoesOnInTurn(list, e, new) ==
    \A i \in DOMAIN new :
        /\ InTurn(new, i)
        /\ new[i][1] = e \/ \E j \in DOMAIN list : new[i][1] = list[j][1]

CallsInTurn ==
    \A n \in Node : \A i \in DOMAIN calls[n] : InTurn(calls[n], i) /\ OnDisk(calls[n][i][1])

BusInv == BusTypeOK /\ BusBacked /\ CallsInTurn

\* The invariant says at once what the subscribers of a process saw.
LEMMA BusInvImplies == BusInv => SeenInTurnAndStored
BY DEF BusInv, CallsInTurn, InTurn, OnDisk, SeenInTurnAndStored

\* Nothing is queued, sent or delivered before the first process starts.
LEMMA BusInvInit == BusInit => BusInv
<1> SUFFICES ASSUME BusInit PROVE BusInv
    OBVIOUS
<1>1. BusTypeOK
    BY DEF BusInit, BusTypeOK, NoPublish
<1>2. BusBacked
    BY DEF BusInit, BusBacked
<1>3. CallsInTurn
    BY DEF BusInit, CallsInTurn
<1> QED BY <1>1, <1>2, <1>3 DEF BusInv

\* Steps that call nobody and lose nothing on the disks keep what is said of the calls.
LEMMA NothingDelivered ==
    ASSUME BusInv, UNCHANGED calls,
           \A m \in Node : history[m] \subseteq history'[m]
    PROVE  CallsInTurn'
BY DEF BusInv, CallsInTurn, InTurn, OnDisk

\* Called appends calls in turn.
LEMMA CalledInTurn ==
    ASSUME NEW list \in Seq(Event \X Nat), NEW e \in Event, NEW k \in Nat,
           AllInTurn(list)
    PROVE  GoesOnInTurn(list, e, list \o Called(e, k))
<1> DEFINE c == Called(e, k)
           new == list \o c
<1> SUFFICES ASSUME NEW i \in DOMAIN new
             PROVE  /\ InTurn(new, i)
                    /\ new[i][1] = e \/ \E j \in DOMAIN list : new[i][1] = list[j][1]
    BY DEF GoesOnInTurn
<1>1. c \in [1 .. k -> Event \X Nat] /\ \A j \in 1 .. k : c[j] = <<e, j>>
    BY DEF Called
<1>2. c \in Seq(Event \X Nat) /\ Len(c) = k
    <2> HIDE DEF c
    <2> QED BY <1>1, SeqDef, LenProperties
<1> HIDE DEF c
<1>0. Len(list) \in Nat /\ DOMAIN list = 1 .. Len(list)
    OBVIOUS
<1>3. /\ new \in Seq(Event \X Nat) /\ Len(new) = Len(list) + k
      /\ \A j \in 1 .. Len(list) : new[j] = list[j]
      /\ \A j \in Len(list) + 1 .. Len(list) + k : new[j] = <<e, j - Len(list)>>
    <2>1. /\ new \in Seq(Event \X Nat) /\ Len(new) = Len(list) + k
          /\ \A j \in 1 .. Len(new) :
                new[j] = IF j =< Len(list) THEN list[j] ELSE c[j - Len(list)]
        BY <1>2, ConcatProperties
    <2>2. ASSUME NEW j \in Len(list) + 1 .. Len(list) + k
          PROVE  new[j] = <<e, j - Len(list)>>
        <3>1. j \in 1 .. Len(new) /\ ~(j =< Len(list)) /\ j - Len(list) \in 1 .. k
            BY <1>0, <2>1
        <3> QED BY <1>1, <2>1, <3>1
    <2>3. \A j \in 1 .. Len(list) : j \in 1 .. Len(new) /\ j =< Len(list)
        BY <1>0, <2>1
    <2> QED BY <2>1, <2>2, <2>3
<1>4. i \in 1 .. Len(list) + k
    BY <1>3 DEF c
<1> HIDE DEF new
<1>5. CASE i =< Len(list)
    <2>1. i \in DOMAIN list /\ new[i] = list[i] /\ (i > 1 => new[i - 1] = list[i - 1])
        BY <1>0, <1>3, <1>4, <1>5
    <2>2. InTurn(list, i)
        BY <2>1 DEF AllInTurn
    <2> QED BY <1>3, <2>1, <2>2 DEF InTurn, new, c
<1>6. CASE i > Len(list)
    <2>1. /\ new[i] = <<e, i - Len(list)>>
          /\ i - Len(list) > 1 => i > 1 /\ new[i - 1] = <<e, i - Len(list) - 1>>
        <3>1. i \in Len(list) + 1 .. Len(list) + k
            BY <1>0, <1>4, <1>6
        <3>2. i - Len(list) > 1 => /\ i - 1 \in Len(list) + 1 .. Len(list) + k
                                   /\ i > 1 /\ (i - 1) - Len(list) = i - Len(list) - 1
            BY <1>0, <1>4, <1>6
        <3> QED BY <1>3, <3>1, <3>2
    <2>2. new[i][1] = e /\ new[i][2] = i - Len(list)
        BY <2>1
    <2>3. InTurn(new, i)
        BY <2>1, <2>2 DEF InTurn
    <2> QED BY <2>2, <2>3
<1> QED BY <1>4, <1>5, <1>6

\* subscribe adds a callback.
LEMMA SubscribeKeeps ==
    ASSUME BusInv, NEW n \in Node, NEW c \in Channel, Subscribe(n, c)
    PROVE  BusInv'
<1> USE DEF Subscribe
<1>1. BusTypeOK'
    <2>1. subs' \in [Node -> [Channel -> Nat]]
        BY DEF BusInv, BusTypeOK
    <2> QED BY <2>1 DEF BusInv, BusTypeOK
<1>2. BusBacked'
    BY DEF BusInv, BusBacked, OnDisk
<1>3. CallsInTurn'
    BY NothingDelivered
<1> QED BY <1>1, <1>2, <1>3 DEF BusInv

\* publish of a leader stores the event before anything else.
LEMMA PublishKeeps ==
    ASSUME BusInv, NEW n \in Node, NEW e \in Event, Publish(n, e)
    PROVE  BusInv'
<1> USE DEF Publish, Store
<1>1. BusTypeOK'
    <2>1. sends' \in [Node -> [Event -> Int]]
        <3>1. Cardinality(Node \ {n}) \in Int
            BY EventAssumption, FS_Subset, FS_CardinalityType DEF EventAssumption
        <3> QED BY <3>1 DEF BusInv, BusTypeOK
    <2>2. history' \in [Node -> SUBSET Event]
        BY DEF BusInv, BusTypeOK
    <2> QED BY <2>1, <2>2 DEF BusInv, BusTypeOK
<1>2. \A m \in Node : history[m] \subseteq history'[m]
    BY DEF BusInv, BusTypeOK
<1>3. OnDisk(e)'
    BY DEF BusInv, BusTypeOK, OnDisk
<1>4. BusBacked'
    <2>1. ASSUME NEW m \in Node, NEW f \in Event, sends'[m][f] # NoPublish
          PROVE  OnDisk(f)'
        <3>1. CASE m = n /\ f = e
            BY <1>3, <3>1
        <3>2. CASE ~(m = n /\ f = e)
            <4>1. sends'[m][f] = sends[m][f]
                BY <3>2 DEF BusInv, BusTypeOK
            <4> QED BY <1>2, <2>1, <4>1 DEF BusInv, BusBacked, OnDisk
        <3> QED BY <3>1, <3>2
    <2>2. \A m \in forwards : OnDisk(m.event)'
        BY <1>2 DEF BusInv, BusBacked, OnDisk
    <2>3. \A m \in Node : \A i \in DOMAIN queue[m] : OnDisk(queue[m][i])'
        BY <1>2 DEF BusInv, BusBacked, OnDisk
    <2> QED BY <2>1, <2>2, <2>3 DEF BusBacked
<1>5. CallsInTurn'
    BY <1>2, NothingDelivered
<1> QED BY <1>1, <1>4, <1>5 DEF BusInv

\* _send_to_peer sends what was stored.
LEMMA ForwardKeeps ==
    ASSUME BusInv, NEW n \in Node, NEW e \in Event, NEW p \in Node, Forward(n, e, p)
    PROVE  BusInv'
<1> USE DEF Forward, NoPublish
<1>1. BusTypeOK'
    <2>1. sends' \in [Node -> [Event -> Int]]
        BY DEF BusInv, BusTypeOK
    <2>2. forwards' \subseteq [to : Node, event : Event, send : Int]
        BY DEF BusInv, BusTypeOK
    <2> QED BY <2>1, <2>2 DEF BusInv, BusTypeOK
<1>2. OnDisk(e)
    BY DEF BusInv, BusBacked
<1>3. BusBacked'
    <2>1. ASSUME NEW m \in Node, NEW f \in Event, sends'[m][f] # NoPublish
          PROVE  OnDisk(f)'
        <3>1. CASE m = n /\ f = e
            BY <1>2, <3>1 DEF OnDisk
        <3>2. CASE ~(m = n /\ f = e)
            <4>1. sends'[m][f] = sends[m][f]
                BY <3>2 DEF BusInv, BusTypeOK
            <4> QED BY <2>1, <4>1 DEF BusInv, BusBacked, OnDisk
        <3> QED BY <3>1, <3>2
    <2>2. \A m \in forwards' : OnDisk(m.event)'
        BY <1>2 DEF BusInv, BusBacked, OnDisk
    <2> QED BY <2>1, <2>2 DEF BusInv, BusBacked, OnDisk
<1>4. CallsInTurn'
    BY NothingDelivered
<1> QED BY <1>1, <1>3, <1>4 DEF BusInv

\* publish queues what it stored.
LEMMA EnqueueKeeps ==
    ASSUME BusInv, NEW n \in Node, NEW e \in Event, Enqueue(n, e)
    PROVE  BusInv'
<1> USE DEF Enqueue, NoPublish
<1>1. BusTypeOK'
    <2>1. sends' \in [Node -> [Event -> Int]]
        BY DEF BusInv, BusTypeOK
    <2>2. queue' \in [Node -> Seq(Event)]
        BY DEF BusInv, BusTypeOK
    <2> QED BY <2>1, <2>2 DEF BusInv, BusTypeOK
<1>2. OnDisk(e)
    BY DEF BusInv, BusBacked
<1>3. BusBacked'
    <2>1. ASSUME NEW m \in Node, NEW f \in Event, sends'[m][f] # NoPublish
          PROVE  OnDisk(f)'
        BY <1>2, <2>1 DEF BusInv, BusTypeOK, BusBacked, OnDisk
    <2>2. ASSUME NEW m \in Node, NEW i \in DOMAIN queue'[m]
          PROVE  OnDisk(queue[m][i])'
        <3>1. queue[m] \in Seq(Event)
            BY DEF BusInv, BusTypeOK
        <3>2. queue'[m] = IF m = n THEN Append(queue[m], e) ELSE queue[m]
            BY DEF BusInv, BusTypeOK
        <3>3. (i \in DOMAIN queue[m] /\ queue'[m][i] = queue[m][i]) \/ queue'[m][i] = e
            BY <3>1, <3>2
        <3> QED BY <1>2, <3>3 DEF BusInv, BusBacked, OnDisk
    <2> QED BY <2>1, <2>2 DEF BusInv, BusBacked, OnDisk
<1>4. CallsInTurn'
    BY NothingDelivered
<1> QED BY <1>1, <1>3, <1>4 DEF BusInv

\* handle_forwarded_event queues what was sent.
LEMMA HandleKeeps ==
    ASSUME BusInv, NEW m \in forwards, HandleForwarded(m)
    PROVE  BusInv'
<1> USE DEF HandleForwarded
<1>0. m.to \in Node /\ m.event \in Event
    BY DEF BusInv, BusTypeOK
<1>1. BusTypeOK'
    <2>1. queue' \in [Node -> Seq(Event)]
        <3>1. queue[m.to] \in Seq(Event)
            BY <1>0 DEF BusInv, BusTypeOK
        <3>2. Append(queue[m.to], m.event) \in Seq(Event)
            BY <1>0, <3>1
        <3>3. queue' = queue \/ queue' = [queue EXCEPT ![m.to] = Append(queue[m.to], m.event)]
            OBVIOUS
        <3> QED BY <3>2, <3>3 DEF BusInv, BusTypeOK
    <2> QED BY <2>1 DEF BusInv, BusTypeOK
<1>2. OnDisk(m.event)
    BY DEF BusInv, BusBacked
<1>3. BusBacked'
    <2>1. ASSUME NEW q \in Node, NEW i \in DOMAIN queue'[q]
          PROVE  OnDisk(queue[q][i])'
        <3>1. queue[q] \in Seq(Event)
            BY DEF BusInv, BusTypeOK
        <3>2. queue'[q] = Append(queue[q], m.event) \/ queue'[q] = queue[q]
            BY DEF BusInv, BusTypeOK
        <3>3. (i \in DOMAIN queue[q] /\ queue'[q][i] = queue[q][i]) \/ queue'[q][i] = m.event
            BY <1>0, <3>1, <3>2
        <3> QED BY <1>2, <3>3 DEF BusInv, BusBacked, OnDisk
    <2> QED BY <2>1 DEF BusInv, BusBacked, OnDisk
<1>4. CallsInTurn'
    BY NothingDelivered
<1> QED BY <1>1, <1>3, <1>4 DEF BusInv

\* The heart: a delivery calls the subscribers in turn.
LEMMA DeliverKeeps ==
    ASSUME BusInv, NEW n \in Node, Deliver(n)
    PROVE  BusInv'
<1> DEFINE e == Head(queue[n])
           k == subs[n][channel[e]]
<1> USE DEF Deliver
<1>1. queue[n] \in Seq(Event) /\ queue[n] # <<>> /\ e \in Event /\ e = queue[n][1]
    BY DEF BusInv, BusTypeOK
<1>2. k \in Nat
    BY <1>1, EventAssumption DEF BusInv, BusTypeOK, EventAssumption
<1>3. OnDisk(e)
    BY <1>1 DEF BusInv, BusBacked
<1>4. \A m \in Node : \/ calls'[m] = calls[m]
                     \/ (m = n /\ calls'[m] = calls[n] \o Called(e, k))
    <2>1. calls \in [Node -> Seq(Event \X Nat)]
        BY DEF BusInv, BusTypeOK
    <2>2. calls' = calls \/ calls' = [calls EXCEPT ![n] = calls[n] \o Called(e, k)]
        OBVIOUS
    <2> HIDE DEF Deliver, e, k
    <2> QED BY <2>1, <2>2
<1>5. \A m \in Node : \A j \in DOMAIN calls[m] : InTurn(calls[m], j)
    BY DEF BusInv, CallsInTurn
<1>6. \A m \in Node : calls[m] \in Seq(Event \X Nat)
    BY DEF BusInv, BusTypeOK
<1>7. BusTypeOK'
    <2>1. queue' \in [Node -> Seq(Event)]
        BY <1>1 DEF BusInv, BusTypeOK
    <2>2. calls' \in [Node -> Seq(Event \X Nat)]
        <3>0. calls[n] \o Called(e, k) \in Seq(Event \X Nat)
            <4>1. Called(e, k) \in [1 .. k -> Event \X Nat]
                BY <1>1, <1>2 DEF Called
            <4> HIDE DEF e, k
            <4>2. Called(e, k) \in Seq(Event \X Nat)
                BY <1>2, <4>1, SeqDef
            <4> QED BY <1>6, <4>2
        <3>1. \A m \in Node : calls'[m] \in Seq(Event \X Nat)
            BY <1>4, <1>6, <3>0
        <3>2. calls' = calls \/ calls' = [calls EXCEPT ![n] = calls[n] \o Called(e, k)]
            OBVIOUS
        <3>3. DOMAIN calls' = Node /\ calls' = [m \in Node |-> calls'[m]]
            BY <3>2 DEF BusInv, BusTypeOK
        <3> QED BY <3>1, <3>3
    <2>3. blocked' \in [Node -> BOOLEAN]
        BY DEF StartScheduler, BusInv, BusTypeOK
    <2> QED BY <2>1, <2>2, <2>3 DEF BusInv, BusTypeOK
<1>8. BusBacked'
    <2>1. ASSUME NEW m \in Node, NEW i \in DOMAIN queue'[m]
          PROVE  OnDisk(queue[m][i])'
        <3>1. queue[m] \in Seq(Event)
            BY DEF BusInv, BusTypeOK
        <3>2. queue'[m] = IF m = n THEN Tail(queue[m]) ELSE queue[m]
            BY DEF BusInv, BusTypeOK
        <3>3. \E j \in DOMAIN queue[m] : queue'[m][i] = queue[m][j]
            <4>1. CASE m = n
                <5> DEFINE q == queue[n]
                <5>1. q \in Seq(Event) /\ q # <<>> /\ i \in DOMAIN Tail(q)
                    BY <1>1, <3>2, <4>1
                <5> HIDE DEF q
                <5>2. i \in 1 .. Len(q) - 1 /\ Tail(q)[i] = q[i + 1] /\ i + 1 \in DOMAIN q
                    BY <5>1
                <5> QED BY <3>2, <4>1, <5>2 DEF q
            <4>2. CASE m # n
                BY <3>2, <4>2
            <4> QED BY <4>1, <4>2
        <3> QED BY <3>3 DEF BusInv, BusBacked, OnDisk
    <2> QED BY <2>1 DEF BusInv, BusBacked, OnDisk
<1>9. CallsInTurn'
    <2> SUFFICES ASSUME NEW m \in Node, NEW i \in DOMAIN calls'[m]
                 PROVE  InTurn(calls'[m], i) /\ \E q \in Node : calls'[m][i][1] \in history[q]
        BY DEF CallsInTurn, InTurn, OnDisk
    <2>2. CASE calls'[m] = calls[m]
        BY <2>2 DEF BusInv, CallsInTurn, OnDisk
    <2>3. CASE m = n /\ calls'[m] = calls[n] \o Called(e, k)
        <3> DEFINE new == calls[n] \o Called(e, k)
        <3>0. i \in DOMAIN new /\ k \in Nat /\ e \in Event /\ calls[n] \in Seq(Event \X Nat)
            BY <1>1, <1>2, <1>6, <2>3
        <3> HIDE DEF Deliver, e, k
        <3>1. /\ InTurn(calls'[m], i)
              /\ \/ calls'[m][i][1] = e
                 \/ \E j \in DOMAIN calls[n] : calls'[m][i][1] = calls[n][j][1]
            <4>1. AllInTurn(calls[n])
                BY <1>5 DEF AllInTurn
            <4>2. GoesOnInTurn(calls[n], e, new)
                BY <3>0, <4>1, CalledInTurn
            <4> QED BY <2>3, <3>0, <4>2 DEF GoesOnInTurn
        <3>2. \A j \in DOMAIN calls[n] : OnDisk(calls[n][j][1])
            BY DEF BusInv, CallsInTurn
        <3> QED BY <1>3, <3>1, <3>2 DEF OnDisk
    <2> QED BY <1>4, <2>2, <2>3
<1> QED BY <1>7, <1>8, <1>9 DEF BusInv

\* A crash empties the process and leaves the disk.
LEMMA BusCrashKeeps ==
    ASSUME BusInv, NEW n \in Node, BusCrash(n)
    PROVE  BusInv'
<1> USE DEF BusCrash
<1>1. BusTypeOK'
    BY DEF BusInv, BusTypeOK, NoPublish
<1>2. BusBacked'
    <2>1. ASSUME NEW m \in Node, NEW f \in Event, sends'[m][f] # NoPublish
          PROVE  OnDisk(f)'
        <3>1. sends'[m][f] = sends[m][f]
            BY <2>1 DEF BusInv, BusTypeOK
        <3> QED BY <2>1, <3>1 DEF BusInv, BusBacked, OnDisk
    <2>2. \A m \in forwards' : OnDisk(m.event)'
        BY DEF BusInv, BusBacked, OnDisk
    <2>3. ASSUME NEW m \in Node, NEW i \in DOMAIN queue'[m]
          PROVE  OnDisk(queue[m][i])'
        <3>1. m # n /\ queue'[m] = queue[m]
            BY <2>3 DEF BusInv, BusTypeOK
        <3> QED BY <3>1 DEF BusInv, BusBacked, OnDisk
    <2> QED BY <2>1, <2>2, <2>3 DEF BusBacked
<1>3. CallsInTurn'
    <2>1. \A m \in Node : calls'[m] = <<>> \/ calls'[m] = calls[m]
        BY DEF BusInv, BusTypeOK
    <2>2. UNCHANGED history
        OBVIOUS
    <2> HIDE DEF BusCrash
    <2> QED BY <2>1, <2>2 DEF BusInv, CallsInTurn, InTurn, OnDisk
<1> QED BY <1>1, <1>2, <1>3 DEF BusInv

\* Steps that leave all but `published` and RAFT's variables alone.
LEMMA BusOthersKeep ==
    ASSUME BusInv, UNCHANGED <<subs, queue, sends, forwards, blocked, history, calls>>
    PROVE  BusInv'
BY DEF BusInv, BusTypeOK, BusBacked, CallsInTurn, InTurn, OnDisk

\* Every step keeps the invariant.
LEMMA BusStepKeeps == BusInv /\ [BusNext]_clusterVars => BusInv'
<1> SUFFICES ASSUME BusInv, [BusNext]_clusterVars PROVE BusInv'
    OBVIOUS
<1>1. CASE RaftMeanwhile
    BY <1>1, BusOthersKeep DEF RaftMeanwhile, busVars
<1>2. CASE \E n \in Node, c \in Channel : Subscribe(n, c)
    BY <1>2, SubscribeKeeps
<1>3. CASE \E n \in Node, e \in Event : Publish(n, e)
    BY <1>3, PublishKeeps
<1>4. CASE \E n \in Node, e \in Event : PublishElsewhere(n, e)
    BY <1>4, BusOthersKeep DEF PublishElsewhere
<1>5. CASE \E n \in Node, e \in Event : Enqueue(n, e)
    BY <1>5, EnqueueKeeps
<1>6. CASE \E n, p \in Node, e \in Event : Forward(n, e, p)
    BY <1>6, ForwardKeeps
<1>7. CASE \E n \in Node : Deliver(n)
    BY <1>7, DeliverKeeps
<1>8. CASE \E n \in Node : BusCrash(n)
    BY <1>8, BusCrashKeeps
<1>9. CASE \E m \in forwards : HandleForwarded(m)
    BY <1>9, HandleKeeps
<1>10. CASE UNCHANGED clusterVars
    BY <1>10, BusOthersKeep DEF clusterVars, busVars
<1> QED BY <1>1, <1>2, <1>3, <1>4, <1>5, <1>6, <1>7, <1>8, <1>9, <1>10 DEF BusNext

\* What subscribers see (SeenInTurnAndStored), in every cluster: _deliver_local of
\* event_bus.py calls one callback after the other with the same event, and publish has
\* stored what it delivers, wherever.
THEOREM DeliveredInTurn == BusSpec => []SeenInTurnAndStored
<1>1. BusInit => BusInv
    BY BusInvInit
<1>2. BusInv /\ [BusNext]_clusterVars => BusInv'
    BY BusStepKeeps
<1>3. BusInv => SeenInTurnAndStored
    BY BusInvImplies
<1> QED BY <1>1, <1>2, <1>3, PTL DEF BusSpec
=============================================================================
