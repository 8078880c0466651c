----------------------------- MODULE TaskQueue -----------------------------
(***************************************************************************)
(* The task queue of engine/cluster/task_queue.py (the copy from line 286  *)
(* on replaces the first one), in every process, over the Leadership that  *)
(* RaftCluster implements.                                                 *)
(*                                                                         *)
(* A queue takes itself for the leader's when leader_id names its node, or *)
(* nobody.  It never looks at the role.  What it sends to other processes, *)
(* {"cmd": "enqueue"} and {"type": "task"}, is a message no server of this *)
(* repository understands, so the queues share RAFT's leader_id only.      *)
(*                                                                         *)
(* Time is abstracted: the ttl of a task may be over at any moment.  The   *)
(* payload runs inside scheduler.spawn (fiber_job is a plain function) and *)
(* is external: it returns or raises.  Task ids are unique.                *)
(***************************************************************************)
EXTENDS Leadership, Naturals

CONSTANTS Task,     \* task ids
          SameId    \* nodes whose gossip node_id is their RAFT port

ASSUME TaskAssumption == SameId \subseteq Node /\ None \notin Task

VARIABLES
    submitted,   \* tasks that submit_task was called for
    status,      \* node -> task -> "none" if it is not in local_tasks, or its status
    expired,     \* node -> tasks whose ttl is over
    todo,        \* node -> tasks still to be looked at in the round of its loop
    sending,     \* node -> the task whose _send_task_remote is awaited, or None
    handed       \* history: task -> how often it was executed or sent

taskVars == <<submitted, status, expired, todo, sending, handed>>
vars     == <<leadershipVars, taskVars>>

NoTasks == [t \in Task |-> "none"]

TaskInit ==
    /\ Init
    /\ submitted = {}
    /\ status = [n \in Node |-> NoTasks]
    /\ expired = [n \in Node |-> {}]
    /\ todo = [n \in Node |-> {}]
    /\ sending = [n \in Node |-> None]
    /\ handed = [t \in Task |-> 0]
-----------------------------------------------------------------------------
(* Submission *)

\* _leader_port: nobody known to lead, it is this node.
Leader(n) == IF leader_id[n] = None THEN n ELSE leader_id[n]

\* submit_task: into the leader's own queue, or away to another leader, where the
\* message is ignored; sent or not, the id is returned.
Submit(n, t) ==
    /\ up[n]
    /\ t \notin submitted
    /\ submitted' = submitted \cup {t}
    /\ status' = IF Leader(n) = n THEN [status EXCEPT ![n][t] = "queued"] ELSE status
    /\ UNCHANGED <<leadershipVars, expired, todo, sending, handed>>

\* The ttl of a task in local_tasks is over.
Expire(n, t) ==
    /\ up[n]
    /\ status[n][t] # "none"
    /\ t \notin expired[n]
    /\ expired' = [expired EXCEPT ![n] = @ \cup {t}]
    /\ UNCHANGED <<leadershipVars, submitted, status, todo, sending, handed>>
-----------------------------------------------------------------------------
(* _schedule_loop *)

\* Mutant: only an elected leader schedules.
SchedulesIfElected(n) == leader_id[n] = n

\* Who schedules.
Schedules(n) == Leader(n) = n

\* Mutant: the status of a task is not looked at.
AnyOf(n, tasks) == {t \in tasks : status[n][t] # "none"}

\* The tasks of the round that wait for execution.
QueuedOf(n, tasks) == {t \in tasks : status[n][t] = "queued"}

\* The loop from one await to the next, with the given tasks still to be looked at
\* and the statuses st.  Expired tasks fail.  _select_node gives the node of the
\* own Member: it is the first of members, always alive, and no load outlives the
\* job it counts.  Where its id is the port, jobs run here, all of them at once;
\* elsewhere the loop awaits the sending of each.
Round(n, tasks, st) ==
    LET queued == QueuedOf(n, tasks)
        late   == queued \cap expired[n]
        ready  == queued \ late
    IN  \/ /\ n \in SameId \/ ready = {}
           /\ \E good \in SUBSET ready :
                  status' = [status EXCEPT ![n] = [t \in Task |->
                      IF t \in good THEN "done"
                      ELSE IF t \in queued THEN "failed" ELSE st[t]]]
           /\ handed' = [t \in Task |-> IF t \in ready THEN handed[t] + 1 ELSE handed[t]]
           /\ todo' = [todo EXCEPT ![n] = {}]
           /\ sending' = [sending EXCEPT ![n] = None]
        \/ /\ n \notin SameId
           /\ \E next \in ready : \E gone \in SUBSET late :
                  /\ status' = [status EXCEPT ![n] = [t \in Task |->
                         IF t \in gone THEN "failed" ELSE st[t]]]
                  /\ sending' = [sending EXCEPT ![n] = next]
                  /\ handed' = [handed EXCEPT ![next] = @ + 1]
                  /\ todo' = [todo EXCEPT ![n] = tasks \ (gone \cup {next})]

\* A round begins: leadership is looked at, and the list of tasks taken, once.
BeginRound(n) ==
    /\ up[n]
    /\ sending[n] = None
    /\ Schedules(n)
    /\ Round(n, {t \in Task : status[n][t] # "none"}, status[n])
    /\ UNCHANGED <<leadershipVars, submitted, expired>>

\* Mutant: a task sent is given the name the comment gives it.
MarkPending(n) == [status[n] EXCEPT ![sending[n]] = "pending remote"]

\* _send_task_remote after its await.
MarkSent(n) == [status[n] EXCEPT ![sending[n]] = "running"]

\* The message is sent, or was not, and the round goes on.
Sent(n) ==
    /\ up[n]
    /\ sending[n] # None
    /\ Round(n, todo[n], MarkSent(n))
    /\ UNCHANGED <<leadershipVars, submitted, expired>>

\* Mutant: whatever expired is removed.
RemovableIfExpired(n) == {t \in expired[n] : status[n][t] # "running"}

\* What _cleanup_loop removes.
Removable(n) == {t \in expired[n] : status[n][t] \in {"done", "failed"}}

\* One round of _cleanup_loop.
Cleanup(n) ==
    /\ up[n]
    /\ status' = [status EXCEPT ![n] = [t \in Task |->
           IF t \in Removable(n) THEN "none" ELSE status[n][t]]]
    /\ expired' = [expired EXCEPT ![n] = @ \ Removable(n)]
    /\ UNCHANGED <<leadershipVars, submitted, todo, sending, handed>>

\* A process dies with its tasks, which are nowhere else.
CrashWithTasks(n) ==
    /\ Crash(n)
    /\ status' = [status EXCEPT ![n] = NoTasks]
    /\ expired' = [expired EXCEPT ![n] = {}]
    /\ todo' = [todo EXCEPT ![n] = {}]
    /\ sending' = [sending EXCEPT ![n] = None]
    /\ UNCHANGED <<submitted, handed>>

\* What RAFT does meanwhile.
Raft ==
    /\ \E n \in Node : Start(n) \/ Win(n) \/ \E l \in Node : Learn(n, l)
    /\ UNCHANGED taskVars

TaskNext ==
    \/ Raft
    \/ \E n \in Node :
           \/ CrashWithTasks(n)
           \/ BeginRound(n)
           \/ Sent(n)
           \/ Cleanup(n)
           \/ \E t \in Task : Submit(n, t) \/ Expire(n, t)

\* The loop of a live process goes on; a connection is opened or refused in the end.
TaskFairness ==
    \A n \in Node : WF_vars(BeginRound(n)) /\ WF_vars(Sent(n))

TaskSpec == TaskInit /\ [][TaskNext]_vars /\ TaskFairness
-----------------------------------------------------------------------------
(* Properties *)

Status == {"none", "queued", "running", "done", "failed"}

TaskTypeOK ==
    /\ up \in [Node -> BOOLEAN]
    /\ leader_id \in [Node -> Node \cup {None}]
    /\ winners \subseteq Node
    /\ submitted \subseteq Task
    /\ status \in [Node -> [Task -> Status]]
    /\ expired \in [Node -> SUBSET Task]
    /\ todo \in [Node -> SUBSET Task]
    /\ sending \in [Node -> Task \cup {None}]
    /\ handed \in [Task -> Nat]

\* A task is executed or sent once at most, and kept by one queue, however
\* leadership moves between submission, rounds and awaits, and although several
\* nodes take themselves for the leader.
HandedOverOnce ==
    \A t \in Task :
        /\ handed[t] <= 1
        /\ \A n, p \in Node : status[n][t] # "none" /\ status[p][t] # "none" => n = p

\* The task whose sending is awaited stays in local_tasks, queued, whatever the
\* cleanup, submissions and the end of its ttl do meanwhile: the status written
\* after the await is not written to a forgotten task.
SendingIsQueued ==
    \A n \in Node : sending[n] # None =>
        status[n][sending[n]] = "queued" /\ sending[n] \notin todo[n]

\* While its process lives a task keeps its way: it leaves the queue only when
\* executed, sent or expired; sent, it stays running for ever; done or failed it
\* stays so, and is forgotten only when its ttl is over.
TaskLife ==
    [][\A n \in Node, t \in Task : up'[n] /\ status'[n][t] # status[n][t] =>
          \/ status[n][t] = "none" /\ t \notin submitted
          \/ status[n][t] = "queued" /\ status'[n][t] \in {"running", "done"}
                 /\ handed'[t] = 1
          \/ status[n][t] = "queued" /\ status'[n][t] = "failed"
                 /\ (t \in expired[n] \/ handed'[t] = 1)
          \/ status[n][t] \in {"done", "failed"} /\ status'[n][t] = "none"
                 /\ t \in expired[n]]_vars

\* A queue is worked off: a task is not left queued by a node that goes on taking
\* itself for the leader, elected or not.
QueueIsWorkedOff ==
    \A n \in Node, t \in Task :
        status[n][t] = "queued"
            ~> \/ status[n][t] # "queued"
               \/ leader_id[n] \notin {None, n}
=============================================================================
