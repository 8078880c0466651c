------------------------------ MODULE EventBus ------------------------------
(***************************************************************************)
(* The event bus of engine/cluster/event_bus.py in every process, with the *)
(* RPC listener of engine/orchastrator/global_orchastrator.py that hands   *)
(* over forwarded events, over the Leadership that RaftCluster implements. *)
(*                                                                         *)
(* Everything in a process runs on one event loop: tasks take turns where  *)
(* they await, and while scheduler.start runs the fibers of an event       *)
(* nothing else does, RAFT included.  Nothing stops that scheduler: no     *)
(* callback is given it.  An event stands for its channel, its payload and *)
(* its timestamp, which no two events share.                               *)
(***************************************************************************)
EXTENDS Leadership, Integers, FiniteSets, SequencesExt

CONSTANTS
    Channel,
    Event,
    channel,    \* event -> its channel
    MaxSubs     \* bound: callbacks that a process subscribes to a channel

ASSUME EventAssumption ==
    /\ channel \in [Event -> Channel] /\ MaxSubs \in Nat
    /\ None \notin Node /\ IsFiniteSet(Node)

VARIABLES
    subs,       \* node -> channel -> callbacks, numbered in the order of subs
    queue,      \* node -> the events of local_queue
    sends,      \* node -> event -> the sends publish has still to make, or NoPublish
    forwards,   \* event_forward messages on their way, numbered by publish
    blocked,    \* node -> its loop is in scheduler.start
    history,    \* node -> the events in its shard, on disk
    published,  \* events so far
    calls       \* node -> what its subscribers were called with, since it started

NoPublish == -1

busVars == <<subs, queue, sends, forwards, blocked, history, published, calls>>
clusterVars == <<leadershipVars, busVars>>

BusInit ==
    /\ Init
    /\ subs = [n \in Node |-> [c \in Channel |-> 0]]
    /\ queue = [n \in Node |-> <<>>]
    /\ sends = [n \in Node |-> [e \in Event |-> NoPublish]]
    /\ forwards = {}
    /\ blocked = [n \in Node |-> FALSE]
    /\ history = [n \in Node |-> {}]
    /\ published = {}
    /\ calls = [n \in Node |-> <<>>]

Runs(n) == up[n] /\ ~blocked[n]

Subscribe(n, c) ==
    /\ Runs(n)
    /\ subs[n][c] < MaxSubs
    /\ subs' = [subs EXCEPT ![n][c] = @ + 1]
    /\ UNCHANGED <<leadershipVars, queue, sends, forwards, blocked, history, published, calls>>
-----------------------------------------------------------------------------
(* publish *)

Leads(n) == leader_id[n] \in {n, None}

\* Mutant: publish sends the event on and stores nothing.
StoreNothing(n, e) == history' = history

\* _store_event_strong, which put_strong does on the own shard of a leader.
Store(n, e) == history' = [history EXCEPT ![n] = @ \cup {e}]

\* A leader stores the event and turns to its peers.
Publish(n, e) ==
    /\ Runs(n) /\ e \notin published
    /\ Leads(n)
    /\ published' = published \cup {e}
    /\ Store(n, e)
    /\ sends' = [sends EXCEPT ![n][e] = Cardinality(Node \ {n})]
    /\ UNCHANGED <<leadershipVars, subs, queue, forwards, blocked, calls>>

\* Elsewhere the leader is sent an "event", which no listener handles.
PublishElsewhere(n, e) ==
    /\ Runs(n) /\ e \notin published
    /\ ~Leads(n)
    /\ published' = published \cup {e}
    /\ UNCHANGED <<leadershipVars, subs, queue, sends, forwards, blocked, history, calls>>

\* _send_to_peer, once for every position of peer_ports.  While a send is awaited
\* get_eventual may shuffle that list in place, so that the peer at the next position is
\* any.  The message leaves, or the exception is swallowed.
Forward(n, e, p) ==
    /\ Runs(n) /\ sends[n][e] > 0
    /\ p # n
    /\ sends' = [sends EXCEPT ![n][e] = @ - 1]
    /\ \/ up[p] /\ forwards' = forwards \cup {[to |-> p, event |-> e, send |-> sends[n][e]]}
       \/ forwards' = forwards
    /\ UNCHANGED <<leadershipVars, subs, queue, blocked, history, published, calls>>

\* publish ends with the local queue.
Enqueue(n, e) ==
    /\ Runs(n) /\ sends[n][e] = 0
    /\ sends' = [sends EXCEPT ![n][e] = NoPublish]
    /\ queue' = [queue EXCEPT ![n] = Append(@, e)]
    /\ UNCHANGED <<leadershipVars, subs, forwards, blocked, history, published, calls>>

\* The listener takes the message, whole or in pieces that are no JSON, and
\* handle_forwarded_event queues the event.
HandleForwarded(m) ==
    /\ Runs(m.to)
    /\ forwards' = forwards \ {m}
    /\ \/ queue' = [queue EXCEPT ![m.to] = Append(@, m.event)]
       \/ queue' = queue
    /\ UNCHANGED <<leadershipVars, subs, sends, blocked, history, published, calls>>
-----------------------------------------------------------------------------
(* _local_dispatch_loop *)

\* Mutant: jobs run after the loop over the callbacks, when `callback` is the last.
CalledLate(e, callbacks) == [k \in 1 .. callbacks |-> <<e, callbacks>>]

\* fiber_job is no generator: spawn runs it at once, while `callback` is the callback
\* it was made for.  An exception of the callback is caught.
Called(e, callbacks) == [k \in 1 .. callbacks |-> <<e, k>>]

\* scheduler.start: the loop of the scheduler does not end.
StartScheduler(n) == blocked' = [blocked EXCEPT ![n] = TRUE]

\* _deliver_local of the next event: nobody subscribed, or one call each.
Deliver(n) ==
    /\ Runs(n) /\ queue[n] # <<>>
    /\ queue' = [queue EXCEPT ![n] = Tail(@)]
    /\ LET e == Head(queue[n])
           callbacks == subs[n][channel[e]]
       IN  IF callbacks = 0 THEN UNCHANGED <<calls, blocked>>
           ELSE /\ calls' = [calls EXCEPT ![n] = @ \o Called(e, callbacks)]
                /\ StartScheduler(n)
    /\ UNCHANGED <<leadershipVars, subs, sends, forwards, history, published>>
-----------------------------------------------------------------------------
(* Processes *)

\* The disk stays; messages to the process are lost, those from it are not.
BusCrash(n) ==
    /\ Crash(n)
    /\ subs' = [subs EXCEPT ![n] = [c \in Channel |-> 0]]
    /\ queue' = [queue EXCEPT ![n] = <<>>]
    /\ sends' = [sends EXCEPT ![n] = [e \in Event |-> NoPublish]]
    /\ forwards' = {m \in forwards : m.to # n}
    /\ blocked' = [blocked EXCEPT ![n] = FALSE]
    /\ calls' = [calls EXCEPT ![n] = <<>>]
    /\ UNCHANGED <<history, published>>

\* RAFT takes its turns on the same loop.
RaftMeanwhile ==
    /\ \E n \in Node : \/ Start(n)
                       \/ ~blocked[n] /\ (Win(n) \/ \E l \in Node : Learn(n, l))
    /\ UNCHANGED busVars

BusNext ==
    \/ RaftMeanwhile
    \/ \E n \in Node :
           \/ \E c \in Channel : Subscribe(n, c)
           \/ \E e \in Event : \/ Publish(n, e) \/ PublishElsewhere(n, e) \/ Enqueue(n, e)
                               \/ \E p \in Node : Forward(n, e, p)
           \/ Deliver(n) \/ BusCrash(n)
    \/ \E m \in forwards : HandleForwarded(m)

BusSpec == BusInit /\ [][BusNext]_clusterVars

\* A task that can run on the event loop does, as long as the loop turns.
BusFairness ==
    \A n \in Node :
        /\ WF_clusterVars(Deliver(n))
        /\ \A e \in Event : /\ WF_clusterVars(Enqueue(n, e))
                            /\ WF_clusterVars(\E p \in Node : Forward(n, e, p))

FairBusSpec == BusSpec /\ BusFairness
-----------------------------------------------------------------------------
(* Properties *)

\* Every subscriber that is called with an event is called right after the one that
\* subscribed before it, and with the same event: _deliver_local reads its loop variable
\* in time, whatever else is delivered, and leaves no callback out for another.  And the
\* event is on the disk of a process that took itself for the leader when it was
\* published, however often and by whichever way it came here and whichever processes
\* have crashed since: publish stores before it sends.
SeenInTurnAndStored ==
    \A n \in Node : \A i \in DOMAIN calls[n] :
        LET event == calls[n][i][1]
            callback == calls[n][i][2]
        IN  /\ callback > 1 => i > 1 /\ calls[n][i - 1] = <<event, callback - 1>>
            /\ \E m \in Node : event \in history[m]

\* "local delivery" (event_bus.py:97), by a loop that takes event after event from the
\* queue (event_bus.py:191-194): an event in the queue of a process leaves it, unless
\* the process ends.
QueuedIsDelivered ==
    \A n \in Node, e \in Event :
        (\E i \in DOMAIN queue[n] : queue[n][i] = e)
            ~> ~(\E i \in DOMAIN queue[n] : queue[n][i] = e)
=============================================================================
