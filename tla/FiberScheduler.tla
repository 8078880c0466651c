--------------------------- MODULE FiberScheduler ---------------------------
(***************************************************************************)
(* The fiber scheduler of engine/scheduler/fibers.py: one thread that runs *)
(* generators slice by slice from a heap ordered by (priority, id), and a  *)
(* SIGALRM handler that interrupts it anywhere.                            *)
(*                                                                         *)
(* The heap is a multiset: queued[f] counts the entries of fiber f.  Time  *)
(* is abstracted: any sleeper may be due, and the signal may arrive at any *)
(* moment.  What a fiber's body does in a slice is chosen freely.  Inside  *)
(* a generator the StopIteration raised by sleep and yield_fiber turns     *)
(* into a RuntimeError that ends the generator (PEP 479).                  *)
(***************************************************************************)
EXTENDS Integers, FiniteSets

CONSTANTS MaxFibers,   \* bound: fibers spawned in a behaviour
          MaxSignals,  \* bound: SIGALRMs in a behaviour
          Requested    \* priorities asked for in spawn, in or out of range

ASSUME FiberAssumption ==
    /\ MaxFibers \in Nat \ {0}
    /\ MaxSignals \in Nat
    /\ Requested \subseteq Int

Fiber == 1..MaxFibers
NoFiber == 0

VARIABLES
    spawned,   \* Fiber.COUNTER: the fibers so far are 1..spawned
    priority,  \* fiber -> its clamped priority
    gen,       \* fiber -> "None", "suspended", "running" or "finished"
    queued,    \* fiber -> its entries in the run queue
    sleepers,  \* fibers in the sleepers list
    running,   \* the flag that keeps start going
    current,   \* scheduler.current
    popped,    \* the fiber start popped and has not yet dispatched
    pc,        \* "outside" start, in its "loop", or in a fiber's "body"
    signals    \* SIGALRMs so far

vars == <<spawned, priority, gen, queued, sleepers, running, current, popped,
          pc, signals>>

\* Mutant: the upper end of the range is forgotten.
ClampBelow(p) == IF p < 0 THEN 0 ELSE p

\* The priority range of Fiber.__init__.
Clamp(p) == IF p < 0 THEN 0 ELSE IF p > 255 THEN 255 ELSE p

\* Heap order: entries are (priority, id, fiber).
Before(f, g) == \/ priority[f] < priority[g]
                \/ priority[f] = priority[g] /\ f < g

Push(q, f) == [q EXCEPT ![f] = @ + 1]

Init ==
    /\ spawned = 0
    /\ priority = [f \in Fiber |-> 0]
    /\ gen = [f \in Fiber |-> "None"]
    /\ queued = [f \in Fiber |-> 0]
    /\ sleepers = {}
    /\ running = FALSE
    /\ current = NoFiber
    /\ popped = NoFiber
    /\ pc = "outside"
    /\ signals = 0
-----------------------------------------------------------------------------
(* The public interface, called before start or from the body of a fiber *)

Calling == pc \in {"outside", "body"}

\* spawn of a generator function, or of a plain function, which runs to its end
\* inside spawn and leaves gen = None.
Spawn(p, plain) ==
    /\ Calling
    /\ spawned < MaxFibers
    /\ spawned' = spawned + 1
    /\ priority' = [priority EXCEPT ![spawned + 1] = Clamp(p)]
    /\ gen' = [gen EXCEPT ![spawned + 1] = IF plain THEN "None" ELSE "suspended"]
    /\ queued' = Push(queued, spawned + 1)
    /\ UNCHANGED <<sleepers, running, current, popped, pc, signals>>

\* cancel forgets the generator; one that is running goes on to its next yield.
Cancel(f) ==
    /\ Calling
    /\ f <= spawned
    /\ gen[f] # "running"
    /\ gen' = [gen EXCEPT ![f] = "None"]
    /\ UNCHANGED <<spawned, priority, queued, sleepers, running, current, popped,
                   pc, signals>>

Stop ==
    /\ Calling
    /\ running' = FALSE
    /\ UNCHANGED <<spawned, priority, gen, queued, sleepers, current, popped, pc,
                   signals>>

Start ==
    /\ pc = "outside"
    /\ running' = TRUE
    /\ pc' = "loop"
    /\ UNCHANGED <<spawned, priority, gen, queued, sleepers, current, popped,
                   signals>>
-----------------------------------------------------------------------------
(* The loop of start *)

\* Mutant: the queue is ordered by age alone.
OldestIn(f, ready) == \A g \in ready : f <= g

\* The fiber that heappop returns.
FirstIn(f, ready) == \A g \in ready \ {f} : Before(f, g)

\* _wake_sleepers: the due sleepers are pushed.
Woken(due) == [f \in Fiber |-> queued[f] + (IF f \in due THEN 1 ELSE 0)]

\* _wake_sleepers and runq.pop: the due sleepers join the queue, whose first entry
\* is taken; on an empty queue the loop sleeps and tries again.
WakeAndPop ==
    /\ pc = "loop" /\ running /\ popped = NoFiber
    /\ \E due \in SUBSET sleepers :
           LET q == Woken(due)
               ready == {f \in Fiber : q[f] > 0}
           IN  /\ sleepers' = sleepers \ due
               /\ IF ready = {} THEN UNCHANGED <<queued, popped>>
                  ELSE \E f \in ready :
                           /\ FirstIn(f, ready)
                           /\ queued' = [q EXCEPT ![f] = @ - 1]
                           /\ popped' = f
    /\ UNCHANGED <<spawned, priority, gen, running, current, pc, signals>>

\* Mutant: whatever has not been cancelled is run.
UnlessCancelled(f) == gen[f] # "None"

\* The fibers whose generator next resumes.
Resumable(f) == gen[f] = "suspended"

\* Mutant: current is not set before the fiber runs.
DispatchUnnoticed ==
    /\ pc = "loop" /\ popped # NoFiber
    /\ popped' = NoFiber
    /\ IF Resumable(popped)
       THEN /\ gen' = [gen EXCEPT ![popped] = "running"]
            /\ pc' = "body"
       ELSE UNCHANGED <<gen, pc>>
    /\ UNCHANGED <<spawned, priority, queued, sleepers, running, current, signals>>

\* _run_fiber up to the body: a cancelled fiber is dropped, a finished generator
\* raises StopIteration at once, a suspended one is resumed.
Dispatch ==
    /\ pc = "loop" /\ popped # NoFiber
    /\ current' = popped
    /\ popped' = NoFiber
    /\ IF Resumable(popped)
       THEN /\ gen' = [gen EXCEPT ![popped] = "running"]
            /\ pc' = "body"
       ELSE UNCHANGED <<gen, pc>>
    /\ UNCHANGED <<spawned, priority, queued, sleepers, running, signals>>

ExitLoop ==
    /\ pc = "loop" /\ ~running /\ popped = NoFiber
    /\ pc' = "outside"
    /\ UNCHANGED <<spawned, priority, gen, queued, sleepers, running, current,
                   popped, signals>>
-----------------------------------------------------------------------------
(* How a slice of the current fiber ends *)

EndSlice(g) ==
    /\ pc = "body"
    /\ pc' = "loop"
    /\ gen' = [gen EXCEPT ![current] = g]
    /\ UNCHANGED <<spawned, priority, running, current, popped, signals>>

\* Mutant: a fiber that yields is not pushed.
YieldUnpushed ==
    /\ EndSlice("suspended")
    /\ UNCHANGED <<queued, sleepers>>

\* The body yields: the fiber is pushed again.
Yield ==
    /\ EndSlice("suspended")
    /\ queued' = Push(queued, current)
    /\ UNCHANGED sleepers

\* The body cancels its own fiber and then yields: gen is None, yet it is pushed.
CancelSelfAndYield ==
    /\ EndSlice("None")
    /\ queued' = Push(queued, current)
    /\ UNCHANGED sleepers

\* The body returns or raises, having cancelled its own fiber or not.
Finish ==
    /\ EndSlice("finished")
    /\ UNCHANGED <<queued, sleepers>>

\* The body calls scheduler.sleep: the fiber is a sleeper, and is ended.
Sleep ==
    /\ EndSlice("finished")
    /\ sleepers' = sleepers \cup {current}
    /\ UNCHANGED queued

\* The body calls scheduler.yield_fiber: the fiber is pushed, and is ended.
YieldFiber ==
    /\ EndSlice("finished")
    /\ queued' = Push(queued, current)
    /\ UNCHANGED sleepers

\* SIGALRM: the fiber that ran last is pushed, running or not, finished or not;
\* the body it interrupts goes on.
Preempt ==
    /\ current # NoFiber
    /\ signals < MaxSignals
    /\ signals' = signals + 1
    /\ queued' = Push(queued, current)
    /\ UNCHANGED <<spawned, priority, gen, sleepers, running, current, popped, pc>>

SliceEnds == Yield \/ CancelSelfAndYield \/ Finish \/ Sleep \/ YieldFiber

Loop == WakeAndPop \/ Dispatch \/ ExitLoop

Next ==
    \/ \E p \in Requested, plain \in BOOLEAN : Spawn(p, plain)
    \/ \E f \in Fiber : Cancel(f)
    \/ Stop
    \/ Start
    \/ Loop
    \/ SliceEnds
    \/ Preempt

\* The thread keeps running: the loop is never idle, and bodies are cooperative.
Fairness == WF_vars(Loop) /\ WF_vars(SliceEnds)

Spec == Init /\ [][Next]_vars /\ Fairness
-----------------------------------------------------------------------------
(* Properties *)

TypeOK ==
    /\ spawned \in 0..MaxFibers
    /\ priority \in [Fiber -> 0..255]
    /\ gen \in [Fiber -> {"None", "suspended", "running", "finished"}]
    /\ queued \in [Fiber -> Nat]
    /\ sleepers \subseteq Fiber
    /\ running \in BOOLEAN
    /\ current \in Fiber \cup {NoFiber}
    /\ popped \in Fiber \cup {NoFiber}
    /\ pc \in {"outside", "loop", "body"}
    /\ signals \in 0..MaxSignals

Alive(f) == gen[f] \in {"suspended", "running"}

\* No fiber is lost: one that can still run has an entry in the queue, or has just
\* been popped, or is the one that runs.
NoFiberLost ==
    \A f \in Fiber : gen[f] = "suspended" => queued[f] > 0 \/ popped = f

\* At most the current fiber is running, and only inside its body, however many
\* stale entries of it the signal handler pushed meanwhile.
OneBodyAtATime ==
    \A f \in Fiber : gen[f] = "running" <=> pc = "body" /\ current = f

\* The body that is started is that of the first live fiber in (priority, id)
\* order, although the signal handler pushes entries between pop and dispatch.
NoPriorityInversion ==
    [][\A f \in Fiber : gen[f] # "running" /\ gen'[f] = "running" =>
          \A g \in Fiber \ {f} : Alive(g) => Before(f, g)]_vars

\* A fiber that was cancelled, returned or crashed never runs again, though timers,
\* the signal handler and yields keep queueing it.
DeadStaysDead ==
    [][\A f \in 1..spawned : ~Alive(f) => ~Alive(f)']_vars

\* While start runs, a live fiber that no live fiber precedes gets its slice,
\* unless the scheduler is stopped or the fiber is cancelled.
FirstFiberRuns ==
    \A f \in Fiber :
        (pc # "outside" /\ gen[f] = "suspended")
            ~> \/ gen[f] # "suspended"
               \/ ~running
               \/ \E g \in Fiber \ {f} : Alive(g) /\ Before(g, f)
=============================================================================
