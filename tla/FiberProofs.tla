---------------------------- MODULE FiberProofs ----------------------------
(***************************************************************************)
(* Proofs about FiberScheduler, for any number of fibers and signals and   *)
(* any priorities asked for.                                               *)
(***************************************************************************)
EXTENDS FiberScheduler, TLAPS

(* The inductive invariant *)

\* Where the thread is: a body is that of a fiber, and only the loop holds a fiber
\* that it popped.
ThreadIsSomewhere ==
    /\ pc = "body" => current # NoFiber
    /\ popped # NoFiber => pc = "loop"

\* Ids that were not given yet are not in use.
UnspawnedIsNothing ==
    \A f \in Fiber : f > spawned => gen[f] = "None"

\* The fiber that was popped is the first of the live ones, and stays so until it is
\* dispatched, since nobody but the signal handler acts meanwhile.
PoppedIsFirst ==
    popped # NoFiber /\ gen[popped] = "suspended" =>
        \A g \in Fiber \ {popped} : Alive(g) => Before(popped, g)

IInv ==
    /\ TypeOK
    /\ NoFiberLost
    /\ OneBodyAtATime
    /\ ThreadIsSomewhere
    /\ UnspawnedIsNothing
    /\ PoppedIsFirst

\* The invariant holds before the first call.
LEMMA InvInit == Init => IInv
<1> SUFFICES ASSUME Init PROVE IInv
    OBVIOUS
<1>1. TypeOK
    <2>1. 0 \in 0 .. MaxFibers /\ 0 \in 0 .. MaxSignals /\ 0 \in 0 .. 255
        BY FiberAssumption
    <2>2. priority \in [Fiber -> 0 .. 255] /\ queued \in [Fiber -> Nat]
        BY <2>1 DEF Init
    <2>3. gen \in [Fiber -> {"None", "suspended", "running", "finished"}]
        BY DEF Init
    <2> QED BY <2>1, <2>2, <2>3 DEF Init, TypeOK
<1>2. NoFiberLost /\ OneBodyAtATime /\ ThreadIsSomewhere /\ UnspawnedIsNothing /\ PoppedIsFirst
    BY DEF Init, NoFiberLost, OneBodyAtATime, ThreadIsSomewhere, UnspawnedIsNothing,
           PoppedIsFirst, Fiber, NoFiber
<1> QED BY <1>1, <1>2 DEF IInv

\* A push adds one entry.
LEMMA PushAdds ==
    ASSUME TypeOK, NEW f \in Fiber
    PROVE  /\ Push(queued, f) \in [Fiber -> Nat]
           /\ Push(queued, f)[f] > 0
           /\ \A g \in Fiber : Push(queued, f)[g] >= queued[g]
BY DEF TypeOK, Push
-----------------------------------------------------------------------------
(* The steps *)

\* spawn takes the next id, whose fiber was nothing before.
LEMMA SpawnKeeps ==
    ASSUME IInv, NEW p \in Requested, NEW plain \in BOOLEAN, Spawn(p, plain)
    PROVE  IInv'
<1> DEFINE s == spawned + 1
<1>1. s \in Fiber /\ spawned \in Nat /\ gen[s] = "None"
    BY FiberAssumption DEF IInv, TypeOK, UnspawnedIsNothing, Spawn, Fiber
<1>2. Clamp(p) \in 0 .. 255
    BY FiberAssumption DEF Clamp
<1>3. TypeOK'
    <2>1. queued' \in [Fiber -> Nat]
        BY <1>1, PushAdds DEF IInv, Spawn
    <2>2. priority' \in [Fiber -> 0 .. 255]
        BY <1>2 DEF IInv, TypeOK, Spawn
    <2>3. gen' \in [Fiber -> {"None", "suspended", "running", "finished"}]
        BY DEF IInv, TypeOK, Spawn
    <2>4. spawned' \in 0 .. MaxFibers
        BY <1>1, FiberAssumption DEF Spawn
    <2> QED BY <2>1, <2>2, <2>3, <2>4 DEF IInv, TypeOK, Spawn
<1>4. \A f \in Fiber \ {s} : gen'[f] = gen[f] /\ queued'[f] >= queued[f]
    BY <1>1, PushAdds DEF IInv, TypeOK, Spawn
<1>5. gen'[s] # "running" /\ queued'[s] > 0
    BY <1>1, PushAdds DEF IInv, TypeOK, Spawn
<1>6. NoFiberLost'
    BY <1>1, <1>3, <1>4, <1>5 DEF IInv, TypeOK, NoFiberLost, Spawn
<1>7. OneBodyAtATime'
    BY <1>1, <1>4, <1>5 DEF IInv, OneBodyAtATime, Spawn
<1>8. UnspawnedIsNothing'
    BY <1>1, <1>4 DEF IInv, UnspawnedIsNothing, Spawn, Fiber
<1>9. ThreadIsSomewhere' /\ PoppedIsFirst'
    BY DEF IInv, ThreadIsSomewhere, PoppedIsFirst, Spawn, Calling
<1> QED BY <1>3, <1>6, <1>7, <1>8, <1>9 DEF IInv

\* cancel makes nobody live.
LEMMA CancelKeeps ==
    ASSUME IInv, NEW f \in Fiber, Cancel(f)
    PROVE  IInv'
<1>1. TypeOK'
    BY DEF IInv, TypeOK, Cancel
<1>2. \A g \in Fiber : gen'[g] = IF g = f THEN "None" ELSE gen[g]
    BY DEF IInv, TypeOK, Cancel
<1>3. NoFiberLost' /\ OneBodyAtATime' /\ UnspawnedIsNothing'
    BY <1>2 DEF IInv, NoFiberLost, OneBodyAtATime, UnspawnedIsNothing, Cancel
<1>4. ThreadIsSomewhere' /\ PoppedIsFirst'
    BY DEF IInv, ThreadIsSomewhere, PoppedIsFirst, Cancel, Calling
<1> QED BY <1>1, <1>3, <1>4 DEF IInv

\* stop, start and the end of the loop change no fiber.
LEMMA SwitchKeeps ==
    ASSUME IInv, Stop \/ Start \/ ExitLoop
    PROVE  IInv'
<1>1. /\ UNCHANGED <<spawned, priority, gen, queued, sleepers, current, popped, signals>>
      /\ running' \in BOOLEAN
      /\ \/ pc' = pc
         \/ pc \in {"outside", "loop"} /\ pc' \in {"outside", "loop"} /\ popped = NoFiber
    BY DEF IInv, TypeOK, ThreadIsSomewhere, Stop, Start, ExitLoop
<1>2. TypeOK'
    BY <1>1 DEF IInv, TypeOK
<1>3. NoFiberLost' /\ OneBodyAtATime' /\ UnspawnedIsNothing'
    BY <1>1 DEF IInv, NoFiberLost, OneBodyAtATime, UnspawnedIsNothing
<1>4. ThreadIsSomewhere' /\ PoppedIsFirst'
    BY <1>1 DEF IInv, ThreadIsSomewhere, PoppedIsFirst, Alive, Before
<1> QED BY <1>2, <1>3, <1>4 DEF IInv

\* What is popped is the first of the queue, where all the live fibers are.
LEMMA PopKeeps ==
    ASSUME IInv, WakeAndPop
    PROVE  IInv'
<1>1. PICK due \in SUBSET sleepers :
          LET q == Woken(due)
              ready == {f \in Fiber : q[f] > 0}
          IN  /\ sleepers' = sleepers \ due
              /\ IF ready = {} THEN UNCHANGED <<queued, popped>>
                 ELSE \E f \in ready :
                          /\ FirstIn(f, ready)
                          /\ queued' = [q EXCEPT ![f] = @ - 1]
                          /\ popped' = f
    BY DEF WakeAndPop
<1> DEFINE q == Woken(due)
           ready == {f \in Fiber : q[f] > 0}
<1>2. q \in [Fiber -> Nat] /\ \A f \in Fiber : q[f] >= queued[f]
    BY DEF IInv, TypeOK, Woken
<1>3. UNCHANGED <<spawned, priority, gen, running, current, pc, signals>>
    BY DEF WakeAndPop
<1>4. pc = "loop" /\ popped = NoFiber
    BY DEF WakeAndPop
<1>5. \A f \in Fiber : Alive(f) => f \in ready
    BY <1>2, <1>4 DEF IInv, TypeOK, NoFiberLost, OneBodyAtATime, Alive, Fiber, NoFiber
<1>6. OneBodyAtATime' /\ UnspawnedIsNothing'
    BY <1>3 DEF IInv, OneBodyAtATime, UnspawnedIsNothing
<1>7. sleepers' \subseteq Fiber
    BY <1>1 DEF IInv, TypeOK
<1>8. CASE ready = {}
    <2>1. UNCHANGED <<queued, popped>>
        BY <1>1, <1>8
    <2>2. TypeOK' /\ NoFiberLost' /\ ThreadIsSomewhere' /\ PoppedIsFirst'
        BY <1>3, <1>7, <2>1
        DEF IInv, TypeOK, NoFiberLost, ThreadIsSomewhere, PoppedIsFirst, Alive, Before
    <2> QED BY <1>6, <2>2 DEF IInv
<1>9. CASE ready # {}
    <2>1. PICK f \in ready : /\ FirstIn(f, ready)
                             /\ queued' = [q EXCEPT ![f] = @ - 1]
                             /\ popped' = f
        BY <1>1, <1>9
    <2>2. f \in Fiber /\ q[f] > 0
        OBVIOUS
    <2>3. queued' \in [Fiber -> Nat]
        BY <1>2, <2>1, <2>2
    <2>4. TypeOK'
        BY <1>3, <1>7, <2>1, <2>2, <2>3 DEF IInv, TypeOK
    <2>5. NoFiberLost'
        <3> SUFFICES ASSUME NEW g \in Fiber, gen[g] = "suspended", g # f
                     PROVE  queued'[g] > 0
            BY <1>3, <2>1 DEF NoFiberLost
        <3>1. queued[g] > 0
            BY <1>4 DEF IInv, NoFiberLost, Fiber, NoFiber
        <3>2. queued'[g] = q[g]
            BY <1>2, <2>1, <2>2
        <3> HIDE DEF q
        <3> QED BY <1>2, <3>1, <3>2 DEF IInv, TypeOK
    <2>6. ThreadIsSomewhere'
        BY <1>3, <1>4 DEF IInv, ThreadIsSomewhere
    <2>7. PoppedIsFirst'
        BY <1>3, <1>5, <2>1 DEF PoppedIsFirst, FirstIn, Alive, Before
    <2> QED BY <1>6, <2>4, <2>5, <2>6, <2>7 DEF IInv
<1> QED BY <1>8, <1>9

\* _run_fiber starts the body of the fiber it was given, or drops it.
LEMMA DispatchKeeps ==
    ASSUME IInv, Dispatch
    PROVE  IInv'
<1>1. popped \in Fiber /\ pc = "loop" /\ current' = popped /\ popped' = NoFiber
    BY DEF IInv, TypeOK, Dispatch
<1>2. UNCHANGED <<spawned, priority, queued, sleepers, running, signals>>
    BY DEF Dispatch
<1>3. \A f \in Fiber : gen[f] # "running"
    BY <1>1 DEF IInv, OneBodyAtATime
<1>4. CASE Resumable(popped)
    <2>1. gen' = [gen EXCEPT ![popped] = "running"] /\ pc' = "body" /\ gen[popped] = "suspended"
        BY <1>4 DEF Dispatch, Resumable
    <2>2. TypeOK'
        BY <1>1, <1>2, <2>1 DEF IInv, TypeOK
    <2>3. \A f \in Fiber : gen'[f] = IF f = popped THEN "running" ELSE gen[f]
        BY <2>1 DEF IInv, TypeOK
    <2>4. NoFiberLost' /\ OneBodyAtATime' /\ UnspawnedIsNothing'
        BY <1>1, <1>2, <1>3, <2>1, <2>3 DEF IInv, NoFiberLost, OneBodyAtATime, UnspawnedIsNothing
    <2>5. ThreadIsSomewhere' /\ PoppedIsFirst'
        BY <1>1, <2>1 DEF ThreadIsSomewhere, PoppedIsFirst, Fiber, NoFiber
    <2> QED BY <2>2, <2>4, <2>5 DEF IInv
<1>5. CASE ~Resumable(popped)
    <2>1. UNCHANGED <<gen, pc>> /\ gen[popped] # "suspended"
        BY <1>5 DEF Dispatch, Resumable
    <2>2. TypeOK'
        BY <1>1, <1>2, <2>1 DEF IInv, TypeOK
    <2>3. NoFiberLost' /\ OneBodyAtATime' /\ UnspawnedIsNothing'
        BY <1>1, <1>2, <1>3, <2>1 DEF IInv, NoFiberLost, OneBodyAtATime, UnspawnedIsNothing
    <2>4. ThreadIsSomewhere' /\ PoppedIsFirst'
        BY <1>1, <2>1 DEF ThreadIsSomewhere, PoppedIsFirst
    <2> QED BY <2>2, <2>3, <2>4 DEF IInv
<1> QED BY <1>4, <1>5

\* A slice ends with its fiber pushed, or with its generator gone.
LEMMA SliceKeeps ==
    ASSUME IInv, SliceEnds
    PROVE  IInv'
<1>1. pc = "body" /\ current \in Fiber /\ popped = NoFiber
    BY DEF IInv, TypeOK, ThreadIsSomewhere, SliceEnds, Yield, CancelSelfAndYield, Finish,
           Sleep, YieldFiber, EndSlice
<1>2. PICK g \in {"None", "suspended", "finished"} :
          /\ EndSlice(g)
          /\ queued' = queued \/ queued' = Push(queued, current)
          /\ g = "suspended" => queued' = Push(queued, current)
          /\ sleepers' \subseteq Fiber
    BY <1>1 DEF IInv, TypeOK, SliceEnds, Yield, CancelSelfAndYield, Finish, Sleep, YieldFiber
<1>3. /\ pc' = "loop" /\ gen' = [gen EXCEPT ![current] = g]
      /\ UNCHANGED <<spawned, priority, running, current, popped, signals>>
    BY <1>2 DEF EndSlice
<1>4. /\ queued' \in [Fiber -> Nat]
      /\ \A f \in Fiber : queued'[f] >= queued[f]
      /\ g = "suspended" => queued'[current] > 0
    BY <1>1, <1>2, PushAdds DEF IInv, TypeOK
<1>5. TypeOK'
    BY <1>2, <1>3, <1>4 DEF IInv, TypeOK
<1>6. \A f \in Fiber : gen'[f] = IF f = current THEN g ELSE gen[f]
    BY <1>3 DEF IInv, TypeOK
<1>7. NoFiberLost'
    <2> SUFFICES ASSUME NEW f \in Fiber, gen'[f] = "suspended"
                 PROVE  queued'[f] > 0 \/ popped' = f
        BY DEF NoFiberLost
    <2>1. CASE f = current
        BY <1>4, <1>6, <2>1
    <2>2. CASE f # current
        <3>1. queued[f] > 0
            BY <1>1, <1>6, <2>2 DEF IInv, NoFiberLost, Fiber, NoFiber
        <3> QED BY <1>4, <3>1 DEF IInv, TypeOK
    <2> QED BY <2>1, <2>2
<1>8. OneBodyAtATime'
    BY <1>1, <1>2, <1>3, <1>6 DEF IInv, OneBodyAtATime
<1>9. UnspawnedIsNothing'
    BY <1>1, <1>3, <1>6 DEF IInv, OneBodyAtATime, UnspawnedIsNothing
<1>10. ThreadIsSomewhere' /\ PoppedIsFirst'
    BY <1>1, <1>3 DEF ThreadIsSomewhere, PoppedIsFirst
<1> QED BY <1>5, <1>7, <1>8, <1>9, <1>10 DEF IInv

\* The signal handler only queues what ran last.
LEMMA PreemptKeeps ==
    ASSUME IInv, Preempt
    PROVE  IInv'
<1>1. current \in Fiber
    BY DEF IInv, TypeOK, Preempt
<1>2. UNCHANGED <<spawned, priority, gen, sleepers, running, current, popped, pc>>
    BY DEF Preempt
<1>3. queued' \in [Fiber -> Nat] /\ \A f \in Fiber : queued'[f] >= queued[f]
    BY <1>1, PushAdds DEF IInv, Preempt
<1>4. signals' \in 0 .. MaxSignals
    BY FiberAssumption DEF IInv, TypeOK, Preempt
<1>5. TypeOK'
    BY <1>2, <1>3, <1>4 DEF IInv, TypeOK
<1>6. NoFiberLost'
    BY <1>2, <1>3 DEF IInv, TypeOK, NoFiberLost
<1>7. OneBodyAtATime' /\ UnspawnedIsNothing' /\ ThreadIsSomewhere' /\ PoppedIsFirst'
    BY <1>2 DEF IInv, OneBodyAtATime, UnspawnedIsNothing, ThreadIsSomewhere, PoppedIsFirst,
                Alive, Before
<1> QED BY <1>5, <1>6, <1>7 DEF IInv

\* Every step keeps the invariant.
LEMMA StepKeeps == IInv /\ [Next]_vars => IInv'
<1> SUFFICES ASSUME IInv, [Next]_vars PROVE IInv'
    OBVIOUS
<1>1. CASE \E p \in Requested, plain \in BOOLEAN : Spawn(p, plain)
    BY <1>1, SpawnKeeps
<1>2. CASE \E f \in Fiber : Cancel(f)
    BY <1>2, CancelKeeps
<1>3. CASE Stop \/ Start \/ ExitLoop
    BY <1>3, SwitchKeeps
<1>4. CASE WakeAndPop
    BY <1>4, PopKeeps
<1>5. CASE Dispatch
    BY <1>5, DispatchKeeps
<1>6. CASE SliceEnds
    BY <1>6, SliceKeeps
<1>7. CASE Preempt
    BY <1>7, PreemptKeeps
<1>8. CASE UNCHANGED vars
    BY <1>8 DEF IInv, TypeOK, NoFiberLost, OneBodyAtATime, ThreadIsSomewhere,
                UnspawnedIsNothing, PoppedIsFirst, Alive, Before, vars
<1> QED BY <1>1, <1>2, <1>3, <1>4, <1>5, <1>6, <1>7, <1>8 DEF Next, Loop

\* The invariant holds throughout.
LEMMA InvAlways == Spec => []IInv
BY InvInit, StepKeeps, PTL DEF Spec
-----------------------------------------------------------------------------
(* The theorems *)

\* The fields of the scheduler and of its fibers keep their types; priorities are
\* within the range of Fiber.__init__ whatever is asked for.
THEOREM TypeCorrect == Spec => []TypeOK
<1>1. IInv => TypeOK
    BY DEF IInv
<1> QED BY <1>1, InvAlways, PTL

\* A fiber that can still run is in the queue or has just been popped, however
\* spawn, cancel, yields, timers and the signal handler interleave.
THEOREM NothingLost == Spec => []NoFiberLost
<1>1. IInv => NoFiberLost
    BY DEF IInv
<1> QED BY <1>1, InvAlways, PTL

\* The signal handler, which queues a running fiber, never gets its body started
\* a second time.
THEOREM OneBody == Spec => []OneBodyAtATime
<1>1. IInv => OneBodyAtATime
    BY DEF IInv
<1> QED BY <1>1, InvAlways, PTL

\* The body that is started is that of the first live fiber, by priority and age.
THEOREM FirstComesFirst == Spec => NoPriorityInversion
<1> DEFINE A == \A f \in Fiber : gen[f] # "running" /\ gen'[f] = "running" =>
                    \A g \in Fiber \ {f} : Alive(g) => Before(f, g)
<1>1. ASSUME IInv, Next, NEW f \in Fiber, gen[f] # "running", gen'[f] = "running"
      PROVE  \A g \in Fiber \ {f} : Alive(g) => Before(f, g)
    <2>1. Dispatch
        BY <1>1 DEF Next, Loop, IInv, TypeOK, Spawn, Cancel, Stop, Start, WakeAndPop, ExitLoop,
                    SliceEnds, Yield, CancelSelfAndYield, Finish, Sleep, YieldFiber, EndSlice,
                    Preempt
    <2>2. f = popped /\ gen[popped] = "suspended" /\ popped # NoFiber
        BY <1>1, <2>1 DEF Dispatch, Resumable, IInv, TypeOK
    <2> QED BY <1>1, <2>2 DEF IInv, PoppedIsFirst
<1>2. IInv /\ [Next]_vars => [A]_vars
    BY <1>1
<1> QED BY <1>2, InvAlways, PTL DEF Spec, NoPriorityInversion

\* What is dead is never resumed, though timers, signals and yields go on queueing it.
THEOREM NoResurrection == Spec => DeadStaysDead
<1> DEFINE A == \A f \in 1 .. spawned : ~Alive(f) => ~Alive(f)'
<1>1. ASSUME IInv, Next, NEW f \in 1 .. spawned, ~Alive(f)
      PROVE  ~Alive(f)'
    <2>1. f \in Fiber /\ f # spawned + 1
        BY FiberAssumption, <1>1 DEF IInv, TypeOK, Fiber
    <2>2. gen[f] \notin {"suspended", "running"}
        BY <1>1 DEF Alive
    <2>3. CASE SliceEnds
        <3>1. PICK g : gen' = [gen EXCEPT ![current] = g] /\ pc = "body"
            BY <2>3 DEF SliceEnds, Yield, CancelSelfAndYield, Finish, Sleep, YieldFiber, EndSlice
        <3>2. f # current
            BY <1>1, <2>1, <2>2, <3>1 DEF IInv, OneBodyAtATime
        <3> QED BY <1>1, <2>1, <2>2, <3>1, <3>2 DEF Alive, IInv, TypeOK
    <2>4. CASE Dispatch
        BY <1>1, <2>1, <2>2, <2>4 DEF Dispatch, Resumable, Alive, IInv, TypeOK
    <2>5. CASE ~SliceEnds /\ ~Dispatch
        BY <1>1, <2>1, <2>2, <2>5 DEF Next, Loop, IInv, TypeOK, Alive, Spawn, Cancel, Stop, Start,
                                      WakeAndPop, ExitLoop, Preempt
    <2> QED BY <2>3, <2>4, <2>5
<1>2. IInv /\ [Next]_vars => [A]_vars
    BY <1>1
<1> QED BY <1>2, InvAlways, PTL DEF Spec, DeadStaysDead
=============================================================================
