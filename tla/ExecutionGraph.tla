--------------------------- MODULE ExecutionGraph ---------------------------
(***************************************************************************)
(* The DAG engine of engine/cluster/execution_graph.py: WorkflowDAG, with  *)
(* finalize, and ExecutionGraphEngine.run, a coroutine that launches one   *)
(* asyncio task per node and polls the statuses of their dependencies.     *)
(*                                                                         *)
(* The DAG object outlives a run, with its statuses, its retries and the   *)
(* children lists finalize appends to, and may be run again.  Tasks of a   *)
(* run that raised are not cancelled.  dist.submit and the future it gives *)
(* are external: they succeed or raise at any moment.  The waiting loop    *)
(* takes the dependencies of a node in any order.                          *)
(***************************************************************************)
EXTENDS Integers, FiniteSets, SequencesExt

CONSTANTS Node,        \* node ids
          Graphs,      \* the dependency functions a workflow may have
          Insertions,  \* the orders in which its nodes may be added
          MaxRetries,  \* bound: retries of a node
          MaxRuns      \* bound: calls of run

ASSUME GraphAssumption ==
    /\ Graphs \subseteq [Node -> SUBSET Node]
    /\ \A g \in Graphs : \A n \in Node : IsFiniteSet(g[n])
    /\ Insertions \subseteq Seq(Node)
    /\ \A ns \in Insertions : \A i, j \in 1..Len(ns) : ns[i] = ns[j] => i = j
    /\ MaxRetries \in Nat /\ MaxRuns \in Nat

VARIABLES
    nodes,      \* the node ids in dict order
    deps,       \* node -> its dependencies
    status,     \* node -> "pending", "running", "done" or "failed"
    retries,    \* node -> retries left
    finalized,  \* calls of finalize: every child is listed that many times
    sorted      \* the order of the last _toposort

VARIABLES
    phase,  \* "idle", in run "launching" or "awaiting", or how run last ended:
            \* "completed", "raised", or "rejected" by finalize
    runs,   \* calls of run so far
    pos,    \* index in sorted of the node run is looking at
    met,    \* its dependencies already found done
    job     \* run -> node -> its task: "none", "created", "executing",
            \* "returned" or "raised"

dagVars == <<nodes, deps, status, retries, finalized, sorted>>
runVars == <<phase, runs, pos, met, job>>
vars    == <<dagVars, runVars>>

NoJobs == [r \in 1..MaxRuns |-> [n \in Node |-> "none"]]

Init ==
    /\ nodes \in Insertions
    /\ deps \in Graphs
    /\ status = [n \in Node |-> "pending"]
    /\ retries \in [Node -> 0..MaxRetries]
    /\ finalized = 0
    /\ sorted = <<>>
    /\ phase = "idle"
    /\ runs = 0
    /\ pos = 1
    /\ met = {}
    /\ job = NoJobs
-----------------------------------------------------------------------------
(* finalize *)

\* _build_graph looks up a dependency that was never added.
Unknown(ns) == \E n \in ToSet(ns) : ~(deps[n] \subseteq ToSet(ns))

\* What the depth-first search of _check_cycles finds: a cycle is there when some
\* nodes depend on one another only.
Cyclic(ns) == \E C \in SUBSET ToSet(ns) \ {{}} : \A n \in C : deps[n] \cap C # {}

\* The nodes of ns that are in S, in their order.
Among(ns, S) ==
    LET among[i \in 0..Len(ns)] ==
            IF i = 0 THEN <<>>
            ELSE IF ns[i] \in S THEN Append(among[i - 1], ns[i]) ELSE among[i - 1]
    IN  among[Len(ns)]

\* The children list of d after the given number of calls of _build_graph.
Children(ns, d, calls) ==
    FlattenSeq([i \in 1..calls |-> Among(ns, {c \in Node : d \in deps[c]})])

\* Mutant: a child is queued at its first parent.
VisitEarly(s, c) ==
    LET left == s.indeg[c] - 1
    IN  [s EXCEPT !.indeg[c] = left,
                  !.q = IF left = Cardinality(deps[c]) - 1 THEN Append(@, c) ELSE @]

\* _toposort decrements the indegree of a child, and queues it at zero.
Visit(s, c) ==
    LET left == s.indeg[c] - 1
    IN  [s EXCEPT !.indeg[c] = left,
                  !.q = IF left = 0 THEN Append(@, c) ELSE @]

\* The loop over the children of a node.
VisitAll(s, children) ==
    LET visited[i \in 0..Len(children)] ==
            IF i = 0 THEN s ELSE Visit(visited[i - 1], children[i])
    IN  visited[Len(children)]

\* The next node of the queue is appended to the order, and its children visited.
Pop(s, ns, calls) ==
    VisitAll([s EXCEPT !.q = Tail(@), !.order = Append(@, Head(s.q))],
             Children(ns, Head(s.q), calls))

\* _toposort, when the children lists were built by that many calls: no node is queued
\* twice, so that its loop ends after as many rounds as there are nodes.
Toposort(ns, calls) ==
    LET loop[i \in 0..Len(ns)] ==
            IF i = 0
            THEN [q     |-> Among(ns, {n \in Node : deps[n] = {}}),
                  indeg |-> [n \in Node |-> Cardinality(deps[n])],
                  order |-> <<>>]
            ELSE IF loop[i - 1].q = <<>> THEN loop[i - 1] ELSE Pop(loop[i - 1], ns, calls)
    IN  loop[Len(ns)].order
-----------------------------------------------------------------------------
(* run *)

\* run up to its loop: finalize, which appends to the children lists once more and
\* may raise.  The caller does not run a rejected DAG again.
Run ==
    /\ phase \in {"idle", "completed", "raised"}
    /\ runs < MaxRuns
    /\ finalized' = finalized + 1
    /\ runs' = runs + 1
    /\ pos' = 1
    /\ met' = {}
    /\ IF Unknown(nodes) \/ Cyclic(nodes)
       THEN phase' = "rejected" /\ UNCHANGED sorted
       ELSE phase' = "launching" /\ sorted' = Toposort(nodes, finalized + 1)
    /\ UNCHANGED <<nodes, deps, status, retries, job>>

\* The node the loop is looking at.
Candidate == sorted[pos]

\* A dependency is done: the loop looks at the next one.
DependencyDone(d) ==
    /\ phase = "launching" /\ pos <= Len(sorted)
    /\ d \in deps[Candidate] \ met
    /\ status[d] = "done"
    /\ met' = met \cup {d}
    /\ UNCHANGED <<dagVars, phase, runs, pos, job>>

\* A dependency failed: so does the node, and run raises.
DependencyFailed(d) ==
    /\ phase = "launching" /\ pos <= Len(sorted)
    /\ d \in deps[Candidate] \ met
    /\ status[d] = "failed"
    /\ status' = [status EXCEPT ![Candidate] = "failed"]
    /\ phase' = "raised"
    /\ UNCHANGED <<nodes, deps, retries, finalized, sorted, runs, pos, met, job>>

\* Mutant: it is enough that one dependency is done.
SomeMet == deps[Candidate] = {} \/ met # {}

\* The dependencies of the node have all been waited for.
AllMet == met = deps[Candidate]

\* All dependencies were found done: the node's task is created.
Launch ==
    /\ phase = "launching" /\ pos <= Len(sorted)
    /\ AllMet
    /\ job' = [job EXCEPT ![runs][Candidate] = "created"]
    /\ pos' = pos + 1
    /\ met' = {}
    /\ UNCHANGED <<dagVars, phase, runs>>

\* Every node is launched: run awaits their tasks.
LaunchedAll ==
    /\ phase = "launching" /\ pos > Len(sorted)
    /\ phase' = "awaiting"
    /\ pos' = 1
    /\ UNCHANGED <<dagVars, runs, met, job>>

\* Mutant: the exception of a task is dropped.
AwaitQuietly ==
    /\ phase = "awaiting" /\ pos <= Len(sorted)
    /\ job[runs][Candidate] \in {"returned", "raised"}
    /\ pos' = pos + 1
    /\ UNCHANGED <<dagVars, phase, runs, met, job>>

\* The next task in the order of launching has ended; its exception is raised again.
Await ==
    /\ phase = "awaiting" /\ pos <= Len(sorted)
    /\ \/ /\ job[runs][Candidate] = "returned"
          /\ pos' = pos + 1
          /\ UNCHANGED phase
       \/ /\ job[runs][Candidate] = "raised"
          /\ phase' = "raised"
          /\ UNCHANGED pos
    /\ UNCHANGED <<dagVars, runs, met, job>>

Complete ==
    /\ phase = "awaiting" /\ pos > Len(sorted)
    /\ phase' = "completed"
    /\ UNCHANGED <<dagVars, runs, pos, met, job>>
-----------------------------------------------------------------------------
(* run_node, the task of a node in the r-th run *)

\* The task runs for the first time and submits the node.
Submit(r, n) ==
    /\ job[r][n] = "created"
    /\ job' = [job EXCEPT ![r][n] = "executing"]
    /\ status' = [status EXCEPT ![n] = "running"]
    /\ UNCHANGED <<nodes, deps, retries, finalized, sorted, phase, runs, pos, met>>

\* submit and the future return.
Succeed(r, n) ==
    /\ job[r][n] = "executing"
    /\ job' = [job EXCEPT ![r][n] = "returned"]
    /\ status' = [status EXCEPT ![n] = "done"]
    /\ UNCHANGED <<nodes, deps, retries, finalized, sorted, phase, runs, pos, met>>

\* They raise, with retries left: the node is submitted again, at once.
Retry(r, n) ==
    /\ job[r][n] = "executing"
    /\ retries[n] > 0
    /\ retries' = [retries EXCEPT ![n] = @ - 1]
    /\ status' = [status EXCEPT ![n] = "running"]
    /\ UNCHANGED <<nodes, deps, finalized, sorted, runVars>>

\* Mutant: a node without retries left is not marked.
FailUnmarked(r, n) ==
    /\ job[r][n] = "executing"
    /\ retries[n] = 0
    /\ job' = [job EXCEPT ![r][n] = "raised"]
    /\ UNCHANGED <<dagVars, phase, runs, pos, met>>

\* They raise, with no retries left.
Fail(r, n) ==
    /\ job[r][n] = "executing"
    /\ retries[n] = 0
    /\ job' = [job EXCEPT ![r][n] = "raised"]
    /\ status' = [status EXCEPT ![n] = "failed"]
    /\ UNCHANGED <<nodes, deps, retries, finalized, sorted, phase, runs, pos, met>>

Loop == \/ \E d \in Node : DependencyDone(d) \/ DependencyFailed(d)
        \/ Launch \/ LaunchedAll \/ Await \/ Complete

Task(r, n) == Submit(r, n) \/ Succeed(r, n) \/ Retry(r, n) \/ Fail(r, n)

Next ==
    \/ Run
    \/ Loop
    \/ \E r \in 1..MaxRuns, n \in Node : Task(r, n)

\* The event loop serves every coroutine; a submitted node is answered in the end.
Fairness == WF_vars(Loop) /\ \A r \in 1..MaxRuns, n \in Node : WF_vars(Task(r, n))

Spec == Init /\ [][Next]_vars /\ Fairness
-----------------------------------------------------------------------------
(* Properties *)

Status == {"pending", "running", "done", "failed"}

TypeOK ==
    /\ nodes \in Seq(Node)
    /\ deps \in [Node -> SUBSET Node]
    /\ status \in [Node -> Status]
    /\ retries \in [Node -> 0..MaxRetries]
    /\ finalized \in Nat
    /\ sorted \in Seq(Node)
    /\ phase \in {"idle", "launching", "awaiting", "completed", "raised", "rejected"}
    /\ runs \in 0..MaxRuns
    /\ pos \in 1..Len(sorted) + 1
    /\ met \subseteq Node
    /\ job \in [1..MaxRuns -> [Node ->
                   {"none", "created", "executing", "returned", "raised"}]]

Executing == phase \in {"launching", "awaiting"}

\* "Topological sorting" (execution_graph.py:7): a DAG finalized once lists every
\* node after its dependencies, and each node once.
OrderIsTopological ==
    finalized = 1 /\ Executing =>
        /\ ToSet(sorted) = ToSet(nodes) /\ Len(sorted) = Len(nodes)
        /\ \A i, j \in 1..Len(sorted) : sorted[i] \in deps[sorted[j]] => i < j

\* In a first run a node executes only while all it depends on is done, whatever
\* is retried, fails or is launched meanwhile.
DependenciesDone ==
    finalized = 1 =>
        \A n \in Node : job[1][n] \in {"executing", "returned"} =>
            \A d \in deps[n] : status[d] = "done"

\* No failure is lost: a first run that completes has all its nodes done, and one
\* that raised has a failed node to show for it.
OutcomeIsTrue ==
    runs = 1 =>
        /\ phase = "completed" => \A n \in ToSet(nodes) : status[n] = "done"
        /\ phase = "raised" => \E n \in ToSet(nodes) : status[n] = "failed"

\* A first run ends, completed or with an exception: the wait for a dependency is
\* not for ever, although a failed task wakes nobody.
FirstRunEnds == (Executing /\ runs = 1) ~> ~Executing
=============================================================================
