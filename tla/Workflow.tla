------------------------------ MODULE Workflow ------------------------------
(***************************************************************************)
(* A workflow that outlives its process: the DAG engine of ExecutionGraph  *)
(* with the checkpoints of engine/cluster/workflow_state.py.               *)
(*                                                                         *)
(* The caller records nodes with update_node when it pleases, with the     *)
(* status, dependencies and retries they have then, or the whole graph     *)
(* with checkpoint.  WorkflowStateStore replaces the file of a workflow in *)
(* one atomic rename, so a crash leaves the checkpoint before or after it. *)
(* A resumed workflow is a new WorkflowDAG, finalized by resume_workflow,  *)
(* then given to run.                                                      *)
(***************************************************************************)
EXTENDS ExecutionGraph

CONSTANT MaxCrashes  \* bound: crashes in a behaviour

VARIABLES
    alive,     \* the process of the workflow runs
    recorded,  \* the nodes in the checkpoint, in its order
    saved,     \* node -> the status, dependencies and retries recorded for it
    crashes    \* crashes so far

wfVars == <<vars, alive, recorded, saved, crashes>>

WfInit ==
    /\ Init
    /\ alive = TRUE
    /\ recorded = <<>>
    /\ saved = [n \in Node |-> [status |-> "pending", deps |-> {}, retries |-> 0]]
    /\ crashes = 0

\* A step of the engine.
Engine(A) == alive /\ A /\ UNCHANGED <<alive, recorded, saved, crashes>>

\* What a caller records of a node.
State(n) == [status |-> status[n], deps |-> deps[n], retries |-> retries[n]]

\* checkpoint replaces the file by the state of the graph, in the form that update_node
\* writes, or in the one its comment shows, of statuses and results only.
Checkpoint ==
    /\ alive
    /\ recorded' = nodes
    /\ \/ saved' = [n \in Node |-> State(n)]
       \/ saved' = [n \in Node |-> [State(n) EXCEPT !.deps = {}, !.retries = 0]]
    /\ UNCHANGED <<vars, alive, crashes>>

\* update_node: load the checkpoint, put the node in, save it.
UpdateNode(n) ==
    /\ alive
    /\ n \in ToSet(nodes)
    /\ saved' = [saved EXCEPT ![n] = State(n)]
    /\ recorded' = IF n \in ToSet(recorded) THEN recorded ELSE Append(recorded, n)
    /\ UNCHANGED <<vars, alive, crashes>>

\* The process dies, with the DAG object, the run and its tasks.  Of the dependencies
\* those in the checkpoint are left.
Crash ==
    /\ alive
    /\ crashes < MaxCrashes
    /\ crashes' = crashes + 1
    /\ alive' = FALSE
    /\ phase' = "idle"
    /\ pos' = 1
    /\ met' = {}
    /\ job' = NoJobs
    /\ deps' = [n \in Node |-> saved[n].deps]
    /\ UNCHANGED <<nodes, status, retries, finalized, sorted, runs, recorded, saved>>

\* resume_workflow: the DAG is rebuilt from the checkpoint, with the dependencies it
\* finds there, and finalized, and then the recorded statuses are applied.
Resume ==
    /\ ~alive
    /\ recorded # <<>>
    /\ alive' = TRUE
    /\ nodes' = recorded
    /\ status' = [n \in Node |-> saved[n].status]
    /\ retries' = [n \in Node |-> saved[n].retries]
    /\ finalized' = 1
    /\ IF Unknown(recorded) \/ Cyclic(recorded)
       THEN phase' = "rejected" /\ sorted' = <<>>
       ELSE UNCHANGED phase /\ sorted' = Toposort(recorded, 1)
    /\ UNCHANGED <<deps, runs, pos, met, job, recorded, saved, crashes>>

WfNext ==
    \/ Engine(Next)
    \/ \E n \in Node : UpdateNode(n)
    \/ Checkpoint
    \/ Crash
    \/ Resume

WfFairness ==
    /\ WF_wfVars(Engine(Loop))
    /\ \A r \in 1..MaxRuns, n \in Node : WF_wfVars(Engine(Task(r, n)))

WfSpec == WfInit /\ [][WfNext]_wfVars /\ WfFairness
-----------------------------------------------------------------------------
\* "resumes incomplete nodes", "replays DAG execution" (workflow_state.py:123): a
\* run of a resumed workflow ends, unless its process dies too.
ResumedRunEnds == (alive /\ Executing /\ crashes = 1) ~> (~Executing \/ crashes > 1)
=============================================================================
