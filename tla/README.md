# Verification of assertion-core

TLA+ models of assertion-core, of its cluster runtime and of its language toolchain, the
TLC configurations that check them on small instances, and proofs that TLAPS checks for
every instance.
Every definition is translated from the Python source; where the documentation and
the source disagree, the source is modelled. Four such disagreements are runs that are
expected to be violated; [section 3](#3-runs) says what they show, and lists the disagreements
that are in the models without a run, and those that no model shows.

Contents: [inventory](#1-inventory), [modules](#2-modules-and-their-code),
[runs](#3-runs), [bounds and fairness](#4-bounds-and-fairness), [proofs](#5-proofs),
[what is not modelled](#6-what-is-not-modelled), [plan](#7-plan).

## 1. Inventory

assertion-core is a language toolchain (front end, interpreter, IR, optimizer, VM,
JIT, WebAssembly) with a cluster runtime around it. The cluster runtime is asyncio
processes that talk JSON over TCP on 127.0.0.1, and one fiber scheduler driven by a
signal: state that interleaves. The toolchain is code over trees and instruction lists,
with an interpreter whose server runs handlers as tasks; what is hard there is that two
parsers and two ways to run a program should do what the source shows.

| component | state it keeps | operations | interacts with |
|---|---|---|---|
| RAFT engine `cluster/raft.py` | role, term, vote, leader_id, log, cached connections | election loop, heartbeat loop, RequestVote, AppendEntries | its peers over TCP; task queue, storage and event bus read `state` and `leader_id` |
| Gossip engine `cluster/gossip.py` | members (heartbeat, status, last update), store (value, version), peers | gossip round, anti-entropy, health check, put, three message handlers | its peers over TCP; task queue reads `members` |
| Fiber scheduler `scheduler/fibers.py` | heap of fibers, sleepers, current, running | spawn, start, stop, sleep, yield_fiber, cancel, SIGALRM | event bus and the runtime spawn fibers |
| Execution graph `cluster/execution_graph.py` | nodes with dependencies, children, status, retries; sorted | add, finalize, run, run_node | distributed API (`submit`, future) |
| Workflow state `cluster/workflow_state.py` | one JSON file per workflow | save, load, checkpoint, update_node, resume_workflow | execution graph |
| Task queue `cluster/task_queue.py` | queue of task records, running loops | submit, schedule, run locally, send to a node, cleanup | RAFT (`state`, `leader_id`), gossip (`members`) |
| Distributed storage `cluster/distributed_storage.py` | shards on disk, cache with times | put, get, delete, objects, replication | RAFT, gossip, peers over TCP |
| Manifest database `cluster/manifest_db.py` | versions, cache, history | put, get, history, rollback | distributed storage |
| Event bus `cluster/event_bus.py` | subscribers, local queue | publish, subscribe, fanout, deliver | RAFT, storage, fiber scheduler |
| Cluster engine `cluster/distributed.py` | a second RAFT (tick driven), gossip, transport | tick, start_election, append, apply | its peers |
| Mesh router, HTTP gateway | routes, client connections | request, forward | cluster components |
| DAG gateway `gateway/dag_integration.py` | node state map of a workflow | event handlers, replay | browsers over WebSocket |
| Console debugger, remote debugger | breakpoints, step mode, pause lock or event | pause, resume, step, wait | VM thread |
| Compiler, VM, disassembler `vm/` | instruction list; stack, slots, labels | lower, run | IR, orchestrator |
| IR, SSA, CFG, dominance `ir/` | blocks, registers, dominators | generate, dominators | semantic analyser, VM, optimizer |
| Optimizer | none | passes on instruction lists | IR, VM |
| JIT, WebAssembly | code buffers | emit, run | VM |
| Interpreter `runtime/` | environment, listeners, skills, files | run, event loop, request handlers | capabilities, front end |
| Runtime orchestrator, global orchestrator | selected backend; handles of all components | select, run, fall back; start, RPC | everything above |
| Front end `lexer/`, `parser/` (two parsers, tokenizer, analyser) | tokens and a position, or a stack of open blocks; recorded variables | tokenize, parse, check | interpreter, compiler |
| Security (licences, encryption, signing) | key files | sign, verify, encrypt | loader |
| Capabilities | table of taught functions | teach, call, evaluate | interpreter |
| Command lines, boot, build, studio | none of their own | | everything |

What makes each of the concurrent components hard, and what would make it correct:

* **RAFT engine.** Two loops and a server share one object across awaits. A connection
  is read once by its receiver and cached for ever by its sender, so almost all
  messages are lost. No vote is counted. Correct: votes within a term do not change, a
  leader is deposed only by a real competitor, leader_id is never invented, an election
  ends in a leadership; a term has one leader (it does not).
* **Gossip engine.** Members are keyed by int where a node writes its own and by string
  where it decodes JSON. The payload refers to the live store. Verdicts race heartbeats.
  Correct: heartbeats and values are never invented or mixed, versions never go back,
  stores agree when nothing is on its way, only the silent are declared dead (not so).
* **Fiber scheduler.** A signal pushes entries between any two steps. Correct: no live
  fiber is lost, one body runs at a time, the order of priorities is kept, the dead stay
  dead, the first fiber gets its slice, a sleeper wakes up (it does not).
* **Execution graph.** Tasks, their retries and the polling loop share statuses; the DAG
  outlives a run, and finalize is not idempotent. Correct: dependencies are done before
  a node executes, the result of run is true, run ends.
* **Workflow state.** A crash falls between any two updates. Correct: what is resumed is
  what was recorded, and a resumed run ends (it may not).
* **Task queue.** Leadership and membership are read before awaits and used after them;
  messages to a leader are of a form it ignores. Correct: a task is handed over at most
  once, keeps its way from queued to forgotten, and is worked off.
* **Storage and manifests.** Strong writes leave for the leader and are reported as done;
  cached reads are stale; history is read, extended in a list that the cache shares, and
  written back; an empty answer is stored as an object; an object is written through a .tmp
  file that a thread and the listener share. Correct: a cache never hides the own disk,
  whoever put an object keeps it, a history is only ever extended, a node reads what it wrote
  strongly (it may not).
* **Event bus.** Delivery runs the fiber scheduler inside the event loop; the list of peers
  is shuffled while an event is sent along it. Correct: each subscriber of a channel is called
  in turn, with the event that is delivered, which was stored first; every event that is queued
  is delivered (it is not: see EventBus below).
* **Front end.** Blocks are opened, left and resumed by indentation, and Else goes to
  whatever If comes last. Correct: statements end up in the block that they stand under
  (under a strict head with a colon they do not).
* **Compiler and VM against the interpreter.** Registers outlive the branch that sets them,
  blocks share names, slots and the environment have different defaults. Correct: a
  compiled program does what the interpreted one does.
* **Interpreter.** A server's handlers and the main task take turns at awaits and share the
  environment and the list of listeners. Correct: a request that is taken is answered.
* **Debuggers.** A lock held from the start; an event set by one thread and cleared by
  another. Correct: a resumed thread runs, a paused one waits.

PROJECT.json lists these hazards with the lines they bite at, and the properties that
cover them.

## 2. Modules and their code

### RaftCluster (`engine/cluster/raft.py`)

The file contains its module twice; the second copy (from line 304) replaces the first
and is the one modelled.

State: one function over nodes per field of RaftNode (`state`, `current_term`,
`voted_for`, `leader_id`), `campaigning` for a coroutine asleep inside `_start_election`,
and three places where a message can be: `opening` (awaiting `open_connection`),
`buffer` (unread on the cached connection) and `displaced` (unread on a connection that
a later send replaced in `transport_cache`). `campaigned` and `elected` are histories.

| action | code |
|---|---|
| Start | start |
| StartElection | _election_loop when it fires, _start_election up to its sleep |
| FinishElection | _start_election after its sleep |
| Heartbeat | one round of _heartbeat_loop |
| Connect, ConnectFails | the two ends of open_connection in _send_rpc |
| HandleRequestVote, HandleAppendEntries | _handle_connection with the RPC it dispatches to |
| Crash | the process ends; a new object starts from nothing, since nothing is saved |

Abstracted: the election timeout may have elapsed at any moment; logs, which never grow
in this code; replies, which no sender reads; ports and JSON. Kept: that a receiver reads
once, that two messages read together are not JSON and both lost, that a sender never
learns that its connection is spent, and that open_connection can be awaited by several
sends at once.

### Leadership (abstract)

What the rest of the cluster may count on when it reads `leader_id`: it names nobody, the
node itself after an election of its own, or another node that won an election once. It is
the abstract specification of RaftCluster (`ImplementsLeadership`, with `winners` mapped to
the nodes of `elected`), and the environment of TaskQueue, so that what is shown of the
queue holds over every behaviour of RAFT without its messages.

### Gossip (`engine/cluster/gossip.py`)

`members[n]` are the string-keyed Members of a node, `heartbeat[n]` its int-keyed own
one; `Payload` decodes what a receiver sees of both. A message holds a copy of the
members (made when the round starts) but refers to the store of its sender, read when
it is delivered, as `_gossip_loop` builds it. Time is counted in gossip intervals; `Tick`
passes one. `Timely` is a parameter of the environment: when TRUE, every loop and
message keeps up with the clock, as in the run; the theorems are about both.

| action | code |
|---|---|
| GossipRound, AntiEntropy, HealthCheck | one round of _gossip_loop, _anti_entropy_loop, _health_checker |
| Put | put, with its update to all peers |
| HandleState | _handle_gossip and _handle_sync, which do the same |
| HandleUpdate | _handle_kv_update |
| SendFails | the except of _send |
| Tick | time.time() of the host |
| Crash, Restart | the process ends; start in a new one |

### FiberScheduler (`engine/scheduler/fibers.py`)

The heap is a multiset `queued`, from which `WakeAndPop` takes the first entry in
(priority, id) order. `pc` says whether the thread is outside start, in its loop or in a
fiber's body; `popped` is the fiber between pop and _run_fiber, where a signal may fall.
The body of a fiber is free: it may yield, return, raise, spawn, cancel, stop, sleep or
call yield_fiber. Inside a generator the StopIteration that the last two raise becomes
RuntimeError and ends the generator (PEP 479), so both end the fiber.
A body that calls start again is not modelled: the inner loop never gives control back.

### ExecutionGraph (`engine/cluster/execution_graph.py`)

The file imports `engine.cluster.distributed_api`, which the repository does not have, so it
does not load as it stands. Its logic is complete without that module, of which it calls submit
and awaits the future, and workflow_state.py builds on it; it is modelled, with that API external.

`Toposort` is _toposort as written, over the children lists that `finalized` calls of
finalize have built; the depth-first search of _check_cycles is abstracted to what it
finds. `Run` to `Complete` are the coroutine run between its awaits (`DependencyDone`,
`DependencyFailed`, `Launch`, `LaunchedAll`, `Await`), and `Submit`, `Succeed`, `Retry`,
`Fail` the task of one node in one run. submit and the future are external: they succeed
or raise at any moment.

### Workflow (`engine/cluster/workflow_state.py`, extends ExecutionGraph)

A composition: every step of the engine, lifted by `Engine`, interleaved with
update_node and checkpoint at the caller's pleasure, a crash that leaves the file as the last
atomic rename left it, and resume_workflow, which rebuilds and finalizes the DAG. checkpoint
writes what it is given: in the form its comment shows, of statuses and results, the
dependencies are gone, and the resumed workflow has none.

### TaskQueue (`engine/cluster/task_queue.py`, extends Leadership)

The queues of all processes. As in raft.py, the second copy of the module (from line 286)
counts. `status[n]` is `local_tasks` of node n, "none" for an absent id; `todo[n]` is the
rest of the list that a round walks, `sending[n]` the task whose `_send_task_remote` is
awaited; `handed` counts executions and sendings.

| action | code |
|---|---|
| Submit | submit_task: into the own queue, or away to the leader |
| BeginRound, Sent | _schedule_loop from its sleep, or from the await of a sending, to the next await (`Round`) |
| Expire | a task's ttl is over |
| Cleanup | one round of _cleanup_loop |
| Raft, CrashWithTasks | the steps of Leadership; a crash takes the queue with it |

Two things in the code shape the model. `_select_node` always finds the node's own Member: it
is the first of `members`, the health checker skips it, and no load outlives the job it
counts. If its `node_id` is the RAFT port (`SameId`), all tasks of a round run at once, in
the process, since a plain function runs to its end inside `scheduler.spawn`; otherwise every
task is sent to that id. And both messages a queue sends, `{"cmd": "enqueue"}` to the leader
and `{"type": "task"}` to a node, arrive at servers that know neither: a task submitted at a
node with another leader is in no queue, and a task sent is running for ever.
task_queue.py imports `engine.runtime.orchestrator`, which the repository spells
`orchastrator`; what runs a payload is external to the model.

### Storage (`engine/cluster/distributed_storage.py`, extends Leadership)

What is in `shard` and `objects` is on disk and survives a crash, `cache` does not. A
process calls its storage from a thread beside the event loop that answers its peers; on
the loop's own thread `asyncio.run` raises, which leaves a request that fails, as any may.

| operator | code |
|---|---|
| PutStrong | put_strong: own shard and cache on the leader; elsewhere a "kv_put" that no listener handles |
| Found, Cached, Expire | get_eventual: cache, shard, peers; the cache's time to live |
| WriteTmp, Replace, ReplaceFails | the two file operations of obj_write |
| PutObject, StoreOwn, Push | put_object: the .tmp file, its move into place, _push_object to each peer |
| HandlePut, StorePushed | "object_put" of the RPC listener, in the same two steps |
| GetObject, Adopt, NoAnswer, StoreFetched | get_object, _get_object_from_peer, obj_write of what was fetched |
| Answer | "object_get" of the RPC listener |
| StorageCrash, Raft | the process ends; the steps of Leadership |

Four facts of the code shape it. A strong write at a node with another leader is lost, and
reported like one that is done (run `strong_writes`). The thread that calls the storage and
the listener write an object through one .tmp file, so either may move the content of the other
into place, or find no file to move, and raise; that write_bytes itself takes time is left
out. "object_get" answers `b""` for an object that is not
there, and get_object stores what it is answered. And every read shuffles `peer_ports` in
place, so peers are asked in any order.

### VersionedStore (abstract) and ManifestDB (`engine/cluster/manifest_db.py`, extends Storage)

ManifestDB is one manifest under its two keys: `Put` stores it, `ReadHistory` and
`WriteHistory` are push_history between its steps, with `AppendInPlace` for the list that
hist.append shares with the cache; `Rollback`, `Get`, `ExpireManifest` and
`CrashWithCaches` are the rest. The data of a manifest is named by the version it was first
put with. VersionedStore is what is left of its promise: per node, a manifest whose version
grows and a history that is extended with manifests that were put, none twice. KeepsHistory
is the refinement, with `current` and `history` mapped to the two keys of the own shard.
Histories of two nodes need not agree, and a put may be stored nowhere.

### StrongWrites (extends ManifestDB)

A history beside ManifestDB: `told[n]` is the last version that a put of node n returned to
its caller. WritesAreRead asks of it what the docstrings say of put_strong, that a read at
that node is never older; the code refutes it.

### EventBus (`engine/cluster/event_bus.py`, extends Leadership)

| action | code |
|---|---|
| Subscribe | subscribe |
| Publish, Forward, Enqueue | publish on a leader: store, send to each peer (await), queue |
| PublishElsewhere | publish with another leader: an "event" message that no listener handles |
| HandleForwarded | "event_forward" of the RPC listener, handle_forwarded_event, whole or garbled |
| Deliver | _local_dispatch_loop, _deliver_local, spawn of fiber_job, scheduler.start |
| BusCrash, RaftMeanwhile | the process ends; the steps of Leadership |

`scheduler.start` does not return: nothing calls its stop, so from the first delivery to a
subscriber on `blocked` holds and the process does nothing more, RAFT included. That is
the code, and against its words: QueuedIsDelivered is violated. The property that holds,
SeenInTurnAndStored, does not rest on it: it would hold of a process that delivers event after
event. fiber_job is not a generator, and `spawn` runs it at once; were it run later, every job
would call the last callback, which is a mutant. `Forward` is taken once for each position of
peer_ports, to any peer: get_eventual shuffles that list in place while a send is awaited.

### The language: Ast, FuzzyParser, StrictParser, Semantic, Interpreter, IrGenerator, Bytecode, Toolchain

A source is a list of lines, each with its indentation, kind and operands. A node of the
tree is the number of its line, and `place[i]` the block that line i was put in, which is
all of a tree that parsing decides. Both dialects make such trees, so Toolchain interprets
both and compiles the strict one, and compares.

| module | code | state and actions |
|---|---|---|
| Ast | parser/ast_nodes.py and what both parsers do to it | `lines`, `pos`, `place`, `stack`, `failed`; values and arithmetic |
| FuzzyParser | parser/fuzzy_parser.py | `trigger`, `mentioned`; one action per kind of line (BeginTrigger, DeclareGlobal, OpenBlock, OpenElse, Statement, PassOver, OpenInPython) |
| StrictParser | lexer/tokenizer.py, parser/parser.py | Tokenize; StrictTrigger, StrictWhen, StrictTopLevel, StrictOpener, StrictStatement, StrictFileStatement, StrictJunk, StrictBroken |
| Semantic | parser/semantic.py | `variables`, `verdict`; CheckSet, CheckValue, CheckCreateFile, CheckRepeat, EndChecks |
| Interpreter | runtime/interpreter.py and the FunctionManager | `env`, frames of every task, `turn`, listeners, skills, files, `out`; one action per statement (Set ... StartServer), EndBlock, Visit and EndVisit (listeners), Request, Resume |
| IrGenerator | ir/builder.py, ir/ssa.py | open blocks, registers, blocks; LowerSet ... LowerRepeat, EndBody |
| Bytecode | vm/bytecode_vm.py | Compile; `code`, `pc`, operand stack, slots, files; one action per opcode |
| Toolchain | boot.py, engine.py | Parse, Begin, Step, Connect, Continue, Analyse, Lower, Execute |

Every statement is a step; a task gives up its
turn only at the awaits of the code (a While round, a server). The strict chain is what
engine.py has written and commented out the start of.

Values are numbers and strings. A string that was calculated (PLUS puts strings together,
TIMES repeats them) is kept as its pieces; `SameText` compares two values as the interpreter
does, by str, and `SameValue` as the VM does, by ==. A "vague" line is one in which
parse_sentence finds nothing (an If, While or When without its colon, or a single letter), and
makes no node. Every trigger but the entry's can be called, the one made up for statements
outside of any, "Interactive", too. Servers are told apart by their ports: a second one on
another port starts, one on a taken port raises. In the strict dialect WHEN before a string, and
REPEAT before one, raise.

What the code does that a reader of its documentation might not expect, all of it in the models:
a compiled program differs from an interpreted one where it has two IFs (their blocks share
names, and a label is the last of its name), a REPEAT (its header sets the counter again, so it
never ends), an IF on a variable not yet set (0 in the VM, None in the interpreter), a read
after an IF of what its body set (the register of the body), a string that names a variable (the
interpreter replaces it, left or right of an operator), an IF that compares a number with the
string that spells it (alike to the interpreter only), a declaration (ignored), or a second
trigger of one name. Compilable leaves all of these out. What an IF may compare is bounded by
ComparesAlike: either no SET or IF says a string, or no SET calculates and no number is said
that some string spells. WRITE in the interpreter replaces the file and writes the content twice, in
the VM it appends a line. An IF or REPEAT of the strict dialect that ends in a colon has an
empty body, though genesis.asrt is written with them (ColonsReadNothing). Of the conversational dialect, two Elses after one If share its else_body, and an
Else under the second one goes on with the If that was last put there, under the first. The
analyser's "variable existence checks" record a variable and check nothing; it does refuse a
REPEAT whose count is a variable.

### RaftClusterProofs, ClusterProofs, FiberProofs, ManifestProofs, GossipProofs, ExecutionGraphProofs, ToolchainProofs, CompilerProofs

The theorems of section 5, kept apart from the models they are about. ClusterProofs holds those
of TaskQueue and of EventBus, which share Leadership and nothing else; CompilerProofs goes on
where ToolchainProofs ends.

Operators marked "Mutant" in the modules are plausible mistakes; PROJECT.json pairs
each with the property it breaks, which shows that the property depends on the code.

## 3. Runs

| run | question | properties |
|---|---|---|
| raft | do roles, votes, terms and leader_id stay consistent, with lost messages, races of elections and a crash? | VoteNotGivenAway, CandidateIsCampaigning, LeaderWasElected, TermsAndVotes, DeposedByPeer, CampaignYieldsLeader, ImplementsLeadership |
| tasks | are tasks executed or sent once, and is the queue worked off, while leadership moves? | HandedOverOnce, SendingIsQueued, TaskLife, QueueIsWorkedOff |
| raft_election | does a term have one leader? **violated** | ElectionSafety |
| gossip | what do merges keep, when puts, echoes, verdicts, a crash and a restart interleave? | HeartbeatWasReached, EntriesWerePut, QuietAgreement, EchoFreezesHeartbeat, VerdictIsFinal, VersionsGrow |
| fibers | do the queue, the current fiber and the priorities stay consistent under signals? | NoFiberLost, OneBodyAtATime, NoPriorityInversion, DeadStaysDead, FirstFiberRuns |
| dag | does the first run of a workflow respect its dependencies, end and tell the truth? | OrderIsTopological, DependenciesDone, OutcomeIsTrue, FirstRunEnds |
| manifest | what may caches hold, what becomes of objects, and what of the history may go, behind lost writes and crashes? | ManifestTypeOK, PutterKeepsObject, CacheGoesOnFromDisk, ManifestNotStale, KeepsHistory |
| strong_writes | does a node read what it wrote strongly? **violated** | WritesAreRead |
| events | what do subscribers see, and in which order are they called, also when the list of two peers is shuffled while an event is sent along it? | SeenInTurnAndStored |
| events_delivery | is a queued event delivered? **violated** | QueuedIsDelivered |
| language | do parsers nest lines as the model's reader does, compiled programs do what interpreted ones do, and servers answer? | NestingFollowsIndentation, ColonsReadNothing, CompiledRight, RequestsAnswered |
| workflow_resume | does the run of a resumed workflow end? **violated** | ResumedRunEnds |

The runs `raft`, `tasks`, `gossip`, `fibers` and `manifest` also check the type invariant
of their module; that of ExecutionGraph is a theorem only.

What the violated runs show:

* **raft_election.** raft.py:496 says "Check if majority", and the next line checks that
  the node is still a candidate. Two nodes that time out in the same term both lead it.
  In a trace of six steps two nodes start, both start an election for term 1, and both
  finish it. Everything that routes by leader_id inherits this.
* **workflow_resume.** resume_workflow finalizes the DAG and run finalizes it again, so
  each child is listed twice, indegrees reach zero early, and a node may precede its
  dependency in `sorted`. Then run waits for a dependency it has yet to launch, for ever.
  The real classes show the same hang with the graph of MCWorkflow.
* **strong_writes.** A node that knows another leader puts a manifest. put_strong sends the
  leader a "kv_put", which its listener has no branch for, and returns True
  (distributed_storage.py:153 calls it "Strongly consistent"). Once the cached value has
  expired the node reads an older version, or none. CacheGoesOnFromDisk says what is left: a
  cache is never behind the disk of its own node.
* **events_delivery.** event_bus.py:97 promises "local delivery + gossip fanout", and
  _local_dispatch_loop takes events in a loop without end. The first event that has a subscriber
  starts the scheduler, which does not return; the second stays in the queue.

Disagreements with the repository's words that are in the models, and for which a law that a
run checks, or an action, says what the code does instead:

* gossip.py:8 lists failure detection. A node that hears its own echo keeps it under its string
  key, which hides its int key from then on (EchoFreezesHeartbeat). The heartbeat that it
  advertises stands still, so its peers declare it dead although it lives, and they never take
  it back to alive (VerdictIsFinal). A dead member may go back to suspect: the health checker
  writes "suspect" over "dead", gossip.py:239-242, once the member was heard of and then silent
  again.
* fibers.py:9 lists "Fiber sleep/wake/timers", but the exception that sleep raises ends the
  fiber's generator: a sleeper is dead, and the entry queued for it later revives nothing
  (DeadStaysDead). fibers.py:6 says "True preemptive fibers": the signal queues the fiber that
  runs, and of two fibers of one priority the older one comes first after each yield and each
  signal, so the younger one may never run. FirstFiberRuns is about the first fiber only.
* raft.py:355 calls the term and the vote persistent. They start anew with each process, so a node
  that led a term, crashed and came back may vote in that term again, and lead it again.
  TermsAndVotes speaks of one lifetime of a process.
* task_queue.py:299 lists "Retries / TTL". A task that was sent is "running", which neither the
  scheduling loop nor the cleanup looks at, and nobody answers; TaskLife says that it stays so.
* parser.py:5 says that indentation determines the blocks. In genesis.asrt the lines under
  `IF "Score" IS "50":` are further in than it, but the colon is a token with the indentation of
  the IF, so the body is over before them and they are read by the trigger. ColonsReadNothing
  is the rule that the parser does keep.
* An event published at a node with another leader is lost (PublishElsewhere), as is a task
  submitted there, whose id is returned all the same (Submit).

Disagreements with the repository's words that no model shows, since what the words speak of
is missing from the code:

* raft.py lists log replication, a commit index and cluster membership; nothing appends to a log
  and the peers are fixed. With it go "RAFT-ordered event log" (event_bus.py:8), "append to
  RAFT log", "replicate to followers" (event_bus.py:95-96) and "RAFT log replication for task
  ordering" (task_queue.py:291).
* event_bus.py lists a replay history, which always is empty, and a webhook emitter, which is not
  there.
* fibers.py lists work stealing, task_queue.py load balancing and cancellation: there is one
  queue, one candidate, and no operation that cancels a task.
* semantic.py lists variable existence checks; the analyser records variables and refuses none.

## 4. Bounds and fairness

| bound | value | why it is enough |
|---|---|---|
| RaftCluster: nodes | 2, and 3 for raft_election | two nodes already race elections, depose each other and lose messages in both directions; no property counts a quorum, as no code does; the proofs cover all sizes |
| MaxTerm, MaxRounds, MaxCrashes | 3, 2, 1 | a deposed leader campaigns again, messages of two older terms are late, a restarted node meets terms it has forgotten |
| Gossip: nodes, keys, values | 2, 1, 2 | an echo needs one peer; keys do not interact; two values let a stale one overwrite a new one |
| MaxNow, MaxPuts, MaxCrashes | 4, 2, 1 | a put at two versions and at the same one; a verdict after two silent intervals, contact after it, and the next silence; a restart with old heartbeats about |
| the timeouts | 0, 1, 3 ticks | the code's 5, 10 and 10 intervals, scaled down, and each in an interval of its own |
| FiberScheduler: fibers, signals | 3, 2 | one fiber below, one above the current one; two stale entries of one fiber |
| ExecutionGraph: nodes, retries, runs | 4, 1, 1 | all DAGs on four nodes in three insertion orders, a cycle and a self-loop; a diamond needs four |
| TaskQueue: nodes, tasks | 2, 2 | one node of each kind (SameId); one task is sent while another waits in the round or comes after it; elections and crashes are unbounded |
| Workflow | 4 nodes, 2 runs, 1 crash | one run before the crash and one after it |
| Storage, ManifestDB: nodes, objects, contents | 2, 1, 1 | an object here, empty, or absent; objects do not interact; elections, crashes and failed requests are unbounded |
| StrongWrites: MaxTime | 2 | a write that is stored, then one that is sent away |
| MaxTime | 2 | two puts, or a put and a rollback, on one node or on both; the second meets a history that the first left in cache, shard or nowhere |
| EventBus: nodes, events, channels, MaxSubs | 3, 1, 1, 2; 2, 2, 1, 1 for events_delivery | two peers are the fewest that a shuffle can change, and a second callback shows which one is called; a process calls its subscribers with one event in its life, so a second event is needed where the question is what becomes of it |
| MCToolchain: sources | all shapes of four fuzzy lines and all strict programs of three statements in MCSources, and 23 longer programs, one of them genesis.asrt | the shapes enumerate every way to open, leave and resume blocks; the programs every statement, skills that call each other, a server with listeners and a main task that runs among its requests |
| MaxWhile, MaxDepth, MaxRequests, MaxOut | 2, 4, 2, 6 | a loop goes round twice and is checked a third time; a skill calls itself; two requests interleave with each other and with the main task; programs that end print less |

Fairness is stated only where a liveness property needs it.

* RaftCluster: weak fairness of FinishElection per node. It is the wake-up of asyncio.sleep in
  a live process; the event loop serves every coroutine. Nothing is assumed of the network.
* FiberScheduler: weak fairness of the loop and of the end of a slice. The thread runs, and
  bodies are cooperative; a body that never yields would stop any cooperative scheduler,
  since the signal handler does not switch.
* ExecutionGraph: weak fairness of run's loop and of each task, so that a submitted node is
  answered in the end. (Task queue submissions to other nodes are not answered; that is
  that module's matter.) A retry uses up a retry, so it cannot repeat for ever.

* TaskQueue: weak fairness of BeginRound and Sent per node: the loop of a live process goes on,
  and a connection to 127.0.0.1 is opened or refused in the end.

* EventBus (events_delivery): weak fairness of Deliver, of Forward and of Enqueue: a task that
  can run on the event loop does, as long as the loop turns, which it does while it is not blocked.

* Toolchain: weak fairness of parsing and running, which is one sequential program; strong
  fairness of Continue for each task. asyncio runs ready tasks first come first served, so one
  that waits for its turn gets it if turns go on being given.

CHECK_DEADLOCK is off where the bounds end every behaviour, or where a finished workflow or
program stops. In the runs of the fibers, the tasks, the storage and
the event bus it is on: the scheduler and the
cluster always have a next step.

## 5. Proofs

All theorems hold for every set of nodes (tasks, fibers, channels, events, keys, values), for
all sources and all bounds.

| module | theorem | statement |
|---|---|---|
| RaftClusterProofs | TypeCorrect | Spec => []TypeOK |
| | VoteKept | Spec => []VoteNotGivenAway |
| | CandidateTimeoutDead | Spec => []CandidateIsCampaigning |
| | NoPhantomLeader | Spec => []LeaderWasElected |
| | VotesAreFinal | Spec => TermsAndVotes |
| | OnlyPeersDepose | Spec => DeposedByPeer |
| | KeepsPromise | Spec => ImplementsLeadership |
| ClusterProofs | TypeCorrect | TaskSpec => []TaskTypeOK |
| | AtMostOnce | TaskSpec => []HandedOverOnce |
| | AwaitedStays | TaskSpec => []SendingIsQueued |
| | LifeOfTask | TaskSpec => TaskLife |
| | DeliveredInTurn | BusSpec => []SeenInTurnAndStored |
| FiberProofs | TypeCorrect | Spec => []TypeOK |
| | NothingLost | Spec => []NoFiberLost |
| | OneBody | Spec => []OneBodyAtATime |
| | FirstComesFirst | Spec => NoPriorityInversion |
| | NoResurrection | Spec => DeadStaysDead |
| ManifestProofs | TypeCorrect | ManifestSpec => []ManifestTypeOK |
| | PutterKeeps | ManifestSpec => []PutterKeepsObject |
| | DiskIsNotHidden | ManifestSpec => []CacheGoesOnFromDisk |
| | NeverStale | ManifestSpec => []ManifestNotStale |
| | ImplementsStore | ManifestSpec => KeepsHistory |
| GossipProofs | TypeCorrect | Spec => []TypeOK |
| | OnlyReachedIsHeard | Spec => []HeartbeatWasReached |
| | OnlyPutIsStored | Spec => []EntriesWerePut |
| | QuietStoresAgree | Spec => []QuietAgreement |
| | NeverOlder | Spec => VersionsGrow |
| | NeverAliveAgain | Spec => VerdictIsFinal |
| | EchoFreezes | Spec => EchoFreezesHeartbeat |
| ExecutionGraphProofs | TypeCorrect | Spec => []TypeOK |
| | OrderIsRight | Spec => []OrderIsTopological |
| | DependenciesAreDone | Spec => []DependenciesDone |
| | OutcomeTrue | Spec => []OutcomeIsTrue |
| ToolchainProofs | NestingIsRight | Spec => []NestingFollowsIndentation |
| | StrictNestingIsRight | Spec => []ColonsReadNothing |
| CompilerProofs | CompilesRight | Spec => []CompiledRight |

### RaftCluster

Assumption: RaftAssumption (None is not a node, the bounds are naturals).

The argument. None of the safety properties is inductive: a handler takes its term and
its sender from a message, so what a message may say must be known. IInv adds two
conjuncts to the type invariant and the three state properties:

* MessagesBacked: a message on its way, wherever it is, comes from another node that
  campaigned for its term and, if it is a heartbeat, was elected in it.
* RolesBacked: a candidate campaigned for its term, a leader also won it.

Lemmas on the transport say that Broadcast puts nothing but its message on its way, and
that reading, connecting and crashing put nothing there (BroadcastAdds, ReadTakes,
ConnectMoves, CrashLoses). Then there is one lemma per action, with a step per conjunct
that the action can disturb. The two action properties follow from IInv and the actions:
a leader steps down only in a handler, whose message MessagesBacked ties to a campaign
of another node. The histories only grow and are read by no guard. KeepsPromise maps every
step: Start, FinishElection, HandleAppendEntries and Crash to Start, Win, Learn and Crash of
Leadership or to a stutter, everything else to a stutter; that a node learns only of
another, elected node is MessagesBacked again.

### TaskQueue

Assumption: TaskAssumption (None is not a task, SameId are nodes). IInv joins the type
invariant, HandedOverOnce and SendingIsQueued with Accounted: a queued task that is not
being sent was handed to nobody yet, one being sent was handed over once, and only
submitted tasks are held. Without it, HandedOverOnce would not survive a round, which hands
over whatever it finds queued. The heart is RoundEffect: what a stretch of the loop,
between two awaits, does to a single task. The invariant and TaskLife both follow from it.
The theorems rest on Leadership alone, and KeepsPromise carries it over to RAFT.

### EventBus

Assumption: EventAssumption (channel maps events to channels, None is not a node, there are
finitely many nodes). What a subscriber saw says nothing of what is queued, so BusInv joins the
types with BusBacked (what is being sent, on its way or queued is on a disk) and CallsInTurn (what
a process has called is in turn and on a disk). There is one lemma per action; DeliverKeeps holds
the argument: Called appends the callbacks of one event, each after the one before it
(CalledInTurn), and nothing here depends on whether the scheduler returns, so the theorem would
survive its repair. Elections and crashes are those of
Leadership, so KeepsPromise carries the theorem over to RAFT.

### FiberScheduler

Assumption: FiberAssumption (there is a fiber; the priorities asked for are integers). IInv
adds to the types and the two state properties where the thread is (ThreadIsSomewhere: a body is
that of a fiber, and only the loop holds a popped one), that an id not given yet is not in use
(UnspawnedIsNothing), and PoppedIsFirst: the popped fiber, if it can still be started, is
before all live ones. The last is what FirstComesFirst needs of a signal between the pop and
the start: the handler only queues a fiber that was live already, so it changes no order.

### Storage and ManifestDB

Assumptions: StorageAssumption (Empty, Absent and the contents differ, None is not a node)
and ManifestAssumption (the two keys of a manifest are keys). IInv joins the types and the
three state properties with

* OneManifest: a stored or cached manifest is one entry;
* CallHasItem: what a call that is under way goes with, and that no process fetches an
  object it put, without which an empty answer could replace it;
* EmptyIsFetched: a .tmp file is empty only while its own thread stores an empty answer through
  it, so what a putting thread finds in the file, be it the listener's, is a content;
* HistoriesArePast and EntriesAreNew: a history, wherever it is kept, lists manifests that were
  put, none twice, and none that some put has still to append; what a put has to append is
  its own;
* HeldGoesOn: the list that a put extends in place goes on from the history on the disk of
  its node.

ImplementsStore maps each action to a step of VersionedStore or to a stutter: a write at the
leader extends or replaces what is on its own disk, a write that is sent away changes
nothing, and everything else touches caches, objects and messages only. The lemmas on
prefixes (reflexive, transitive, kept by Append) and on the update of one key of one node
carry most steps.

### Gossip

Assumption: GossipAssumption (the timeouts are ordered as in the code, and the bound of
the clock admits its first value). IInv has three parts:

* Kept: the types, that tables, stores and histories are what was reached and what was put;
* Sound, for each message: what it says of members was reached, and its entry was put. A
  state message refers to its sender's store, so Kept already speaks for that part;
* PutsSpread: while nobody crashed, for each put and each process, the store has that version
  or a later one, or an update that carries it is on its way. QuietAgreement alone says
  nothing about a state with messages in it and is not inductive.

Merges are functions over all members or keys, so most of the work is a lemma each for
MergeMembers and MergeStore, for Payload (which of the two keys of a member wins), and for
records in tables that grow. EchoFreezes follows from a bound on what circulates in the next
state by what circulates in this one, action by action.

An attempt at VerdictIsFinal in its first form, that a dead member stays dead, failed on
HealthCheck, and a longer clock in the run then gave the behaviour: a dead member that is
heard of again becomes suspect at the next silence. The property now says what the code keeps.

### ExecutionGraph

Assumption: GraphAssumption (dependencies are finite sets of nodes, no node is added twice:
they are lists and the keys of a dict in the code). There are two halves.

What `Toposort` computes needs induction. The library's induction theorems take a predicate
as a parameter and cannot be instantiated by these provers, but a *set* of numbers can stand for
the predicate: that a set of naturals which holds 0 and with each number the next holds them
all (Induction) follows from WFMin and NatLessThanWellFounded. From it come InductionUpTo, and
Recursion, that a recursion which stays in a set defines a function; without that, nothing at
all is known of a recursive function. With those, each loop of the code has a lemma that says
what it computes: AmongIs, FlattenIs, ChildrenIs, VisitAllVisits, PopIs, ToposortIs. The
loop invariant of _toposort is Halfway: queued or ordered are exactly the nodes whose
dependencies are ordered, each once, indegrees count the dependencies not yet ordered, and
dependencies precede. PopKeepsHalfway keeps it in a round; ToposortIsTopological reads it at
the end, where nodes that were never queued would depend on one another, which is the cycle
that _check_cycles refuses.

What runs do needs an inductive invariant. Basics gives types and says that the n-th call of
run works with n builds of the children lists. FirstRun says, of the first run only: a status
is that of the node's task (StatusIsJob), a task was created after the dependencies were done
(DepsWereDone), launches follow the order (LaunchesInOrder), completion means that all tasks
returned (AwaitsAll), and an exception that some node failed for good (RaisesForFailure). The
crux is that a status "done" is never taken back in a first run: only a node's own task or
its launch writes its status, and the launch of a node with a task, which the order excludes.

### Toolchain

Assumptions: FuzzyAssumption (variables are strings, None is a key like any other, "it" is not a
variable), InterpreterAssumption (the bounds are naturals, and MaxDepth leaves room for a block
in the entry block) and SourcesAssumption (a source is a list of lines that have the fields of
SourceLine; a strict line names only variables and files, for the strict dialect has no pronoun,
and adds, subtracts or multiplies). NestingFollowsIndentation compares two accounts of a
program: what the parsers build with a stack, line by line, and where a reader of the whole
source sees each line. ParserInv ties them together. For either parser it says that the stack,
over its outermost entry, holds the lines that are *open* (OpenAt: block heads that no later
line is as far out as), each once and by indentation (Lists), and that the outermost entry is
the body of the last trigger. Then

* a line closes the open lines it is not under, and may be open itself (OpensNext), just as
  Popped and Reading cut the stack (CutLists) and a head is pushed (AppendLists);
* the nearest head over a line is the last of the open lines that it is under (NearestIs), and
  that is what the top of the stack was pushed for (TopOf, BlocksAre, ReadingIs).

In the conversational dialect the block of a line may depend on where an Else belongs, and
so on, so Home is a recursive function. That it is well defined (HomeIs), and that a line
changes nothing of it up to the next line (HomeKept), is by induction as for ExecutionGraph.

The two dialects have a theorem each, because they keep different rules: NestingIsRight is about
FuzzyParser, and StrictNestingIsRight about Parser, whose heads with a colon read nothing. That
the second rule is not what the documentation says is in the list of section 3.

The attempt showed that the property was first stated for too little. It named the block of a
line by the nearest If alone, which eight lines with two Elses after one If refute (the
bounds of the run had four); the program is now one of those of the run, and Home is what the
parser keeps.

CompiledRight compares two executions of one program, the interpreter's, which is over when
the other begins, and the VM's. There is no invariant of both without a third account, which
says what the program means:

* *Meaning.* TreeIs reads off ParserInv that a program that is Compilable is a Tree: one
  trigger, statements in its body, one IF at most, whose body follows it. `sem` maps each
  line to what there is after it (variables, output, files, whether it raised, whether the
  branch was taken), by recursion on lines (Semantics, SemanticsExist).
* *Interpreter.* Interprets: the interpreter is at some line, and what it keeps is what sem
  says of that line (Stands). So when it is over, `out` and `files` are the program's.
* *Analyser.* Analysed: it has recorded the variables set so far. What it refuses is
  not compiled.
* *IR generator.* Lowers: the blocks so far, if executed, carry sem's values: each variable's
  register holds its value (Carries), but for the variables set in a body that was not taken
  (Unread), which Compilable says nobody reads. A program without an IF is OneBlock all the way;
  one with an IF goes on InBranch and AfterBranch. Translates is about one statement, Computes
  about the value of a SET.
* *What an IF compares.* The interpreter compares text, the VM values. Where an IF may stand,
  ComparesAlike says that either there are numbers only, or every value is one that a line says
  (Sayings, SayingsAre) and no number among them is spelled by a string (Unlike). Compared: the
  two comparisons agree on such values. Tested: those are the values that reach an IF.
* *Bytecode and VM.* Lowering gives each block a label and each instruction some opcodes;
  LaidOut says where they are, and that a label is found at its block, which is where the
  names of blocks must differ (Trio). Performs is the VM inside an instruction, with what is on
  its stack; InStraight and InForked put instructions together along the way the program goes;
  RunsRight reads CompiledRight at any point of it.

RunsWell is the conjunction for the phases in turn, and CompileInv the invariant: ParserInv,
that the words of a strict source are StrictSourceLine, and that either nothing has run yet
(Early) or the tree is complete and RunsWell holds for some s and sem (Late). Each phase leaves
alone what the earlier ones left (SameExecution, SameLowering), so there is one lemma for each
phase: WellBegins, WellInterpreted, WellAnalysed, WellLowered, WellCompiled, WellExecuted. TLC
cannot evaluate CompileInv, which quantifies over functions from lines to states of infinite
sets; it checks CompiledRight itself, and NestingFollowsIndentation.

The attempts found the property false in five ways that no program of the run showed, all outside
of what the compiler was thought to keep. Compilable looked for strings that name a variable
only at the left, and a string at the right of PLUS is replaced by the interpreter as well; a
SET in the body of a teach trigger, which nothing runs, passed for the one that must come before
the IF; sources had operations and pronouns that the strict parser cannot make; and with
MaxDepth 1, the body of an IF was never interpreted; and a number and the string that spells it
are alike to the interpreter and not to the VM, which a model whose values are never spelled
cannot tell. Compilable and the assumptions now say so.

### Not proved

Only model-checked are all liveness properties (CampaignYieldsLeader, QueueIsWorkedOff,
FirstFiberRuns, FirstRunEnds, RequestsAnswered), which rest on fairness and ENABLED.

The properties of the violated runs are false, so there is nothing to prove.

## 6. What is not modelled

* Wall-clock time: except in Gossip, where time is what the question is about, a timeout
  may have elapsed at any moment.
* The bytes: JSON, ports, partial reads. Of JSON the one effect that matters (int keys
  become strings, two documents are no document) is in the models.
* Logs of RAFT: next to no code, since nothing appends to them.
* A heap operation of fibers.py interrupted by the signal half-way: C code, between whose
  comparisons of tuples of integers no Python signal handler runs.
* distributed.py, a second and different RAFT with its own gossip and transport, which no
  other part of the cluster imports; the console and the remote debugger. Not yet: see the
  plan. Their hazards are listed.
* Components that cannot run as they stand, because they import what the repository does
  not have: the runtime orchestrator (modules under other names, and VM.step, which VM
  lacks) and the DAG gateway (engine.event.event_bus, engine.workflows.workflow_engine). Two
  components that do not load either are modelled nevertheless, because what they miss is only
  called, and external: execution_graph.py (engine.cluster.distributed_api) and task_queue.py
  (engine.runtime.orchestrator, spelled otherwise).
* The mesh router, which has no handlers but the DAG gateway's, and the HTTP gateway, which
  turns a request into one call of the router and keeps no state.
* The optimizer: optimize.py imports gvn, which imports a class that ssa.py lacks. The passes
  that can be imported do not keep the meaning of a program: dce takes no argument of a
  terminator for a use and so removes the comparison of every IF, and licm moves constants
  between blocks by their position. cfg.py and dominance.py put BasicBlocks into sets, and a
  dataclass with `eq` has no hash.
* The JIT and WebAssembly backends: byte encodings; the WebAssembly runtime is a stub.
* Of the global orchestrator, all but the RPC branches that Storage and EventBus need. Its
  call of GossipEngine's constructor does not match the signature.
* Of the event bus, get_history, which looks for names "events_..." of files called
  "events:..." and so always returns [], and _cluster_listener_loop, which does nothing.
* Of storage, put_meta, get_meta and obj_exists, which touch one local file.
* Of the language: lists (literals are shared and changed in place by PLUS), numbers with a
  fraction and with them DIVIDE, imports, listeners on files, what Python code does, the REPL (it never
  awaits execute_block), Engine.run (it never awaits the interpreter), a When inside a When's
  body, which may let the list of listeners grow for ever, and the patterns by which the
  fuzzy parser recognises a sentence: a line has its kind.
* A second process on the directory of a workflow.
* Licences, encryption and signing, command lines, build scripts, visualizers: they call
  libraries, format text or draw, and keep no state that interleaves. MathEngine of the
  capabilities is never called.

## 7. Plan

Done: RaftCluster and Leadership, Gossip, FiberScheduler, ExecutionGraph, Workflow,
TaskQueue, Storage and ManifestDB, EventBus, the language toolchain.

Proved: every safety and action property of these that holds, and the two refinements.

Theorems to come: CompiledRight for programs with declarations or teach triggers, where the
variables that an IF tests are set in the start trigger.

Modules to come: DistributedRaft (distributed.py: vote counting and a log), Debugger and
DebugSession (a lock and an event), the rest of Workflow (two processes on one directory),
lists and DIVIDE in the toolchain.
