---------------------------- MODULE Interpreter ----------------------------
(***************************************************************************)
(* Interpreter.run of engine/runtime/interpreter.py, on the tree that a    *)
(* parser has built: the main task runs the entry trigger and then visits  *)
(* the listeners for ever; each request to the server is a task of its     *)
(* own, and all of them share the variables and the list of listeners.     *)
(*                                                                         *)
(* The event loop runs one task until it awaits something that is not      *)
(* ready: the pause after the body of a While, the start of the server,    *)
(* the data of a request, the pause between two visits.  Everything        *)
(* between two of those is one stretch of steps with `turn` unchanged.     *)
(*                                                                         *)
(* Left out: listeners on files, lists, numbers with a fraction and with   *)
(* them DIVIDE, imports, and variables with a number for a name.           *)
(***************************************************************************)
EXTENDS Ast

CONSTANTS
    Interactive,    \* the name of the trigger made up for statements outside of any
    MaxWhile,       \* max_safety, 1000 in the code
    MaxDepth,       \* blocks a task may be in: the interpreter's recursion limit
    MaxRequests     \* requests that arrive

ASSUME InterpreterAssumption ==
    /\ MaxWhile \in Nat \ {0} /\ MaxDepth \in Nat \ {0, 1} /\ MaxRequests \in Nat

VARIABLES
    pro,        \* tier: LicenseManager.validate_license found a Pro licence
    env,        \* state: variable -> value, Undef if it is not in the dictionary
    out,        \* out_stream
    listeners,  \* the When nodes registered, in order
    server,     \* the ports of the servers started: self.server is the last
    disk,       \* the saved variables
    files,      \* the files written: name -> what was written, in order
    status,     \* task -> what it is doing
    frames,     \* task -> the blocks it is in, innermost last
    walk,       \* task -> listeners it has visited
    turn        \* the task the event loop runs, or Free

taskVars == <<status, frames, walk, turn>>
interpreterVars == <<pro, env, out, listeners, server, disk, files, status, frames, walk, turn>>

Main == 0
Task == 0 .. MaxRequests
Free == -1

\* The first body of a loop is not entered before its condition is checked.
Unchecked == -1

Frame(block, done, n) == [block |-> block, done |-> done, n |-> n]
Block(block) == Frame(block, 0, 0)

\* The variables declared, before the first statement runs.
Globals ==
    [x \in Var |->
        LET declared == {j \in Triggers("global") : lines[j].var = x}
        IN  IF declared = {} THEN Undef ELSE lines[Max(declared)].left]

InterpreterInit ==
    /\ env = [x \in Var |-> Undef]
    /\ out = <<>> /\ listeners = <<>> /\ disk = [x \in Var |-> Undef]
    /\ files = <<>>
    /\ server = {}
    /\ status = [t \in Task |-> "none"]
    /\ frames = [t \in Task |-> <<>>]
    /\ walk = [t \in Task |-> 0]
    /\ turn = Free

\* run: globals, then the block of the first trigger "Ignition".
Run(globals, starts) ==
    /\ status[Main] = "none"
    /\ env' = globals
    /\ status' = [status EXCEPT ![Main] = "entry"]
    /\ frames' = [frames EXCEPT ![Main] =
                     IF starts = {} THEN <<>> ELSE <<Block(Body(Min(starts)))>>]
    /\ turn' = Main
    /\ UNCHANGED <<pro, out, listeners, server, disk, files, walk>>
-----------------------------------------------------------------------------
(* Steps of task t, which has the turn, at the next node of its innermost block. *)

Top(t) == Last(frames[t])
Following(t) == NextNode(Top(t).block, Top(t).done)
Node(t) == lines[Following(t)]

Active(t) == turn = t /\ frames[t] # <<>> /\ Top(t).done # Unchecked

At(t, kind) == Active(t) /\ Following(t) # 0 /\ Node(t).kind = kind

Under(t) == Front(frames[t])
Passed(t) == Append(Under(t), [Top(t) EXCEPT !.done = Following(t)])

\* evaluate: a string that names a variable with a value is that value.
Evaluate(v) ==
    CASE v[1] = "str" /\ v[2] \in Var -> IF env[v[2]] = Undef THEN v ELSE env[v[2]]
      [] v[1] = "name" -> IF env[v[2]] = Undef THEN Num(0) ELSE env[v[2]]
      [] OTHER -> v

Go(t, newFrames) ==
    /\ frames' = [frames EXCEPT ![t] = newFrames]
    /\ UNCHANGED <<status, walk, turn>>

\* An exception ends the task; asyncio.run ends the program with the main one.
Raise(t) ==
    /\ status' = [u \in Task |-> IF u = t \/ (t = Main /\ status[u] # "none")
                                 THEN IF status[u] = "answered" THEN "answered" ELSE "raised"
                                 ELSE status[u]]
    /\ frames' = [frames EXCEPT ![t] = <<>>]
    /\ turn' = Free
    /\ UNCHANGED walk

\* A block is entered with the frames of `under` below it.
EnterBlock(t, under, frame) ==
    IF Len(under) < MaxDepth THEN Go(t, Append(under, frame)) ELSE Raise(t)

Set(t) ==
    /\ At(t, "set")
    /\ LET left == Evaluate(Node(t).left)
           right == Evaluate(Node(t).right)
           raises == Node(t).op # "NONE" /\ ~Fits(Node(t).op, left, right)
       IN  /\ env' = IF raises THEN env
                     ELSE [env EXCEPT ![Node(t).var] =
                              IF Node(t).op = "NONE" THEN left
                              ELSE Calculate(Node(t).op, left, right)]
           /\ IF raises THEN Raise(t) ELSE Go(t, Passed(t))
    /\ UNCHANGED <<pro, out, listeners, server, disk, files>>

Output(t) ==
    /\ At(t, "output")
    /\ out' = Append(out, Evaluate(Node(t).left))
    /\ Go(t, Passed(t))
    /\ UNCHANGED <<pro, env, listeners, server, disk, files>>

Holds(node) == SameText(env[node.var], Evaluate(node.left))

If(t) ==
    /\ At(t, "if")
    /\ LET else == Nodes(Else(Following(t))) # {}
       IN  CASE Holds(Node(t))         -> EnterBlock(t, Passed(t), Block(Body(Following(t))))
             [] ~Holds(Node(t)) /\ else -> EnterBlock(t, Passed(t), Block(Else(Following(t))))
             [] OTHER                  -> Go(t, Passed(t))
    /\ UNCHANGED <<pro, env, out, listeners, server, disk, files>>

While(t) ==
    /\ At(t, "while")
    /\ EnterBlock(t, Passed(t), Frame(Body(Following(t)), Unchecked, 0))
    /\ UNCHANGED <<pro, env, out, listeners, server, disk, files>>

\* The condition, before each body.
CheckWhile(t) ==
    /\ turn = t /\ frames[t] # <<>> /\ Top(t).done = Unchecked
    /\ Go(t, IF Top(t).n < MaxWhile /\ Holds(lines[Top(t).block[1]])
             THEN Append(Under(t), [Top(t) EXCEPT !.done = 0])
             ELSE Under(t))
    /\ UNCHANGED <<pro, env, out, listeners, server, disk, files>>

Repeat(t) ==
    /\ At(t, "repeat")
    /\ LET count == Evaluate(Node(t).left)
       IN  IF count[1] = "num" /\ count[2] > 0
           THEN EnterBlock(t, Passed(t), Frame(Body(Following(t)), 0, count[2]))
           ELSE Go(t, Passed(t))
    /\ UNCHANGED <<pro, env, out, listeners, server, disk, files>>

\* A file is opened for writing, which empties it; WRITE writes its content twice.
CreateFile(t) ==
    /\ At(t, "create")
    /\ files' = Stored(files, Node(t).var, <<>>)
    /\ Go(t, Passed(t))
    /\ UNCHANGED <<pro, env, out, listeners, server, disk>>

WriteFile(t) ==
    /\ At(t, "write")
    /\ LET content == Evaluate(Node(t).left)
       IN  files' = Stored(files, Node(t).var, <<content, content>>)
    /\ Go(t, Passed(t))
    /\ UNCHANGED <<pro, env, out, listeners, server, disk>>

\* brain: the last skill taught under the name.  Every trigger but the entry's is taught;
\* the one made up does nothing without statements.
Recall(name) ==
    {j \in Triggers("teach") : lines[j].var = name}
        \cup {j \in {0} : name = Interactive /\ Nodes(Body(0)) # {}}

\* A name that was not taught is passed over.
Call(t) ==
    /\ At(t, "call")
    /\ LET skills == Recall(Node(t).var)
       IN  IF skills = {} THEN Go(t, Passed(t))
           ELSE EnterBlock(t, Passed(t), Block(Body(Max(skills))))
    /\ UNCHANGED <<pro, env, out, listeners, server, disk, files>>

\* Without a Pro licence check_pro raises, which Save and Load catch.
Save(t) ==
    /\ At(t, "save")
    /\ disk' = IF pro THEN env ELSE disk
    /\ Go(t, Passed(t))
    /\ UNCHANGED <<pro, env, out, listeners, server, files>>

Load(t) ==
    /\ At(t, "load")
    /\ env' = IF pro THEN [x \in Var |-> IF disk[x] = Undef THEN env[x] ELSE disk[x]] ELSE env
    /\ Go(t, Passed(t))
    /\ UNCHANGED <<pro, out, listeners, server, disk, files>>

\* What the Python code does is outside of the model.
Python(t) ==
    /\ At(t, "python")
    /\ IF pro THEN Go(t, Passed(t)) ELSE Raise(t)
    /\ UNCHANGED <<pro, env, out, listeners, server, disk, files>>

\* So is what a command of the shell does.  Only the licence makes it raise.
Shell(t) ==
    /\ At(t, "shell")
    /\ IF pro THEN Go(t, Passed(t)) ELSE Raise(t)
    /\ UNCHANGED <<pro, env, out, listeners, server, disk, files>>

When(t) ==
    /\ Active(t) /\ Following(t) # 0 /\ Node(t).kind \in {"when", "request"}
    /\ listeners' = Append(listeners, Following(t))
    /\ Go(t, Passed(t))
    /\ UNCHANGED <<pro, env, out, server, disk, files>>

\* Starting a server is awaited.  A port is taken once; each server goes on.
StartServer(t) ==
    /\ At(t, "server")
    /\ LET port == Node(t).left
       IN  IF pro /\ port \notin server
           THEN /\ server' = server \cup {port}
                /\ frames' = [frames EXCEPT ![t] = Passed(t)]
                /\ turn' = Free
                /\ UNCHANGED <<status, walk>>
           ELSE Raise(t) /\ UNCHANGED server
    /\ UNCHANGED <<pro, env, out, listeners, disk, files>>

\* The end of a block.  A Repeat goes round; so does a While, after a pause.
LoopOf(t) == IF Top(t).block[2] = "else" \/ Top(t).block[1] = 0 THEN "none"
             ELSE lines[Top(t).block[1]].kind

\* Mutant: the rounds of a While are not counted.
AgainUncounted(frame) == [frame EXCEPT !.done = Unchecked]

Again(frame) == [frame EXCEPT !.done = Unchecked, !.n = @ + 1]

EndBlock(t) ==
    /\ Active(t) /\ Following(t) = 0
    /\ frames' = [frames EXCEPT ![t] =
            CASE LoopOf(t) = "while" ->
                     Append(Under(t), Again(Top(t)))
              [] LoopOf(t) = "repeat" /\ Top(t).n > 1 ->
                     Append(Under(t), [Top(t) EXCEPT !.done = 0, !.n = @ - 1])
              [] OTHER -> Under(t)]
    /\ turn' = IF LoopOf(t) = "while" THEN Free ELSE t
    /\ UNCHANGED <<pro, env, out, listeners, server, disk, files, status, walk>>

RunStatement(t) ==
    \/ Set(t) \/ Output(t) \/ If(t) \/ While(t) \/ CheckWhile(t) \/ Repeat(t) \/ Call(t)
    \/ CreateFile(t) \/ WriteFile(t)
    \/ Save(t) \/ Load(t) \/ Python(t) \/ Shell(t) \/ When(t) \/ StartServer(t) \/ EndBlock(t)
-----------------------------------------------------------------------------
(* The event loop. *)

\* The entry trigger is over: without listeners and server so is the program.
EndEntry ==
    /\ turn = Main /\ frames[Main] = <<>> /\ status[Main] = "entry"
    /\ LET serves == listeners # <<>> \/ server # {}
       IN  /\ status' = [status EXCEPT ![Main] = IF serves THEN "loop" ELSE "ended"]
           /\ turn' = IF serves THEN Main ELSE Free
    /\ UNCHANGED <<pro, env, out, listeners, server, disk, files, frames, walk>>

Matches(t, node) ==
    IF t = Main THEN node.kind = "when" /\ Holds(node) ELSE node.kind = "request"

\* The next listener, of a list that may have grown: the main task runs those on a
\* variable that has the value, a request those on requests.
Visit(t) ==
    /\ turn = t /\ frames[t] = <<>> /\ status[t] \in {"loop", "serving"}
    /\ walk[t] < Len(listeners)
    /\ LET j == listeners[walk[t] + 1]
       IN  frames' = [frames EXCEPT ![t] = IF Matches(t, lines[j]) THEN <<Block(Body(j))>> ELSE @]
    /\ walk' = [walk EXCEPT ![t] = @ + 1]
    /\ UNCHANGED <<pro, env, out, listeners, server, disk, files, status, turn>>

\* All are visited: the main task pauses, a request is answered.
EndVisit(t) ==
    /\ turn = t /\ frames[t] = <<>> /\ status[t] \in {"loop", "serving"}
    /\ walk[t] = Len(listeners)
    /\ walk' = [walk EXCEPT ![t] = 0]
    /\ status' = [status EXCEPT ![t] = IF t = Main THEN "loop" ELSE "answered"]
    /\ turn' = Free
    /\ UNCHANGED <<pro, env, out, listeners, server, disk, files, frames>>

\* A client connects.
Request(t) ==
    /\ t # Main /\ server # {} /\ status[t] = "none"
    /\ status[Main] \in {"entry", "loop"}
    /\ \A u \in Task \ {Main} : u < t => status[u] # "none"
    /\ status' = [status EXCEPT ![t] = "serving"]
    /\ UNCHANGED <<pro, env, out, listeners, server, disk, files, frames, walk, turn>>

\* A task that waited goes on.
Resume(t) ==
    /\ turn = Free
    /\ status[t] \in {"entry", "loop", "serving"}
    /\ turn' = t
    /\ UNCHANGED <<pro, env, out, listeners, server, disk, files, status, frames, walk>>

TaskStep(t) == RunStatement(t) \/ Visit(t) \/ EndVisit(t) \/ (t = Main /\ EndEntry)
-----------------------------------------------------------------------------
(* Properties *)

\* A request is answered, or the program that serves it raised: whatever the main task
\* and other requests run in between, no body of theirs keeps the event loop for good
\* and no While of the request's own goes on for ever.
RequestsAnswered ==
    \A t \in Task \ {Main} : status[t] = "serving" ~> status[t] \in {"answered", "raised"}
=============================================================================
