----------------------------- MODULE Toolchain -----------------------------
(***************************************************************************)
(* From a source to what it prints, along the two paths of the engine.     *)
(*                                                                         *)
(* The conversational one is boot.py's: FuzzyParser, then the Interpreter. *)
(* The strict one is the compiler's: the tokenizer and Parser, then        *)
(* SemanticAnalyzer, IRGenerator, BytecodeCompiler and the VM (a chain     *)
(* engine.py has commented out the start of).  Both parsers make the same  *)
(* kind of tree, so a strict source is interpreted as well, first: what    *)
(* the interpreter prints is what the compiled program should.             *)
(***************************************************************************)
EXTENDS FuzzyParser, StrictParser, Semantic, Interpreter, Bytecode

CONSTANT Sources    \* the sources, each with its dialect and whether the licence is a Pro one

VARIABLE dialect    \* "fuzzy" or "strict"

parserVars == <<sourceVars, fuzzyVars>>
vars == <<parserVars, semanticVars, interpreterVars, irVars, vmVars, dialect>>

ASSUME SourcesAssumption ==
    \A s \in Sources :
        /\ s.dialect \in {"fuzzy", "strict"} /\ s.pro \in BOOLEAN
        /\ s.lines \in Seq(IF s.dialect = "strict" THEN StrictSourceLine ELSE SourceLine)
        /\ s.lines # <<>>
        /\ \A i \in DOMAIN s.lines : s.lines[i].kind = "teach" => s.lines[i].var # Interactive

Init ==
    /\ \E s \in Sources :
          /\ dialect = s.dialect /\ pro = s.pro
          /\ lines = IF dialect = "strict" THEN Tokenize(s.lines) ELSE s.lines
    /\ FuzzyInit
    /\ SemanticInit
    /\ InterpreterInit
    /\ IrInit
    /\ VmInit

Parse ==
    /\ \/ dialect = "fuzzy" /\ ParseLine
       \/ dialect = "strict" /\ StrictLine /\ UNCHANGED fuzzyVars
    /\ UNCHANGED <<semanticVars, interpreterVars, irVars, vmVars, dialect>>

\* What a step of the interpreter leaves alone.
Interpreting == UNCHANGED <<parserVars, semanticVars, irVars, vmVars, dialect>>

Begin == Parsed /\ Run(Globals, Triggers("start")) /\ Interpreting

Step(t) == TaskStep(t) /\ Interpreting
Connect(t) == Request(t) /\ Interpreting
Continue(t) == Resume(t) /\ Interpreting

Interpreted == status[Main] \in {"ended", "raised"}

Analyse ==
    /\ dialect = "strict" /\ Interpreted
    /\ CheckStmt
    /\ UNCHANGED <<parserVars, interpreterVars, irVars, vmVars, dialect>>

\* functions keeps the last trigger of a name.
Lower ==
    /\ verdict = "accepted"
    /\ \/ /\ lowering = <<>> /\ Triggers("start") # {}
          /\ LowerTrigger(Max(Triggers("start")))
       \/ LowerStep
    /\ UNCHANGED <<parserVars, semanticVars, interpreterVars, vmVars, dialect>>

Execute ==
    /\ Compile \/ VmStep
    /\ UNCHANGED <<parserVars, semanticVars, interpreterVars, irVars, dialect>>

Next ==
    \/ Parse
    \/ Begin \/ \E t \in Task : Step(t) \/ Connect(t) \/ Continue(t)
    \/ Analyse \/ Lower \/ Execute

\* The parser and the task that has the turn go on.  asyncio runs what is ready, first
\* come first served: a task that waits for its turn gets it if turns go on being given.
Fairness ==
    /\ WF_vars(Parse \/ Begin \/ \E t \in Task : Step(t))
    /\ \A t \in Task : SF_vars(Continue(t))

Spec == Init /\ [][Next]_vars /\ Fairness
-----------------------------------------------------------------------------
(* Properties *)

\* FuzzyParser nests every statement, opener and Else of the conversational dialect as
\* its indentation shows.  Nothing changes the tree once the program runs.
NestingFollowsIndentation ==
    status[Main] = "none" /\ dialect = "fuzzy" => FuzzyNesting

\* Parser gives every statement of the strict dialect to the nearest IF or REPEAT over it
\* that has no colon: one with a colon reads nothing, and the lines under it are read by
\* the block it stands in.
ColonsReadNothing ==
    status[Main] = "none" /\ dialect = "strict" => StrictNesting

\* An IF may not compare a number with the string that spells it: either no SET or IF says
\* a string, or none is calculated or says such a number.  (A name without a value is 0.)
ComparesAlike ==
    LET said(kind, i) == {v[2] : v \in {w \in {lines[i].left, lines[i].right} : w[1] = kind}}
        kept == {i \in Statements : lines[i].kind \in {"set", "if"}}
        words == UNION {said("str", i) : i \in kept}
        numbers == {0} \cup UNION {said("num", i) : i \in kept}
    IN  \/ words = {}
        \/ /\ \A i \in kept : lines[i].kind = "set" => lines[i].op = "NONE"
           /\ \A k \in numbers : ToString(k) \notin words

\* Programs the compiler translates faithfully.  What it does not: a second IF, which
\* gets the labels of the first one's blocks; REPEAT, which never ends; an IF on a
\* variable not yet set, which is 0 to the VM and nothing to the interpreter; a variable
\* set in an IF's body and read after it, where the register of the body is read; a
\* string that names a variable, which the interpreter replaces by its value; an IF that
\* may compare a number with the string that spells it, which are alike to the interpreter
\* and not to the VM; declarations and second triggers.
Compilable ==
    LET of(kind) == {i \in Statements : lines[i].kind = kind}
        said(kind, i) == {v[2] : v \in {w \in {lines[i].left, lines[i].right} : w[1] = kind}}
        strings == UNION {said("str", i) : i \in Statements}
        reads(i) == said("name", i)
    IN  /\ Cardinality(Triggers("start")) = 1
        /\ Triggers("global") = {} /\ Triggers("teach") = {}
        /\ of("repeat") = {}
        /\ Cardinality(of("if")) <= 1
        /\ \A j \in of("if") :
              /\ \E i \in of("set") : i < j /\ lines[i].var = lines[j].var
              /\ \A i \in Nodes(Body(j)) \cap of("set"), k \in Statements :
                    k > i /\ k \notin Nodes(Body(j)) => lines[i].var \notin reads(k)
        /\ \A i \in of("set") : lines[i].var \notin strings
        /\ of("if") # {} => ComparesAlike

\* Both write the same files, or none, and at the end of each what was written last.
\* (The whole contents differ: the interpreter starts the file anew and writes the
\* content twice, the VM appends a line.)
SameFiles ==
    /\ DOMAIN vmFiles = DOMAIN files
    /\ \A f \in DOMAIN files :
          IF files[f] = <<>> THEN vmFiles[f] = <<>>
          ELSE vmFiles[f] # <<>> /\ Last(vmFiles[f]) = Last(files[f])

\* A compiled program prints what the interpreter prints, line by line, raises when it
\* does, stops when it has, and leaves the same files.  The variables it uses are those
\* that the analyser recorded, and those that an IF tests.
CompiledRight ==
    pc > 0 /\ Compilable =>
        /\ IsPrefix(printed, out)
        /\ DOMAIN vmFiles \subseteq DOMAIN files
        /\ VmEnded \/ vmFailed =>
              printed = out /\ SameFiles /\ vmFailed = (status[Main] = "raised")
        /\ \A x \in Var : Name(x) \in DOMAIN slots =>
              x \in variables \/ \E j \in Statements : lines[j].kind = "if" /\ lines[j].var = x
=============================================================================
