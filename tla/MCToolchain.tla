---------------------------- MODULE MCToolchain ----------------------------
EXTENDS Toolchain

\* A line: indentation, kind, trailing colon, variable, operation and operands.
L(indent, kind, var, left) ==
    [indent |-> indent, kind |-> kind, colon |-> FALSE, var |-> var,
     op |-> "NONE", left |-> left, right |-> Num(0)]
Start == [L(0, "start", "x", Num(0)) EXCEPT !.colon = TRUE]
Teach(skill) == L(0, "teach", skill, Num(0))
Global(x, v) == L(0, "global", x, v)
Do(indent, kind) == L(indent, kind, "x", Num(0))
Colon(line) == [line EXCEPT !.colon = TRUE]
Create(indent, file) == L(indent, "create", file, Num(0))
Write(indent, file, content) == L(indent, "write", file, content)
Combine(indent, op, x, left, right) ==
    [L(indent, "set", x, left) EXCEPT !.op = op, !.right = right]
Calc(indent, op, x, k) == Combine(indent, op, x, Name(x), Num(k))
Server(indent, port) == L(indent, "server", "x", Num(port))

Of(language, tiers, sources) ==
    {[dialect |-> language, pro |-> tier, lines |-> s] : tier \in tiers, s \in sources}

\* Every way to indent four lines that open, leave and resume blocks.
Shapes ==
    [1 .. 4 -> {Do(i, kind) : i \in 0 .. 2, kind \in {"if", "else", "output"}}
               \cup {Do(1, "python"), Do(1, "vague"), Do(0, "start")}]

\* Programs of the conversational dialect: a server with listeners, a loop in the main
\* task that runs among requests, skills that call themselves, saved variables.
Programs == {
    <<Start, L(1, "while", "x", Num(0)), Do(2, "output"), Do(2, "server"),
      L(0, "start", "x", Num(0))>>,
    <<Global("x", Num(0)), Start,
      Do(1, "request"), Calc(2, "PLUS", "x", 1), L(2, "output", "x", Str("x")),
      L(1, "when", "x", Num(1)), L(2, "output", "x", Str("x")), L(2, "set", "x", Num(2)),
      Do(1, "server")>>,
    <<Start, L(1, "set", "x", Num(1)), Do(1, "request"), L(2, "while", "x", Num(1)),
      L(3, "save", "x", Num(0)), L(2, "set", "y", Num(1)), L(2, "load", "x", Num(0)),
      Do(1, "server"), L(1, "while", "x", Num(1)), L(2, "set", "y", Str("y"))>>,
    <<Teach("x"), L(1, "if", "x", Num(1)), L(2, "set", "x", Num(0)), L(2, "call", "x", Num(0)),
      Do(1, "else"), L(2, "output", "x", Num(7)), Teach("y"), L(1, "call", "y", Num(0)),
      Start, L(1, "set", "x", Num(1)), L(1, "call", "x", Num(0)),
      Do(1, "request"), L(2, "call", "y", Num(0)), Do(1, "shell"), Do(1, "python"),
      Do(1, "server")>>,
    <<Start, Do(1, "server"), Do(1, "request"), Do(2, "server"), L(1, "when", "y", Num(0)),
      L(2, "call", "z", Num(0)), L(1, "set", "y", Str("x")), Calc(1, "MINUS", "y", 1)>>,
    <<Start, L(1, "output", "x", Str("it")), L(1, "set", "it", Num(3)), L(1, "set", "x", Num(1)),
      L(1, "if", "y", Num(1)), L(2, "set", "it", Num(2)), Do(1, "else"), Calc(2, "PLUS", "it", 2),
      Do(1, "python"), L(2, "set", "x", Num(9)), L(1, "output", "x", Str("it"))>>,
    <<Start, Do(1, "if"), Do(2, "output"), Do(1, "else"), Do(2, "if"), Do(1, "else"),
      Do(2, "else"), Do(3, "output")>>,
    <<Start, Server(1, 80), Server(1, 81), Do(1, "request"), L(2, "set", "x", Str("y")), Server(2, 82),
      Calc(2, "PLUS", "x", 1), L(1, "call", "Interactive", Num(0)), Global("y", Num(2)),
      L(0, "if", "y", Str("2")), L(1, "output", "x", Str("y")), Do(0, "vague"),
      L(0, "if", "x", Str("None")), L(1, "set", "y", Num(3))>>,
    <<Start, L(1, "set", "x", Str("a")), Combine(1, "TIMES", "x", Name("x"), Num(2)),
      L(1, "while", "x", Str("aa")), Combine(2, "PLUS", "x", Str("x"), Str("b")),
      L(1, "output", "x", Str("x")), L(1, "call", "Interactive", Num(0))>>}

\* Every strict program of one trigger with three statements of these.
StrictStatements ==
    {L(i, "set", "x", Num(1)) : i \in {1, 2}}
    \cup {Calc(i, "PLUS", "x", 1) : i \in {1, 2}}
    \cup {L(2, "set", "y", Name("x")), L(1, "output", "x", Name("y"))}
    \cup {L(i, "output", "x", Name("x")) : i \in {1, 2}}
    \cup {L(1, "if", "x", Num(1)), L(1, "repeat", "x", Num(2))}

StrictShapes == {<<Start, L(1, "set", "x", Num(1))>> \o s : s \in [1 .. 3 -> StrictStatements]}

\* genesis.asrt, with fewer words: strings put together, and heads with a colon.
Genesis ==
    <<Global("x", Num(0)), Global("y", Str("z")), Do(0, "noise"), Start, L(1, "output", "x", Str("a")),
      Combine(1, "PLUS", "x", Str("10"), Str("40")), L(1, "output", "x", Str("x")),
      Colon(L(1, "if", "x", Str("50"))), L(2, "output", "x", Str("b")),
      Colon(L(2, "repeat", "x", Num(2))), L(3, "output", "x", Str("c")),
      Create(1, "z"), Write(1, "z", Str("d"))>>

\* Nested and repeated IFs, colons, junk, strings and numbers, type errors, and WHENs.
StrictPrograms == {
    <<Global("x", Num(0)), Start, L(1, "if", "x", Num(0)), L(2, "if", "y", Num(0)),
      L(3, "output", "x", Num(2)), L(1, "output", "x", Name("x"))>>,
    <<Start, Calc(1, "TIMES", "x", 3), Colon(L(1, "if", "x", Num(1))), Do(2, "else"),
      Calc(2, "MINUS", "x", 1), L(1, "output", "x", Name("x")), Do(0, "output")>>,
    <<Start, L(1, "set", "x", Str("z")), L(1, "if", "x", Str("z")), L(2, "output", "x", Name("x")),
      Calc(1, "PLUS", "x", 1), L(1, "output", "x", Name("x"))>>,
    <<Start, L(1, "make", "x", Num(1)), Do(1, "blank"), Create(1, "z"), L(1, "if", "x", Num(1)),
      Write(2, "y", Name("x")), Do(2, "noise"), L(2, "say", "x", Name("x")),
      Write(1, "z", Str("None")), Create(1, "y")>>,
    <<Start, Write(1, "z", Num(2)), Calc(1, "PLUS", "x", 1), Create(1, "y"), Write(1, "z", Name("x")),
      L(1, "loop", "x", Name("x")), Write(2, "x", Num(0))>>,
    <<Start, L(1, "set", "x", Str("1")), Create(1, "z"), Calc(1, "TIMES", "x", 2), Create(1, "y"),
      Combine(1, "PLUS", "y", Name("x"), Str("0")), Write(1, "z", Name("y")),
      Calc(1, "MINUS", "y", 2), L(1, "output", "x", Name("x"))>>,
    <<Start, L(1, "set", "x", Num(1)), L(1, "if", "x", Str("1")), L(2, "output", "x", Name("x"))>>,
    <<Start, L(1, "set", "x", Num(1)), L(1, "set", "y", Str("a")), L(1, "if", "y", Name("x")),
      L(2, "output", "x", Str("b")), L(1, "output", "x", Name("y"))>>,
    <<Start, L(1, "set", "x", Num(1)), L(1, "set", "y", Num(1)), Calc(1, "PLUS", "y", 1),
      L(1, "if", "y", Num(2)), L(2, "output", "x", Str("b")), L(1, "when", "x", Num(1))>>,
    <<L(0, "request", "x", Num(0)), Do(1, "output"), Start, L(1, "repeat", "x", Str("2"))>>,
    <<Start, Do(1, "output"), L(0, "when", "x", Num(1)), Do(1, "output")>>,
    <<Start, Do(1, "output"), L(1, "broken", "x", Num(0)), Do(1, "output")>>,
    <<Do(0, "output"), Do(0, "start")>>}

MCSources ==
    Of("fuzzy", {FALSE}, Shapes) \cup Of("fuzzy", BOOLEAN, Programs)
        \cup Of("strict", {FALSE}, StrictShapes \cup StrictPrograms \cup {Genesis})
=============================================================================
