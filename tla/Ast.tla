-------------------------------- MODULE Ast --------------------------------
(***************************************************************************)
(* Sources and syntax trees of the language (engine/parser/ast_nodes.py),  *)
(* as both parsers build them and as the interpreter and the IR generator  *)
(* read them.                                                              *)
(*                                                                         *)
(* A source is a list of lines, each with its indentation and what its     *)
(* text says.  A node is named by its line, and the tree is the block each *)
(* node was appended to: place[i] is <<j, branch>>, the body or else_body  *)
(* of node j, where node 0 is the trigger made up for statements outside   *)
(* of any.  Triggers and declarations are placed in the Program; lines     *)
(* that made no node are placed Nowhere.                                   *)
(***************************************************************************)
EXTENDS Integers, SequencesExt, FiniteSetsExt

CONSTANT Var    \* names of variables, strings

VARIABLES
    lines,      \* the source
    pos,        \* lines read
    place,      \* line -> block
    stack,      \* the open blocks, innermost last, each with an indentation
    failed      \* the parser raised

sourceVars == <<lines, pos, place, stack, failed>>

Nowhere == <<0, "nowhere">>
Program == <<0, "program">>
Body(j) == <<j, "body">>
Else(j) == <<j, "else">>

SourceInit ==
    /\ pos = 0
    /\ place = [i \in DOMAIN lines |-> Nowhere]
    /\ stack = <<>>
    /\ failed = FALSE

Here == pos + 1
Line == lines[Here]

Entry(indent, block) == [indent |-> indent, block |-> block]

\* The next line is taken.
Read ==
    /\ pos < Len(lines) /\ ~failed
    /\ pos' = Here
    /\ UNCHANGED lines

AppendTo(block) == place' = [place EXCEPT ![Here] = block]

Parsed == pos = Len(lines) /\ ~failed

\* The nodes of a block, and the first of them after the given one, or 0.
Nodes(block) == {i \in DOMAIN place : place[i] = block}

Triggers(kind) == {j \in Nodes(Program) : lines[j].kind = kind}

Statements == {i \in DOMAIN place : place[i] \notin {Nowhere, Program}}

NextNode(block, done) ==
    LET rest == {i \in Nodes(block) : i > done}
    IN  IF rest = {} THEN 0 ELSE Min(rest)

\* Line i is under line j as the indentation shows it.
Encloses(j, i) ==
    /\ j < i /\ lines[j].indent < lines[i].indent
    /\ \A k \in j + 1 .. i - 1 : lines[j].indent < lines[k].indent

\* The nearest line over line i, of those that head a block.
Innermost(i, Heads(_)) ==
    {j \in 1 .. i : /\ Encloses(j, i) /\ Heads(j)
                   /\ \A k \in j + 1 .. i : ~(Encloses(k, i) /\ Heads(k))}

\* A map with one more or one other entry.
Stored(map, key, value) ==
    [k \in DOMAIN map \cup {key} |-> IF k = key THEN value ELSE map[k]]

(* Values are tagged: numbers, strings, and Undef for what a variable without a  *)
(* value has.  An Identifier stands for one.  A string that was calculated is    *)
(* kept as the pieces it was put together from.                                  *)

Num(k)  == <<"num", k>>
Str(s)  == <<"str", s>>
Text(p) == <<"text", p>>
Name(x) == <<"name", x>>
Undef   == <<"undef">>

SourceOperand == ({"num"} \X Int) \cup ({"str", "name"} \X STRING)

\* What a line can say, in either dialect: the nodes of the tree, what only the
\* tokenizer sees, and what no node is made of.
Kind ==
    {"start", "teach", "global", "set", "output", "if", "else", "while", "when", "repeat",
     "request", "python", "server", "shell", "call", "save", "load", "create", "write"}
    \cup {"make", "say", "loop", "blank", "noise", "broken", "vague"}

\* What a SET does to its operands; without one it assigns the first.
Operation == {"NONE", "PLUS", "MINUS", "TIMES"}

\* A line of a source.
SourceLine ==
    [indent : Nat, kind : Kind, colon : BOOLEAN, var : STRING, op : Operation,
     left : SourceOperand, right : SourceOperand]

IsNumber(v) == v[1] = "num"
IsString(v) == v[1] \in {"str", "text"}

Pieces(v) == IF v[1] = "str" THEN <<v[2]>> ELSE v[2]

Repeated(p, k) == [i \in 1 .. k * Len(p) |-> p[1 + ((i - 1) % Len(p))]]

\* What PLUS, MINUS and TIMES are applied to without a type error: strings can be put
\* together and repeated.
Fits(op, a, b) ==
    \/ IsNumber(a) /\ IsNumber(b)
    \/ op = "PLUS" /\ IsString(a) /\ IsString(b)
    \/ op = "TIMES" /\ IsString(a) /\ IsNumber(b)
    \/ op = "TIMES" /\ IsNumber(a) /\ IsString(b)

Calculate(op, a, b) ==
    CASE op = "PLUS" /\ IsString(a)  -> Text(Pieces(a) \o Pieces(b))
      [] op = "TIMES" /\ IsString(a) -> Text(Repeated(Pieces(a), b[2]))
      [] op = "TIMES" /\ IsString(b) -> Text(Repeated(Pieces(b), a[2]))
      [] OTHER -> Num(CASE op = "PLUS"  -> a[2] + b[2]
                        [] op = "MINUS" -> a[2] - b[2]
                        [] op = "TIMES" -> a[2] * b[2])

\* str of a value.
Spelled(v) ==
    CASE IsNumber(v)   -> ToString(v[2])
      [] v[1] = "str"  -> v[2]
      [] v[1] = "text" -> FoldLeft(LAMBDA text, piece : text \o piece, "", v[2])
      [] OTHER         -> "None"

\* str(a) == str(b).  (No two numbers are spelled alike.)
SameText(a, b) ==
    IF IsNumber(a) /\ IsNumber(b) THEN a = b ELSE Spelled(a) = Spelled(b)

\* a == b, of numbers and strings.
SameValue(a, b) ==
    IF IsNumber(a) \/ IsNumber(b) THEN a = b ELSE Spelled(a) = Spelled(b)
=============================================================================
