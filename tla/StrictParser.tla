---------------------------- MODULE StrictParser ----------------------------
(***************************************************************************)
(* Parser.parse of engine/parser/parser.py, fed by the tokenizer: each of  *)
(* its recursive calls is an entry of the stack, for the trigger, the IF   *)
(* or the REPEAT whose statements it reads.                                *)
(*                                                                         *)
(* Tokens are taken by lines.  A token carries the indentation of its      *)
(* line, so a line is one statement with its arguments, or junk that       *)
(* parse_statement turns, token by token, into literals without effect.    *)
(* A "broken" line is a SET alone, without its arguments.  In this dialect *)
(* "start", "teach" and "request" are a WHEN before a word, which names a  *)
(* trigger, and "when" is one before a string.                             *)
(***************************************************************************)
EXTENDS Ast

\* What the lines of a strict source can say: it has no pronoun, so what it names are
\* variables, or files.
StrictOperand == ({"num"} \X Int) \cup ({"str"} \X STRING) \cup ({"name"} \X Var)

StrictSourceLine ==
    {l \in SourceLine : l.var \in Var /\ {l.left, l.right} \subseteq StrictOperand}

\* The tokenizer: words that say nothing are dropped, and with them lines of nothing
\* else; other words for a keyword become the keyword.  ("WHEN A request COMES:" names a
\* trigger like any other.)
Noise == {"blank", "noise"}

Synonyms == [make |-> "set", say |-> "output", loop |-> "repeat", request |-> "teach"]

Keyword(word) == IF word \in DOMAIN Synonyms THEN Synonyms[word] ELSE word

Tokenize(text) ==
    LET spoken[i \in 0 .. Len(text)] ==
            IF i = 0 THEN <<>>
            ELSE IF text[i].kind \in Noise THEN spoken[i - 1]
            ELSE Append(spoken[i - 1], [text[i] EXCEPT !.kind = Keyword(@)])
    IN  spoken[Len(text)]

StrictInit == SourceInit

\* parse_trigger reads lines that are indented, the top level what is left.
TopLevel == stack = <<>> \/ Line.indent = 0

\* WHEN <name>: parse_trigger looks for the colon at the next token, which must exist.
StrictTrigger ==
    /\ Read
    /\ TopLevel /\ Line.kind \in {"start", "teach"}
    /\ stack' = <<Entry(0, Body(Here))>>
    /\ failed' = (~Line.colon /\ Here = Len(lines))
    /\ AppendTo(Program)

\* WHEN "x" IS 1: parse_trigger expects a name.
StrictWhen ==
    /\ Read
    /\ TopLevel /\ Line.kind = "when"
    /\ failed' = TRUE
    /\ stack' = <<>>
    /\ UNCHANGED place

\* A declaration, and junk, outside of a trigger.
StrictTopLevel ==
    /\ Read
    /\ TopLevel /\ Line.kind \notin {"start", "teach", "when"}
    /\ stack' = <<>>
    /\ AppendTo(IF Line.kind = "global" THEN Program ELSE Nowhere)
    /\ UNCHANGED failed

\* Mutant: a line as far out as a head is still read by it.
ReadingBeside(entries) ==
    LET outer == {k \in 2 .. Len(entries) : Line.indent < entries[k].indent}
    IN  SubSeq(entries, 1, IF outer = {} THEN Len(entries) ELSE Min(outer) - 1)

\* The calls that go on reading at this indentation.
Reading(entries) ==
    LET outer == {k \in 2 .. Len(entries) : Line.indent <= entries[k].indent}
    IN  SubSeq(entries, 1, IF outer = {} THEN Len(entries) ELSE Min(outer) - 1)

\* A REPEAT takes a number or a name.
Misread == Line.kind = "broken" \/ (Line.kind = "repeat" /\ Line.left[1] = "str")

\* IF and REPEAT read the lines further in than themselves, unless a colon comes
\* first: it is no further in, so it ends the body and is junk of the enclosing block.
StrictOpener ==
    /\ Read
    /\ ~TopLevel /\ Line.kind \in {"if", "repeat"} /\ ~Misread
    /\ AppendTo(Last(Reading(stack)).block)
    /\ stack' = IF Line.colon THEN Reading(stack)
                ELSE Append(Reading(stack), Entry(Line.indent, Body(Here)))
    /\ UNCHANGED failed

Take(kinds) ==
    /\ Read
    /\ ~TopLevel /\ Line.kind \in kinds
    /\ AppendTo(Last(Reading(stack)).block)
    /\ stack' = Reading(stack)
    /\ UNCHANGED failed

Simple == {"set", "output"}
OnFiles == {"create", "write"}

StrictStatement == Take(Simple)
StrictFileStatement == Take(OnFiles)

StrictJunk ==
    /\ Read
    /\ ~TopLevel /\ Line.kind \notin {"if", "repeat", "broken"} \cup Simple \cup OnFiles
    /\ stack' = Reading(stack)
    /\ UNCHANGED <<place, failed>>

\* expect looks for the string of a SET at whatever token comes next, the first one of the
\* next line, which is none.  Without a next line there is no token: that raises as well.
StrictBroken ==
    /\ Read
    /\ ~TopLevel /\ Misread
    /\ failed' = TRUE
    /\ stack' = Reading(stack)
    /\ UNCHANGED place

StrictLine ==
    \/ StrictTrigger \/ StrictWhen \/ StrictTopLevel
    \/ StrictOpener \/ StrictStatement \/ StrictFileStatement \/ StrictJunk \/ StrictBroken
-----------------------------------------------------------------------------
(* Properties *)

Reads(j) ==
    lines[j].kind \in {"if", "repeat"} /\ ~lines[j].colon /\ place[j] # Nowhere

\* What Parser does with a colon: a statement is read by the nearest IF or REPEAT without
\* one that its indentation is under, and by the last trigger without such a head.
StrictNesting ==
    \A i \in Statements :
        /\ Innermost(i, Reads) = {} =>
               place[i] = Body(Max({j \in 1 .. i : /\ lines[j].kind \in {"start", "teach"}
                                                   /\ place[j] = Program}))
        /\ \A j \in Innermost(i, Reads) : place[i] = Body(j)
=============================================================================
