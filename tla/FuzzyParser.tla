---------------------------- MODULE FuzzyParser ----------------------------
(***************************************************************************)
(* FuzzyParser.parse of engine/parser/fuzzy_parser.py: the blocks it makes *)
(* of indented lines.                                                      *)
(*                                                                         *)
(* What a line says is the outcome of the patterns the parser tries in     *)
(* order, and is given: "start" (When we start), "teach" (To greet:),      *)
(* "global" (a declaration), the openers, or the statement parse_sentence  *)
(* finds.  What the word "it" stands for is found here, and put into the   *)
(* line.  A "vague" line is one in which parse_sentence finds nothing: an  *)
(* If, While or When without its colon, or a single letter.  Empty lines   *)
(* and comments are left out, and so is a skill with the name of the       *)
(* trigger that is made up.                                                *)
(***************************************************************************)
EXTENDS Ast

CONSTANTS
    It,     \* the word "it" for a variable
    NoVar   \* None for a variable, as good a key as any

ASSUME FuzzyAssumption == Var \subseteq STRING /\ NoVar \in Var /\ It \in STRING \ Var

VARIABLES
    trigger,    \* the body of current_trigger, or Nowhere
    mentioned   \* last_var_mentioned

FuzzyInit == SourceInit /\ trigger = Nowhere /\ mentioned = NoVar

fuzzyVars == <<trigger, mentioned>>

\* Mutant: one block is left at most.
PoppedOnce(entries) ==
    IF Len(entries) > 1 /\ Line.indent < Last(entries).indent THEN Front(entries) ELSE entries

\* block_stack after leaving the blocks the line is not indented enough for.  The
\* outermost one is never left.
Popped(entries) ==
    LET deep == {k \in 2 .. Len(entries) : Line.indent >= entries[k].indent}
    IN  SubSeq(entries, 1, IF deep = {} THEN 1 ELSE Max(deep))

\* block_stack for this line: outside of a trigger, "Interactive" is made or found.
Blocks ==
    IF trigger = Nowhere THEN <<Entry(Line.indent, Body(0))>> ELSE Popped(stack)

Current == Last(Blocks).block

IsPython(block) == block[1] \in DOMAIN lines /\ lines[block[1]].kind = "python"

\* In a Python block lines are raw text.
InPython == IsPython(Current)

\* Sentences that name the variable they are about: assignments and conditions.
Mentions == {"global", "set", "if", "while", "when"}

Meant(x) == IF x = It THEN mentioned ELSE x

\* It as the operand of arithmetic, and as what is printed: the name of the variable.
MeantOperand(v) ==
    CASE v = Name(It) -> Name(mentioned)
      [] v = Str(It) /\ Line.kind = "output" ->
             IF mentioned = NoVar THEN Undef ELSE Str(mentioned)
      [] OTHER -> v

Understood == [Line EXCEPT !.var = Meant(@), !.left = MeantOperand(@)]

\* The next line is taken as what it means.
Understand ==
    /\ pos < Len(lines) /\ ~failed
    /\ pos' = Here
    /\ lines' = [lines EXCEPT ![Here] = Understood]
    /\ mentioned' = IF Line.kind \in Mentions /\ (Line.kind = "set" => ~InPython)
                    THEN Understood.var ELSE mentioned

\* "When we start:" and "To greet:" begin a trigger, at any depth.
BeginTrigger ==
    /\ Understand
    /\ Line.kind \in {"start", "teach"}
    /\ trigger' = Body(Here)
    /\ stack' = <<Entry(Line.indent, Body(Here))>>
    /\ AppendTo(Program)
    /\ UNCHANGED failed

\* A declaration ends the trigger.
DeclareGlobal ==
    /\ Understand
    /\ Line.kind = "global"
    /\ trigger' = Nowhere
    /\ AppendTo(Program)
    /\ UNCHANGED <<stack, failed>>

\* What every line of a block does first.
Enter ==
    /\ Understand
    /\ Line.kind \notin {"start", "teach", "global"}
    /\ trigger' = IF trigger = Nowhere THEN Body(0) ELSE trigger

Openers == {"if", "while", "when", "request", "python"}

\* If, While, When and Python open a block one column further in than themselves.
OpenBlock ==
    /\ Enter
    /\ Line.kind \in Openers
    /\ ~InPython
    /\ AppendTo(Current)
    /\ stack' = Append(Blocks, Entry(Line.indent + 1, Body(Here)))
    /\ UNCHANGED failed

\* The last node of the block, when it is an If.
PrecedingIf ==
    {j \in Nodes(Current) : /\ lines[j].kind = "if"
                            /\ \A k \in Nodes(Current) : k <= j}

\* Else goes on with the If before it.
OpenElse ==
    /\ Enter
    /\ Line.kind = "else"
    /\ ~InPython
    /\ \E j \in PrecedingIf :
           stack' = Append(Blocks, Entry(Line.indent + 1, Else(j)))
    /\ UNCHANGED <<place, failed>>

\* Any other line is a statement; an Else without its If is a call of a skill "Else:".
Statement ==
    /\ Enter
    /\ \/ Line.kind \notin Openers \cup {"else", "vague"}
       \/ Line.kind = "vague" /\ InPython
       \/ Line.kind = "else" /\ ~InPython /\ PrecedingIf = {}
    /\ AppendTo(Current)
    /\ stack' = Blocks
    /\ UNCHANGED failed

\* Nothing is made of a line that says nothing.
PassOver ==
    /\ Enter
    /\ Line.kind = "vague" /\ ~InPython
    /\ stack' = Blocks
    /\ UNCHANGED <<place, failed>>

\* A line that opens a block cannot stand in a Python block: append and [-1] raise.
OpenInPython ==
    /\ Enter
    /\ Line.kind \in Openers \cup {"else"}
    /\ InPython
    /\ failed' = TRUE
    /\ stack' = Blocks
    /\ UNCHANGED place

ParseLine ==
    \/ BeginTrigger \/ DeclareGlobal
    \/ OpenBlock \/ OpenElse \/ Statement \/ PassOver \/ OpenInPython
-----------------------------------------------------------------------------
(* Properties *)

Beginnings == {"start", "teach", "global"}

\* The lines that belong together with line i: those since its trigger began.
Section(i) == {j \in 1 .. i : \A k \in j .. i : lines[k].kind \notin Beginnings}

Heads(j) ==
    \/ lines[j].kind \in Openers
    \/ lines[j].kind = "else" /\ place[j] = Nowhere

Opener(i) == Innermost(i, Heads) \cap Section(i)

\* The trigger over line i: the one made up, at first and after a declaration.
TriggerOver(i) ==
    {0} \cup {j \in 1 .. i : lines[j].kind \in Beginnings}

TriggerBody(i) ==
    LET last == Max(TriggerOver(i))
    IN  IF last # 0 /\ lines[last].kind # "global" THEN Body(last) ELSE Body(0)

\* The block of each line, as a reader of the source sees it: that of the nearest opener
\* that its indentation is under, whatever was opened and left in between; without one its
\* trigger's.  Under an Else it is the else_body of the last node of the Else's own block.
Home ==
    LET home[i \in 1 .. Len(lines)] ==
            IF Opener(i) = {} THEN TriggerBody(i)
            ELSE LET j == Max(Opener(i))
                 IN  IF lines[j].kind # "else" THEN Body(j)
                     ELSE Else(Max({k \in 1 .. j - 1 : place[k] = home[j]}))
    IN  home

\* The last node over line i in a block is an If.
AfterIf(i, block) ==
    \E j \in 1 .. i - 1 : /\ place[j] = block /\ lines[j].kind = "if"
                          /\ \A k \in j + 1 .. i - 1 : place[k] # block

\* No node is made of an Else that goes on with the If before it, and of a vague line.
Unplaced(i, block) ==
    \/ lines[i].kind = "else" /\ AfterIf(i, block)
    \/ lines[i].kind = "vague" /\ ~IsPython(block)

\* Every other line that was read is in its block.
FuzzyNesting ==
    LET home == Home
    IN  \A i \in 1 .. IF failed THEN pos - 1 ELSE pos :
            lines[i].kind \notin Beginnings =>
                place[i] = IF Unplaced(i, home[i]) THEN Nowhere ELSE home[i]
=============================================================================
