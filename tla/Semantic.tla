------------------------------ MODULE Semantic ------------------------------
(***************************************************************************)
(* SemanticAnalyzer.analyze of engine/parser/semantic.py on the tree of    *)
(* the strict parser, one statement a step.  It visits a block's           *)
(* statements in order and those of a body right after their head, which   *)
(* is the order of the lines.                                              *)
(***************************************************************************)
EXTENDS Ast

VARIABLES
    checked,    \* the last statement analysed, 0 before the first
    variables,  \* the variables recorded
    verdict     \* "pending", "accepted", or "rejected" by a SemanticError

semanticVars == <<checked, variables, verdict>>

SemanticInit == checked = 0 /\ variables = {} /\ verdict = "pending"

\* analyze: the statement to look at, or 0.
ToCheck ==
    LET rest == {i \in Statements : i > checked}
    IN  IF rest = {} THEN 0 ELSE Min(rest)

Checking(kinds) ==
    /\ verdict = "pending"
    /\ ToCheck # 0 /\ lines[ToCheck].kind \in kinds

\* ensure_valid_value: a literal is valid, an Identifier is recorded and valid.
Ensured(v) == IF v[1] = "name" THEN {v[2]} ELSE {}

Record(names) ==
    /\ checked' = ToCheck
    /\ variables' = variables \cup names
    /\ UNCHANGED verdict

CheckSet ==
    /\ Checking({"set"})
    /\ LET s == lines[ToCheck]
       IN  Record({s.var} \cup Ensured(s.left) \cup IF s.op = "NONE" THEN {} ELSE Ensured(s.right))

\* OUTPUT, and IF, whose variable is not looked at.
CheckValue ==
    /\ Checking({"output", "if", "write"})
    /\ Record(Ensured(lines[ToCheck].left))

\* The parser takes nothing but a string for the name of a file.
CheckCreateFile == Checking({"create"}) /\ Record({})

\* The count must be a number in the source: a variable is refused.
CheckRepeat ==
    /\ Checking({"repeat"})
    /\ IF lines[ToCheck].left[1] = "num" THEN Record({})
       ELSE verdict' = "rejected" /\ UNCHANGED <<checked, variables>>

EndChecks ==
    /\ verdict = "pending" /\ ToCheck = 0
    /\ verdict' = "accepted"
    /\ UNCHANGED <<checked, variables>>

CheckStmt == CheckSet \/ CheckValue \/ CheckCreateFile \/ CheckRepeat \/ EndChecks
=============================================================================
