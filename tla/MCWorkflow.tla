----------------------------- MODULE MCWorkflow -----------------------------
EXTENDS Workflow
\* join depends on a root and on a node two steps away from another root.
Join == {"root", "start", "middle", "join"}
JoinGraph ==
    {[n \in Node |-> CASE n = "middle" -> {"start"}
                       [] n = "join"   -> {"root", "middle"}
                       [] OTHER        -> {}]}
JoinOrder == {<<"root", "start", "middle", "join">>}
=============================================================================
