-------------------------- MODULE MCExecutionGraph --------------------------
EXTENDS ExecutionGraph
\* Every dependency relation that follows the numbers of the nodes (all the DAGs,
\* up to renaming), a ring, and a node that depends on itself.
SmallGraphs ==
    {g \in [Node -> SUBSET Node] : \A n \in Node : \A d \in g[n] : d < n}
        \cup {[n \in Node |-> {(n % Cardinality(Node)) + 1}],
              [n \in Node |-> IF n = 1 THEN {1} ELSE {}]}
\* Dependencies are added first, last, and anyhow.
SomeOrders == {<<1, 2, 3, 4>>, <<4, 3, 2, 1>>, <<3, 1, 4, 2>>}
=============================================================================
