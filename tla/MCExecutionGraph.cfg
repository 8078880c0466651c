\* All DAGs over four nodes and two cyclic graphs, each node with no retry or one.
CONSTANTS
  Node = {1, 2, 3, 4}
  Graphs <- SmallGraphs
  Insertions <- SomeOrders
  MaxRetries = 1
  MaxRuns = 1
SPECIFICATION Spec
INVARIANT OrderIsTopological
INVARIANT DependenciesDone
INVARIANT OutcomeIsTrue
PROPERTY FirstRunEnds
\* A run that ended is not repeated.
CHECK_DEADLOCK FALSE
