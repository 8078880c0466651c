\* One four-node workflow, one crash, one run before it and one after it.
CONSTANTS
  Node <- Join
  Graphs <- JoinGraph
  Insertions <- JoinOrder
  MaxRetries = 0
  MaxRuns = 2
  MaxCrashes = 1
SPECIFICATION WfSpec
PROPERTY ResumedRunEnds
CHECK_DEADLOCK FALSE
