SPECIFICATION Spec
CONSTANTS
    Var = {"x", "y", "z", "None"}
    It = "it"
    NoVar = "None"
    Interactive = "Interactive"
    Sources <- MCSources
    MaxWhile = 2
    MaxDepth = 4
    MaxRequests = 2
    MaxOut = 6
INVARIANTS
    NestingFollowsIndentation
    ColonsReadNothing
    CompiledRight
PROPERTY
    RequestsAnswered
CHECK_DEADLOCK FALSE
