CONSTANTS
    Components = {1, 2, 3}
    Graphs <- MCGraphs
    LoopDecls <- MCLoopDecls
    Priorities <- MCPriorities
SPECIFICATION Spec
CHECK_DEADLOCK FALSE
INVARIANTS
    RefusedExactlyWhenWrong
    EveryComponentScheduledInOrder
PROPERTY Terminates
