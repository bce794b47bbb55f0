CONSTANTS
    Files = {a}
    Options = {first, second}
    MaxBatches = 2
    MaxLaunches = 2
    MaxExecutions = 2
    MaxQueued = 1
SPECIFICATION LiveSpec
INVARIANTS IncompleteBatchKeepsEntry ProgressSettles CheckNotStranded
PROPERTIES NothingStartsOutOfTurn CloseSettles
CHECK_DEADLOCK FALSE
