CONSTANTS
    Files = {a}
    Options = {first, second}
    MaxBatches = 1
    MaxLaunches = 1
    MaxExecutions = 2
    MaxQueued = 1
SPECIFICATION LiveSpec
PROPERTIES CloseRequestCloses
CHECK_DEADLOCK FALSE
