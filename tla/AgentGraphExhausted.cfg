SPECIFICATION Spec
CONSTANTS
    Workers = {w1, w2}
    MaxHops = 2
    MaxToolCalls = 3
    MaxWorkerIters = 2
    MaxBatch = 2
    MaxTurns = 2
PROPERTIES
    ExhaustedWorkerKeepsText
CHECK_DEADLOCK FALSE
