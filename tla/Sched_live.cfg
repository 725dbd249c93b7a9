CONSTANTS
    w1 = w1  w2 = w2  f = f  g = g  h = h
    Workers = {w1, w2}
    Caller = main
    Jobs = {f, g, h}
    Functions = {g}
    Outside = {f, g, h}
    Home <- BothPinned
    AnyThread = AnyThread
    NoJob = NoJob
    FunctionsThrow = FALSE
SPECIFICATION MCFairSpec
PROPERTIES EveryTaskTaken StopReturns
CHECK_DEADLOCK FALSE
