CONSTANTS
    w1 = w1  w2 = w2  f = f  g = g  h = h
    Workers = {w1, w2}
    Caller = main
    Jobs = {f, h}
    Functions = {}
    Outside = {f}
    Home <- SpawnPinned
    AnyThread = AnyThread
    NoJob = NoJob
    FunctionsThrow = FALSE
SPECIFICATION MCSpec
INVARIANT StopDrains
CHECK_DEADLOCK FALSE
