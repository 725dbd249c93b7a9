CONSTANTS
    w1 = w1  w2 = w2  f = f  g = g  h = h
    Workers = {w1, w2}
    Caller = main
    Jobs = {f, g, h}
    Functions = {g}
    Outside = {f, g}
    Home <- OnePinned
    AnyThread = AnyThread
    NoJob = NoJob
    FunctionsThrow = TRUE
SPECIFICATION MCSpec
INVARIANTS TypeOK FiberExclusive OneWayOn NothingLost ActiveExact StopDrains
PROPERTIES ImplementsTaskPool OnlyThrowsAbort
CHECK_DEADLOCK FALSE
