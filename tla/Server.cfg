CONSTANTS
    acceptor = acceptor
    closer = closer
    Users = {u}
    Fibers = {acceptor, closer, u}
    NoFiber = NoFiber
    Fds <- MCFds
    MaxThreads = 2
    Modes <- MCModes
SPECIFICATION MCSpec
INVARIANTS TypeOK ParkedIsRegistered TimersEndWithCalls TableMatchesKernel OwnedOnce WaitsCanEnd
PROPERTIES TimedWaitEnds AcceptLoopEnds
CHECK_DEADLOCK FALSE
