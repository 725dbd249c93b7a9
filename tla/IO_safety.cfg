CONSTANTS
    a = a  b = b  r = r  s = s  t = t  x = x
    Threads = {a, b}
    Jobs = {r, s, t}
    NoJob = NoJob
    Fds = {x}
    Uses <- Duplex
    FdErrors = TRUE
SYMMETRY Sym
SPECIFICATION Spec
INVARIANTS PendingExact ContextInSync OnePlace
PROPERTIES WaitEndsScheduled ImplementsEventPool
CHECK_DEADLOCK FALSE
