CONSTANTS
    a = a  b = b  r = r  s = s  t = t  x = x
    Threads = {a, b}
    Jobs = {r, s, t}
    NoJob = NoJob
    Fds = {x}
    Uses <- Duplex
    FdErrors = FALSE
SYMMETRY Sym
SPECIFICATION Spec
INVARIANT TriggersAwaited
CHECK_DEADLOCK FALSE
