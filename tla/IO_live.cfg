CONSTANTS
    a = a  b = b  r = r  s = s  t = t  x = x
    Threads = {a, b}
    Jobs = {r, s}
    NoJob = NoJob
    Fds = {x}
    Uses <- Duplex
    FdErrors = FALSE
SPECIFICATION LiveSpec
PROPERTIES EveryTaskTaken ReadyWaiterWoken ThreadsExit
CHECK_DEADLOCK FALSE
