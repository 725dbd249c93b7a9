CONSTANTS
    a = a  b = b  c = c
    Timers = {1, 2}
    Clients = {c}
    Periods = {1, 4}
    MaxTime = 4
    Threads = {a, b}
    MaxSleep = 3
    IdleSleep = 2
    None = None
SYMMETRY Sym
SPECIFICATION Spec
INVARIANT FrontTimerWakes
CHECK_DEADLOCK FALSE
