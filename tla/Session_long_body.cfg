CONSTANTS
    BufSize = 5
    StrLen = 3
    Filler = Filler
    Heads = {2, 3}
    Bodies = {0, 1, 3, 4}
    MaxInbox = 8
SPECIFICATION SessionSpec
INVARIANT BodyFits
CHECK_DEADLOCK FALSE
