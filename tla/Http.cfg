CONSTANTS
    B = 2
    MaxNodes = 3
    Width = 3
    Group = 2
    Junk = Junk
    NULL = NULL
    Values <- MCValues
    Texts <- MCTexts
    Lengths <- MCLengths
    Elsewhere = {}
    Clients = {c1, c2, c3}
    Conns = {x1, x2, x3}
    NoConn = NoConn
    MaxSize = 1
    MaxRequest = 2
    BufSize = 5
    StrLen = 3
    Filler = Filler
    Heads = {2, 3}
    Bodies = {0, 1, 3, 4}
    MaxInbox = 8
SPECIFICATION Spec
INVARIANTS CurHoldsOffset StaysInList
INVARIANTS OneHolder TotalExact LimitSlack
INVARIANTS StartsAtRequest BodyInPlace OnlyLongBodiesOverrun
PROPERTIES ImplementsTape ValuesReadBack RequestAnswered
CHECK_DEADLOCK FALSE
