SPECIFICATION Spec
CONSTANTS
    w1 = w1
    w2 = w2
    w3 = w3
    tkn = tkn
    Workers = {w1, w2, w3}
    NoWorker = NoWorker
    Names <- MCNames
    Registered <- MCRegistered
    UnsafeTools <- MCUnsafe
    Groups = {"dbg"}
    NoGroup = NoGroup
    GroupOf <- MCGroupOf
    Tokens = {tkn}
    NoToken = NoToken
    AuthToken = tkn
    Ids = {"1", "2"}
    Unhashable = {"[7]"}
    NoId = NoId
    Requests <- MCRequests
    GateOn = TRUE
    MaxReceived = 3
SYMMETRY Symmetry
INVARIANTS TypeOK OneCallAtATime TableExact OnlyListedRun
           LedgerMatchesReplies
CHECK_DEADLOCK FALSE
