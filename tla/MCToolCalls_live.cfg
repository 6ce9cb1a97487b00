SPECIFICATION FairSpec
CONSTANTS
    w1 = w1
    w2 = w2
    w3 = w3
    tkn = tkn
    Workers = {w1, w2}
    NoWorker = NoWorker
    Names <- MCNames
    Registered <- MCRegistered
    UnsafeTools <- MCUnsafe
    Groups = {"dbg"}
    NoGroup = NoGroup
    GroupOf <- MCGroupOf
    Tokens = {tkn}
    NoToken = NoToken
    AuthToken = tkn
    Ids = {"1", "2"}
    Unhashable = {"[7]"}
    NoId = NoId
    Requests <- MCFewRequests
    GateOn = TRUE
    MaxReceived = 3
INVARIANT GateNotLost
PROPERTIES SerializedCalls EveryRequestAnswered
CHECK_DEADLOCK FALSE
