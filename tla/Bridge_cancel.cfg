SPECIFICATION FairSpec
CONSTANTS
    Calls = {c1, c2}
    Commands = {}
    MaxCrashes = 1
INVARIANT CancelReachesTool
CHECK_DEADLOCK FALSE
