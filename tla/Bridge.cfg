SPECIFICATION FairSpec
CONSTANTS
    Calls = {c1, c2}
    Commands = {"status", "level"}
    MaxCrashes = 1
INVARIANT TypeOK
PROPERTIES BusyIsNotOffline UpIsOnline GoneIsKnown
CHECK_DEADLOCK FALSE
