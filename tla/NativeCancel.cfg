SPECIFICATION FairSpec
CONSTANTS
    Calls = 2
    Scripts = {2}
    Timeout = 1
    Grace = 1
    Extra = 1
    MaxTime = 4
INVARIANTS TypeOK InterruptJustified NothingOutlivesTool
PROPERTY EveryCallEnds
CHECK_DEADLOCK FALSE
