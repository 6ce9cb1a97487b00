SPECIFICATION FairSpec
CONSTANTS
    Calls = 2
    MaxAttempts = 2
INVARIANTS TypeOK ScriptLeavesNothing
PROPERTY RunawayStopped
CHECK_DEADLOCK FALSE
