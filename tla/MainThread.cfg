SPECIFICATION Spec
CONSTANTS
    Tools = {lookup, script, dbg_start}
    Starters = {dbg_start}
    MaxDepth = 4
    None = None
INVARIANTS TypeOK CleanAtIdle BatchKept SavedInOrder
