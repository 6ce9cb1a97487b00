SPECIFICATION Spec
CONSTANTS
    Procs = {p1, p2}
    Ports = {8000, 8001}
    MaxStarts = 2
    None = None
INVARIANTS TypeOK OnlyStaleUnlinked RunningIsListed StoppedIsGone
           OwnsWhatItServes
CHECK_DEADLOCK FALSE
