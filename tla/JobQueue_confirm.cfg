\* A paused job is confirmed again.
SPECIFICATION Spec
CONSTANTS
    w1 = w1
    w2 = w2
    p1 = p1
    p2 = p2
    None = None
    ProcOf <- OwnProc
    Workers = {w1, w2}
    Procs = {p1, p2}
    Jobs = {j1, j2, j3}
    MaxAttempts = 1
    MayPause = TRUE
    MaxFaults = 0
    DbErrors = TRUE
CHECK_DEADLOCK FALSE
INVARIANTS QueuedHasFiles
