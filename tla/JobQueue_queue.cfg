\* An upload, a correction of it, and another upload; two processes.
SPECIFICATION FairSpec
CONSTANTS
    w1 = w1
    w2 = w2
    p1 = p1
    p2 = p2
    None = None
    ProcOf <- OwnProc
    Workers = {w1, w2}
    Procs = {p1, p2}
    Jobs = {j1, j2}
    MaxAttempts = 1
    MayPause = TRUE
    MaxFaults = 1
    DbErrors = TRUE
CHECK_DEADLOCK FALSE
INVARIANTS TypeOK RunsAtMost DoneIsStored UploadKept
PROPERTIES PausedKept OutcomeStands JobsClose FilesGo
