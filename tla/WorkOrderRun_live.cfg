\* Runs may lose their lease and live on as zombies beside the reaper's new
\* run; no symmetry, for the liveness property.
SPECIFICATION FairSpec
CONSTANTS
    Runs = {r1, r2}
    Procs = {p1}
    Items = {i1}
    NoRun = NoRun
    NoProc = NoProc
    NSteps = 3
    SortStep = 1
    ClassifyStep = 1
    ReconcileStep = 2
    Needed = 1
    MaxDecisions = 1
    MaxFaults = 1
    AutoResumeLimit = 1
    DrainRounds = 1
    Cloud = FALSE
    HealthyHeartbeat = FALSE
    TaxIdTypo = FALSE
CHECK_DEADLOCK FALSE
PROPERTIES RunningEnds LiveLeaseKept
