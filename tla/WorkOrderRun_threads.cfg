\* Threads, the real six steps, two processes; live runs renew in time.
SPECIFICATION Spec
CONSTANTS
    Runs = {r1, r2, r3}
    Procs = {p1, p2}
    Items = {i1, i2}
    NoRun = NoRun
    NoProc = NoProc
    NSteps = 6
    SortStep = 2
    ClassifyStep = 3
    ReconcileStep = 4
    Needed = 1
    MaxDecisions = 2
    MaxFaults = 2
    AutoResumeLimit = 1
    DrainRounds = 2
    Cloud = FALSE
    HealthyHeartbeat = TRUE
    TaxIdTypo = FALSE
SYMMETRY Symmetry
CHECK_DEADLOCK FALSE
INVARIANTS TypeOK LiveRunHoldsLease PassIsCurrent
PROPERTIES PipelineSpec
