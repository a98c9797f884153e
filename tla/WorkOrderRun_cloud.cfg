\* Runs delivered by Cloud Tasks: a queued run has no thread and may lapse.
SPECIFICATION Spec
CONSTANTS
    Runs = {r1, r2, r3}
    Procs = {p1, p2}
    Items = {i1}
    NoRun = NoRun
    NoProc = NoProc
    NSteps = 3
    SortStep = 1
    ClassifyStep = 1
    ReconcileStep = 2
    Needed = 1
    MaxDecisions = 1
    MaxFaults = 1
    AutoResumeLimit = 1
    DrainRounds = 1
    Cloud = TRUE
    HealthyHeartbeat = TRUE
    TaxIdTypo = TRUE
SYMMETRY Symmetry
CHECK_DEADLOCK FALSE
INVARIANTS StepDoneOnce
