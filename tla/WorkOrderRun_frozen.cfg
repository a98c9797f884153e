\* An archived order is overwritten by a run that was already scheduled.
SPECIFICATION Spec
CONSTANTS
    Runs = {r1, r2}
    Procs = {p1, p2}
    Items = {i1}
    NoRun = NoRun
    NoProc = NoProc
    NSteps = 3
    SortStep = 1
    ClassifyStep = 1
    ReconcileStep = 2
    Needed = 1
    MaxDecisions = 1
    MaxFaults = 0
    AutoResumeLimit = 1
    DrainRounds = 1
    Cloud = FALSE
    HealthyHeartbeat = TRUE
    TaxIdTypo = FALSE
SYMMETRY Symmetry
CHECK_DEADLOCK FALSE
PROPERTIES ArchiveFrozen
