\* One job of any kind; its bridge may be demoted in favour of another.
SPECIFICATION Spec
CONSTANTS
    Bridges = {b1, b2}
    Books = {x1}
    NJobs = 1
    Kinds = {"query", "write", "confirmed"}
    MaxBatch = 1
    LeasesPerTTL = 2
    None = None
SYMMETRY Symmetry
CHECK_DEADLOCK FALSE
INVARIANTS TypeOK ConfirmedOnce OneWriter
PROPERTIES JobsAreDeliveries
