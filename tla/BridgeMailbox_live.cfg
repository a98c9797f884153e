\* One job under fair polling.
SPECIFICATION FairSpec
CONSTANTS
    Bridges = {b1}
    Books = {x1}
    NJobs = 1
    Kinds = {"query", "write", "confirmed"}
    MaxBatch = 1
    LeasesPerTTL = 2
    None = None
CHECK_DEADLOCK FALSE
PROPERTIES JobsSettle
