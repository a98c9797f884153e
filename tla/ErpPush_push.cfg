SPECIFICATION FairSpec
CONSTANTS
    None = None
    Docs = {d1}
    Logs = {1, 2}
    Requests = {r1, r2}
    Ticks = {r2}
    MaxRetries = 2
    MaxHands = 1
    MaxCrashes = 1
    DbErrors = TRUE
CHECK_DEADLOCK FALSE
INVARIANTS TypeOK ToldIsBooked FailedIsClean ConfirmedAlone
PROPERTIES UnknownKept RetriesEnd
