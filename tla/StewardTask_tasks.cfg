\* One task, two runs; two messages that answer, two cards.
SPECIFICATION FairSpec
CONSTANTS
    None = None
    Tasks = {k1}
    Runs = {r1, r2}
    Tokens = {c1, c2}
    Answers = {a1, a2}
    Writes = {x1, x2}
    MaxAsks = 1
CHECK_DEADLOCK FALSE
INVARIANTS TypeOK OneThread WriteOnce
PROPERTIES TasksAreErrands RunningEnds
