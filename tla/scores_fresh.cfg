\* Two students of one class, two handlers, two writes, failures, fair.  No
\* symmetry: it is not sound for the liveness property.
SPECIFICATION FairSpec
CONSTANTS
    Enrolled = {s1, s2}
    Handlers = {r1, r2}
    Scores = {1, 2}
    Null = Null
    MaxRows = 1
    MaxWrites = 2
    ScoreEvents = {"fail", "settings", "delete"}
INVARIANTS
    SummaryExplained
PROPERTIES
    EventuallyFresh
CHECK_DEADLOCK FALSE
