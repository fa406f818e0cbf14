\* One student, two handlers, three writes of the tables the scores come from.
SPECIFICATION ScoreSpec
CONSTANTS
    Enrolled = {s1}
    Handlers = {r1, r2}
    Scores = {1, 2}
    Null = Null
    MaxRows = 2
    MaxWrites = 3
    ScoreEvents = {"fail", "settings", "delete"}
SYMMETRY Symmetry
INVARIANTS
    ScoreTypeOK
    StoredExplained
    CacheExplained
CHECK_DEADLOCK FALSE
