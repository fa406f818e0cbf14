\* One course, three handlers, three requests with failures.
SPECIFICATION Spec
CONSTANTS
    c1 = c1
    c2 = c2
    t1 = t1
    s1 = s1
    s2 = s2
    g1 = g1
    g2 = g2
    Requests = {r1, r2, r3}
    ChapterIds = {c1, c2}
    Titles = {t1}
    Schools = {s1, s2}
    Grades = {g1, g2}
    Edits <- SomeEdits
    Rules <- PairedRules
    MaxRequests = 3
    Events = {"fail", "delete"}
SYMMETRY Symmetry
INVARIANTS
    VersionsNumbered
    EditsTakeEffect
    VersionsRecordEdits
CHECK_DEADLOCK FALSE
