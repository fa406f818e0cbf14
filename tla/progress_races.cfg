\* One student and one course, with assignments; two handlers at a time.
SPECIFICATION Spec
CONSTANTS
    c1 = c1
    c2 = c2
    NoChapter = NoChapter
    Requests = {r1, r2}
    ChapterIds = {c1, c2}
    Editions <- SomeEditions
    Keys <- SomeKeys
    MaxItems = 4
    MaxRows = 2
    MaxIssued = 2
    MaxRequests = 4
    Events = {"fail"}
SYMMETRY Symmetry
INVARIANTS
    CertificatesRight
    RowsUnique
    ViewsAgree
CHECK_DEADLOCK FALSE
