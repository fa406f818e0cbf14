\* One student, one course, three handlers of any kind.
SPECIFICATION Spec
CONSTANTS
    Students = {s1}
    Courses = {c1}
    Grades = {g1}
    Null = Null
    None = None
    Keep = Keep
    Requests = {r1, r2, r3}
    MaxRequests = 3
    Endpoints = {"create", "publish", "update", "access", "register", "import", "edit", "admin", "remove", "sync", "fail"}
SYMMETRY Symmetry
INVARIANTS
    NoMissedEnrollment
    EnrollmentsJustified
CHECK_DEADLOCK FALSE
