\* Two days, two leaves, two periods, three handlers of any kind.
SPECIFICATION Spec
CONSTANTS
    LastDay = 2
    Periods = {p1, p2}
    LeaveId = {l1, l2}
    Requests = {r1, r2, r3}
    MaxRequests = 3
    Endpoints = {"apply", "admin", "patch", "report", "sweep", "timetable", "fail"}
SYMMETRY Symmetry
INVARIANTS
    LeaveDaysRight
    PresentDaysRight
    FiguresAgree
PROPERTIES
    PresentKept
CHECK_DEADLOCK FALSE
