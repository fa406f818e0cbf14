\* Two teachers, two schools, two classes; two bookings and two edits at a time.
SPECIFICATION Spec
CONSTANTS
    Teachers = {t1, t2}
    Rooms = {m1}
    Periods = {p1}
    Days = {d1}
    Bookers = {b1, b2}
    None = None
    MaxClasses = 2
    MaxStarted = 3
    Schools = {s1, s2}
    Names = {n1}
    Editors = {e1, e2}
SYMMETRY Symmetry
INVARIANTS
    DoubleBookingsOverlapped
    OneTeacherPerSection
    TeachersWhole
PROPERTIES
    EditsKept
CHECK_DEADLOCK FALSE
