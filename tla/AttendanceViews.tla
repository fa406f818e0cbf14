-------------------------- MODULE AttendanceViews --------------------------
(***************************************************************************)
(* What five endpoints say of the teacher's days: the teacher's own day    *)
(* and month (src/teacher/attendance), the administrator's day and month   *)
(* (src/admin/teacher-attendance) and the teacher's dashboard              *)
(* (src/teacher/dashboard).  Each works it out from the attendance rows,   *)
(* the leaves and the reports by rules of its own.                         *)
(*                                                                         *)
(* A monthly figure is the number of days of its kind, so a view is stated *)
(* here by the kinds it counts a day under.                                *)
(***************************************************************************)
EXTENDS LeavesAttendance

LeavesOn(d) == {l \in LeaveId : leave[l].status # "none" /\ d \in DaysOf(l)}

ApprovedOn(d) == \E l \in LeavesOn(d) : leave[l].status = "approved"

LeaveStatus(status) ==
    CASE status = "approved" -> "Leave-Approved"
      [] status = "rejected" -> "Leave-Rejected"
      [] status = "pending"  -> "Pending"

\* getToday(): the row; without one any leave of the day, decided or not, in no
\* order; without either what the reports say.  The code counts the classes of
\* the day against the periods reported; as a teacher has one class in a period
\* but for a double booking (Timetable), the classes are a set of periods here.
TeacherToday(d) ==
    IF mark[d] # "none" THEN {mark[d]}
    ELSE IF LeavesOn(d) # {} THEN {LeaveStatus(leave[l].status) : l \in LeavesOn(d)}
    ELSE IF timetable[d] # {} /\ timetable[d] \subseteq Reported(d) THEN {"Present"}
    ELSE {"Unreported"}

\* Faulty variant of AdminToday: the leave is looked at before the row.
AdminTodayLeaveFirst(d) ==
    IF ApprovedOn(d) \/ mark[d] = "Leave-Approved" THEN "On Leave"
    ELSE IF mark[d] = "Present" THEN "Present"
    ELSE "Not Marked"

\* list(): "Present from attendance overrides approved leave".
AdminToday(d) ==
    IF mark[d] = "Present" THEN "Present"
    ELSE IF ApprovedOn(d) \/ mark[d] = "Leave-Approved" THEN "On Leave"
    ELSE "Not Marked"

\* getMonthly() of the teacher: leave days but for those Present, and the rows
\* that are Unreported, leave or not.
TeacherMonth(d) ==
    (IF mark[d] = "Present" THEN {"present"}
     ELSE IF ApprovedOn(d) THEN {"leave"} ELSE {})
      \cup (IF mark[d] = "Unreported" THEN {"unreported"} ELSE {})

\* monthly() of the administrator takes the present and the leave days out of
\* the unreported ones.
AdminMonth(d) ==
    IF mark[d] = "Present" THEN {"present"}
    ELSE IF ApprovedOn(d) THEN {"leave"}
    ELSE IF mark[d] = "Unreported" THEN {"unreported"}
    ELSE {}

\* The teacher's dashboard divides the Present days by the days with a row.
DashboardMonth(d) ==
    IF mark[d] = "Present" THEN {"present"}
    ELSE IF mark[d] # "none" THEN {"other"}
    ELSE {}

\* What the administrator's word for the day is when the teacher reads status.
Said(status) ==
    CASE status = "Present"        -> "Present"
      [] status = "Leave-Approved" -> "On Leave"
      [] OTHER                     -> "Not Marked"

\* A handler still has to write the day, or one left it as LeaveDaysRight and
\* PresentDaysRight except.
Unsettled(d) ==
    \/ d \in unpresent
    \/ \E l \in LeaveId : \/ <<l, d>> \in unmarked
                          \/ l \in withdrawn /\ d \in DaysOf(l)
    \/ \E r \in Requests :
         \/ \E l \in LeaveId : WillMark(r, l, d)
         \/ req[r].at \in {"schedule", "count", "present"} /\ req[r].day = d
         \/ req[r].at = "reset" /\ d \in DaysOf(req[r].leave)

\* However leaves, reports, markMissing() and changes of the timetable overlap,
\* teacher and administrator read the same of every day that is settled, today
\* and in the figures of the month, and the dashboard counts the same days.
FiguresAgree ==
    \A d \in Days : Unsettled(d) \/
        /\ \A status \in TeacherToday(d) : AdminToday(d) = Said(status)
        /\ TeacherMonth(d) = AdminMonth(d)
        /\ (DashboardMonth(d) = {}) = (AdminMonth(d) = {})
        /\ ("present" \in DashboardMonth(d)) = ("present" \in AdminMonth(d))
=============================================================================
