-------------------------- MODULE LeavesAttendance --------------------------
(***************************************************************************)
(* Attendance of one teacher at one school, and the handlers that write    *)
(* it: teaching reports make a day Present when every scheduled period is  *)
(* reported (src/teacher/reports), an approved leave makes its days        *)
(* Leave-Approved (src/admin/leaves, and updateLeave() of                  *)
(* src/school-admin/extra), and markMissing() fills the days nobody wrote  *)
(* (src/admin/teacher-attendance).  The leaves service of the school admin *)
(* is left out: SchoolAdminModule lists SchoolAdminExtraController before  *)
(* its controller, which takes the same route.                             *)
(*                                                                         *)
(* Every query of a handler is a step of its own.  Days are numbers; a     *)
(* leave is a range of them.  The timetable is stated per day, not per     *)
(* weekday.  unmarked, withdrawn, unpresent and slots are history: no      *)
(* handler reads them.                                                     *)
(***************************************************************************)
EXTENDS Naturals, FiniteSets

CONSTANTS
    LastDay,        \* the days are 1..LastDay, all of them working days
    Periods,        \* the periods a timetable may have
    LeaveId,        \* identities of leave requests
    Requests,       \* request slots: how many handlers may run at once
    MaxRequests,    \* bound: handlers explored
    Endpoints       \* bound: which endpoints are explored

ASSUME LeavesOK ==
    /\ LastDay \in Nat \ {0}
    /\ MaxRequests \in Nat
    /\ Endpoints \subseteq {"apply", "admin", "patch", "report", "sweep",
                            "timetable", "fail"}

VARIABLES
    leave,      \* TeacherLeave rows: status and range
    mark,       \* Attendance.status of each day, "none" without a row
    reported,   \* TeacherReport rows, as pairs of day and period
    timetable,  \* the periods ClassSchedule has for each day
    req,        \* what each request slot is doing
    started,    \* bound: handlers so far
    unmarked,   \* history: days of a leave that lost their mark, or never got it
    withdrawn,  \* history: leaves whose approval ended and left days marked
    unpresent,  \* history: fully reported days that lost Present, or never got it
    slots       \* history: the timetables each day has had

vars == <<leave, mark, reported, timetable, req, started, unmarked, withdrawn,
          unpresent, slots>>

history == <<unmarked, withdrawn, unpresent, slots>>

Days == 1..LastDay

Leave == [status : {"none", "pending", "approved", "rejected"}, first : Days, last : Days]

Mark == {"none", "Present", "Leave-Approved", "Unreported"}

DaysOf(l) == leave[l].first..leave[l].last

Idle == [at |-> "idle"]

LeaveRequest ==
    [at : {"apply"}, first : Days, last : Days]
      \cup [at : {"decide"}, leave : LeaveId, by : {"admin", "patch"},
            status : {"pending", "approved", "rejected"}]
      \cup [at : {"read", "updateMany", "createMany", "reset"}, leave : LeaveId,
            days : SUBSET Days]
      \cup [at : {"find", "upsert"}, leave : LeaveId, day : Days]

ReportRequest ==
    [at : {"insert", "schedule", "count", "present"}, day : Days, period : Periods,
     scheduled : SUBSET Periods]

Request == {Idle} \cup LeaveRequest \cup ReportRequest
             \cup [at : {"sweep"}, days : SUBSET Days]

\* Leaves that are there already are pending; all days have one timetable.
Init ==
    /\ leave \in [LeaveId -> [status : {"none"}, first : {1}, last : {1}]
                              \cup {l \in [status : {"pending"}, first : Days, last : Days] :
                                      l.first <= l.last}]
    /\ mark = [d \in Days |-> "none"]
    /\ reported = {}
    /\ timetable \in {[d \in Days |-> periods] : periods \in SUBSET Periods}
    /\ req = [r \in Requests |-> Idle]
    /\ started = 0
    /\ unmarked = {}
    /\ withdrawn = {}
    /\ unpresent = {}
    /\ slots = [d \in Days |-> {timetable[d]}]

Starts(r, endpoint) ==
    /\ endpoint \in Endpoints
    /\ req[r] = Idle
    /\ started < MaxRequests
    /\ started' = started + 1

\* Request r, for leave l, is still going to mark day d.
WillMark(r, l, d) ==
    /\ req[r].at \in {"read", "updateMany", "createMany", "find", "upsert"}
    /\ req[r].leave = l
    /\ d \in DaysOf(l)
    /\ CASE req[r].at \in {"updateMany", "createMany"} -> d \in req[r].days
         [] req[r].at \in {"find", "upsert"} -> d >= req[r].day
         [] OTHER -> TRUE

Marking(l) == \E r \in Requests, d \in Days : WillMark(r, l, d)

-----------------------------------------------------------------------------
\* Leaves.

Overlaps(l, first, last) ==
    /\ leave[l].status \in {"pending", "approved"}
    /\ leave[l].first <= last
    /\ leave[l].last >= first

\* TeacherLeavesService.create(): no pending or approved leave overlaps.
ApplyFind(r, first, last) ==
    /\ Starts(r, "apply")
    /\ first <= last
    /\ \A l \in LeaveId : ~Overlaps(l, first, last)
    /\ req' = [req EXCEPT ![r] = [at |-> "apply", first |-> first, last |-> last]]
    /\ UNCHANGED <<leave, mark, reported, timetable, history>>

ApplyCreate(r) ==
    /\ req[r].at = "apply"
    /\ \E l \in LeaveId :
         /\ leave[l].status = "none"
         /\ leave' = [leave EXCEPT ![l] = [status |-> "pending", first |-> req[r].first,
                                           last |-> req[r].last]]
    /\ req' = [req EXCEPT ![r] = Idle]
    /\ UNCHANGED <<mark, reported, timetable, started, history>>

\* The endpoints that decide a leave read it first, and neither refuses one
\* that is decided already; PATCH without a status keeps the one it read.
DecideRead(r, l, by, status) ==
    /\ Starts(r, by)
    /\ leave[l].status # "none"
    /\ status = "pending" => by = "patch"
    /\ req' = [req EXCEPT ![r] = [at |-> "decide", leave |-> l, by |-> by,
                                  status |-> status]]
    /\ UNCHANGED <<leave, mark, reported, timetable, history>>

\* What follows the update of the leave.
Decided(l, by, status) ==
    CASE status = "approved" /\ by = "patch" -> [at |-> "find", leave |-> l,
                                                 day |-> leave[l].first]
      [] status = "approved" /\ by = "admin" -> [at |-> "read", leave |-> l, days |-> {}]
      [] status = "rejected" /\ by = "admin" -> [at |-> "reset", leave |-> l, days |-> {}]
      [] OTHER -> Idle

\* The status is written whatever it is by now; the days of an approval that
\* ends here keep their marks, but for a rejection by the admin.
DecideWrite(r) ==
    LET l == req[r].leave
        status == req[r].status
        next == Decided(l, req[r].by, status)
    IN
    /\ req[r].at = "decide"
    /\ leave' = [leave EXCEPT ![l].status = status]
    /\ req' = [req EXCEPT ![r] = next]
    /\ unmarked' = unmarked \ (IF status = "approved" THEN {l} \X Days ELSE {})
    /\ withdrawn' = IF leave[l].status = "approved" /\ next = Idle
                    THEN withdrawn \cup {l} ELSE withdrawn
    /\ UNCHANGED <<mark, reported, timetable, started, unpresent, slots>>

\* Faulty variant of LeaveRead: days with a row of any status are left out.
LeaveReadMissing(r) ==
    LET days == {d \in DaysOf(req[r].leave) : mark[d] = "none"} IN
    /\ req[r].at = "read"
    /\ req' = [req EXCEPT ![r] = IF days = {} THEN Idle
                                 ELSE [@ EXCEPT !.at = "updateMany", !.days = days]]
    /\ UNCHANGED <<leave, mark, reported, timetable, started, history>>

\* attendance.findMany(): the days that are Present are left out.
LeaveRead(r) ==
    LET days == {d \in DaysOf(req[r].leave) : mark[d] # "Present"} IN
    /\ req[r].at = "read"
    /\ req' = [req EXCEPT ![r] = IF days = {} THEN Idle
                                 ELSE [@ EXCEPT !.at = "updateMany", !.days = days]]
    /\ UNCHANGED <<leave, mark, reported, timetable, started, history>>

\* Faulty variant of LeaveUpdate: the rows are taken to be as they were read.
LeaveUpdateUnguarded(r) ==
    /\ req[r].at = "updateMany"
    /\ mark' = [d \in Days |-> IF d \in req[r].days /\ mark[d] # "none"
                               THEN "Leave-Approved" ELSE mark[d]]
    /\ req' = [req EXCEPT ![r].at = "createMany"]
    /\ UNCHANGED <<leave, reported, timetable, started, history>>

\* attendance.updateMany(): the rows there are, unless they are Present by now.
LeaveUpdate(r) ==
    /\ req[r].at = "updateMany"
    /\ mark' = [d \in Days |-> IF d \in req[r].days /\ mark[d] \notin {"none", "Present"}
                               THEN "Leave-Approved" ELSE mark[d]]
    /\ req' = [req EXCEPT ![r].at = "createMany"]
    /\ UNCHANGED <<leave, reported, timetable, started, history>>

\* attendance.createMany() with skipDuplicates: the rows that are missing.
LeaveCreate(r) ==
    /\ req[r].at = "createMany"
    /\ mark' = [d \in Days |-> IF d \in req[r].days /\ mark[d] = "none"
                               THEN "Leave-Approved" ELSE mark[d]]
    /\ req' = [req EXCEPT ![r] = Idle]
    /\ UNCHANGED <<leave, reported, timetable, started, history>>

\* A rejection by the admin takes the mark from every day of the range; days
\* of another approved leave lose theirs too.
LeaveReset(r) ==
    LET l == req[r].leave
        days == {d \in DaysOf(l) : mark[d] = "Leave-Approved"}
    IN
    /\ req[r].at = "reset"
    /\ mark' = [d \in Days |-> IF d \in days THEN "Unreported" ELSE mark[d]]
    /\ req' = [req EXCEPT ![r] = Idle]
    /\ unmarked' = unmarked \cup {k \in LeaveId \X days : leave[k[1]].status = "approved"}
    /\ withdrawn' = IF Marking(l) THEN withdrawn \cup {l} ELSE withdrawn \ {l}
    /\ UNCHANGED <<leave, reported, timetable, started, unpresent, slots>>

\* PATCH leaves/:id works day by day.
NextDay(request) ==
    IF request.day = leave[request.leave].last THEN Idle
    ELSE [request EXCEPT !.at = "find", !.day = @ + 1]

PatchFind(r) ==
    /\ req[r].at = "find"
    /\ req' = [req EXCEPT ![r] = IF mark[req[r].day] = "Present" THEN NextDay(@)
                                 ELSE [@ EXCEPT !.at = "upsert"]]
    /\ UNCHANGED <<leave, mark, reported, timetable, started, history>>

\* attendance.upsert(): it does not look at the status again.
PatchUpsert(r) ==
    LET d == req[r].day IN
    /\ req[r].at = "upsert"
    /\ mark' = [mark EXCEPT ![d] = "Leave-Approved"]
    /\ req' = [req EXCEPT ![r] = NextDay(@)]
    /\ unpresent' = IF mark[d] = "Present" THEN unpresent \cup {d} ELSE unpresent
    /\ UNCHANGED <<leave, reported, timetable, started, unmarked, withdrawn, slots>>

-----------------------------------------------------------------------------
\* Reports.

\* TeacherReportsService.create(): a report of the period on that day is refused.
ReportFind(r, d, p) ==
    /\ Starts(r, "report")
    /\ <<d, p>> \notin reported
    /\ req' = [req EXCEPT ![r] = [at |-> "insert", day |-> d, period |-> p,
                                  scheduled |-> {}]]
    /\ UNCHANGED <<leave, mark, reported, timetable, history>>

\* The unique key refuses a second one, and the handler ends there.
ReportInsert(r) ==
    LET report == <<req[r].day, req[r].period>> IN
    /\ req[r].at = "insert"
    /\ req' = [req EXCEPT ![r] = IF report \in reported THEN Idle
                                 ELSE [@ EXCEPT !.at = "schedule"]]
    /\ reported' = reported \cup {report}
    /\ UNCHANGED <<leave, mark, timetable, started, history>>

Reported(d) == {p \in Periods : <<d, p>> \in reported}

ReportSchedule(r) ==
    LET scheduled == timetable[req[r].day] IN
    /\ req[r].at = "schedule"
    /\ req' = [req EXCEPT ![r].at = IF scheduled = {} THEN "present" ELSE "count",
                          ![r].scheduled = scheduled]
    /\ UNCHANGED <<leave, mark, reported, timetable, started, history>>

\* As many reports of scheduled periods as there are scheduled periods: one of
\* each, by the unique key.
ReportCount(r) ==
    /\ req[r].at = "count"
    /\ req' = [req EXCEPT ![r] = IF req[r].scheduled \subseteq Reported(req[r].day)
                                 THEN [@ EXCEPT !.at = "present"] ELSE Idle]
    /\ UNCHANGED <<leave, mark, reported, timetable, started, history>>

\* Faulty variant of ReportPresent: a row that is there already is kept.
ReportPresentCreate(r) ==
    /\ req[r].at = "present"
    /\ mark' = [mark EXCEPT ![req[r].day] = IF @ = "none" THEN "Present" ELSE @]
    /\ req' = [req EXCEPT ![r] = Idle]
    /\ unpresent' = unpresent \ {req[r].day}
    /\ UNCHANGED <<leave, reported, timetable, started, unmarked, withdrawn, slots>>

\* attendance.upsert(): Present, whatever the row says.
ReportPresent(r) ==
    /\ req[r].at = "present"
    /\ mark' = [mark EXCEPT ![req[r].day] = "Present"]
    /\ req' = [req EXCEPT ![r] = Idle]
    /\ unpresent' = unpresent \ {req[r].day}
    /\ UNCHANGED <<leave, reported, timetable, started, unmarked, withdrawn, slots>>

\* Every scheduled period of the day is reported.
Covered(table, d) == Reported(d) # {} /\ table[d] \subseteq Reported(d)

\* The class-schedule endpoints change the periods of a day.
SetTimetable(r, d, periods) ==
    /\ Starts(r, "timetable")
    /\ timetable' = [timetable EXCEPT ![d] = periods]
    /\ slots' = [slots EXCEPT ![d] = @ \cup {periods}]
    /\ unpresent' = IF Covered(timetable', d) /\ ~Covered(timetable, d)
                    THEN unpresent \cup {d} ELSE unpresent
    /\ UNCHANGED <<leave, mark, reported, req, unmarked, withdrawn>>

-----------------------------------------------------------------------------
\* markMissing(): the days without a row are read once, then created in turn.
SweepRead(r) ==
    LET days == {d \in Days : mark[d] = "none"} IN
    /\ Starts(r, "sweep")
    /\ days # {}
    /\ req' = [req EXCEPT ![r] = [at |-> "sweep", days |-> days]]
    /\ UNCHANGED <<leave, mark, reported, timetable, history>>

\* The unique key refuses a row that is there by now, and the handler ends
\* there.  A row created here between the two writes of an approval is neither
\* updated nor created by it.
SweepCreate(r) ==
    LET d == CHOOSE x \in req[r].days : \A y \in req[r].days : x <= y
        rest == req[r].days \ {d}
        between == {q \in Requests : req[q].at = "createMany" /\ d \in req[q].days}
    IN
    /\ req[r].at = "sweep"
    /\ mark' = [mark EXCEPT ![d] = IF @ = "none" THEN "Unreported" ELSE @]
    /\ req' = [req EXCEPT ![r] = IF mark[d] # "none" \/ rest = {} THEN Idle
                                 ELSE [@ EXCEPT !.days = rest]]
    /\ unmarked' = IF mark[d] = "none"
                   THEN unmarked \cup {<<req[q].leave, d>> : q \in between} ELSE unmarked
    /\ UNCHANGED <<leave, reported, timetable, started, withdrawn, unpresent, slots>>

-----------------------------------------------------------------------------
\* The next database call of a handler rejects, or the process stops.
Fail(r) ==
    /\ "fail" \in Endpoints
    /\ req[r] # Idle
    /\ req' = [req EXCEPT ![r] = Idle]
    /\ unmarked' = unmarked \cup {k \in LeaveId \X Days : WillMark(r, k[1], k[2])}
    /\ withdrawn' = IF req[r].at = "reset" THEN withdrawn \cup {req[r].leave} ELSE withdrawn
    /\ unpresent' = IF req[r].at \in {"schedule", "count", "present"}
                    THEN unpresent \cup {req[r].day} ELSE unpresent
    /\ UNCHANGED <<leave, mark, reported, timetable, started, slots>>

LeaveStep(r) ==
    \/ \E first, last \in Days : ApplyFind(r, first, last)
    \/ ApplyCreate(r)
    \/ \E l \in LeaveId, by \in {"admin", "patch"},
          status \in {"pending", "approved", "rejected"} : DecideRead(r, l, by, status)
    \/ DecideWrite(r)
    \/ LeaveRead(r)
    \/ LeaveUpdate(r)
    \/ LeaveCreate(r)
    \/ LeaveReset(r)
    \/ PatchFind(r)
    \/ PatchUpsert(r)

ReportStep(r) ==
    \/ \E d \in Days, p \in Periods : ReportFind(r, d, p)
    \/ ReportInsert(r)
    \/ ReportSchedule(r)
    \/ ReportCount(r)
    \/ ReportPresent(r)
    \/ \E d \in Days, periods \in SUBSET Periods : SetTimetable(r, d, periods)

Next == \E r \in Requests :
          LeaveStep(r) \/ ReportStep(r) \/ SweepRead(r) \/ SweepCreate(r) \/ Fail(r)

Spec == Init /\ [][Next]_vars

-----------------------------------------------------------------------------
\* The rows, the requests in flight and the history have their types.
TypeOK ==
    /\ leave \in [LeaveId -> Leave]
    /\ mark \in [Days -> Mark]
    /\ reported \subseteq Days \X Periods
    /\ timetable \in [Days -> SUBSET Periods]
    /\ req \in [Requests -> Request]
    /\ started \in 0..MaxRequests
    /\ unmarked \subseteq LeaveId \X Days
    /\ withdrawn \subseteq LeaveId
    /\ unpresent \subseteq Days
    /\ slots \in [Days -> SUBSET SUBSET Periods]

\* Every day of an approved leave is marked, Present, or about to be marked,
\* unless markMissing slipped in between the writes of the approval, a rejection
\* of a leave on the same day took the mark, or the approval failed
\* (admin/leaves.service.ts:116-205 against teacher-attendance.service.ts:345-385).
ApprovedDaysMarked ==
    \A l \in LeaveId : leave[l].status = "approved" =>
        \A d \in DaysOf(l) : \/ mark[d] \in {"Leave-Approved", "Present"}
                             \/ <<l, d>> \in unmarked
                             \/ \E r \in Requests : WillMark(r, l, d)

\* A day is Leave-Approved for a leave that is approved, or was: its days are
\* about to be reset, or the handler that ended the approval leaves them marked
\* or overlapped the one that marked them.
LeaveDaysBacked ==
    \A d \in Days : mark[d] = "Leave-Approved" =>
        \E l \in LeaveId : /\ d \in DaysOf(l)
                           /\ \/ leave[l].status = "approved"
                              \/ l \in withdrawn
                              \/ \E r \in Requests : req[r].at = "reset" /\ req[r].leave = l

\* However reports of a day overlap, the day is Present, or about to be, once
\* all its periods are reported, unless the timetable shrank to what was
\* reported, a handler failed or PATCH leaves/:id overwrote the day
\* (teacher/reports.service.ts:136-175).
ReportedDaysPresent ==
    \A d \in Days : Covered(timetable, d) =>
        \/ mark[d] = "Present"
        \/ d \in unpresent
        \/ \E r \in Requests :
             /\ req[r].at \in {"schedule", "count", "present"}
             /\ req[r].day = d
             /\ req[r].at = "count" => req[r].scheduled \subseteq Reported(d)

\* A day is Present only when all periods it had in some timetable are reported
\* (teacher/reports.service.ts:136).
PresentEarned ==
    \A d \in Days : mark[d] = "Present" =>
        Reported(d) # {} /\ \E periods \in slots[d] : periods \subseteq Reported(d)

\* Present is final: no handler but PATCH leaves/:id, after a read of the day
\* that a report has overtaken, takes it away.
PresentKept ==
    [][\A d \in Days : mark[d] = "Present" /\ mark'[d] # "Present" =>
         \E r \in Requests : req[r].at = "upsert" /\ req[r].day = d]_vars

\* The days marked Leave-Approved are those of the approved leaves, in both
\* directions, whatever approvals, rejections and markMissing overlap.
LeaveDaysRight == ApprovedDaysMarked /\ LeaveDaysBacked

\* The days marked Present are those whose periods are all reported, in both
\* directions, however reports and changes of the timetable overlap.
PresentDaysRight == ReportedDaysPresent /\ PresentEarned
=============================================================================
