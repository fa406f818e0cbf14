----------------------- MODULE LeavesAttendance_proofs -----------------------
(***************************************************************************)
(* The properties of LeavesAttendance and of the views on it, proved for   *)
(* any number of days, periods, leaves and handlers.                       *)
(*                                                                         *)
(* Firm is WillMark made inductive: an approval between its two writes is  *)
(* still to mark only a day that has no row.  Backed is what makes a leave *)
(* account for its marks, and every handler that is to mark a day works    *)
(* for a leave that is backed.  Earned is what makes a day Present, and a  *)
(* report past its count has earned it.                                    *)
(*                                                                         *)
(* The predicates are about one request q or one day, and the rows given   *)
(* to them.                                                                *)
(***************************************************************************)
EXTENDS AttendanceViews, TLAPS

AtMarks == {"read", "updateMany", "createMany", "find", "upsert"}
AtReports == {"schedule", "count", "present"}
AtDays == {"updateMany", "createMany"}
AtDay == {"find", "upsert"}

\* Day d is one of the days of leave row.
On(row, d) == row.first <= d /\ d <= row.last

\* What a request remembers of a leave is so of the leaves.
Knows(q, leaves) ==
    /\ q.at = "apply" => q.first <= q.last
    /\ q.at \in AtMarks \cup {"decide", "reset"} => leaves[q.leave].status # "none"
    /\ q.at \in AtDays => q.days # {} /\ \A d \in q.days : On(leaves[q.leave], d)
    /\ q.at \in AtDay => On(leaves[q.leave], q.day)

Typed ==
    /\ TypeOK
    /\ \A l \in LeaveId : leave[l].first <= leave[l].last
    /\ \A l \in withdrawn : leave[l].status # "none"
    /\ \A r \in Requests : Knows(req[r], leave)

\* Request q is going to mark day d for leave l, and it will: m is the mark so far.
Firm(q, l, d, m) ==
    /\ q.at \in AtMarks /\ q.leave = l
    /\ q.at \in AtDays => d \in q.days
    /\ q.at \in AtDay => d >= q.day
    /\ q.at = "createMany" => m = "none"

MarkedDay(l, d) ==
    \/ mark[d] \in {"Leave-Approved", "Present"} \/ <<l, d>> \in unmarked
    \/ \E r \in Requests : Firm(req[r], l, d, mark[d])

Marked ==
    \A l \in LeaveId, d \in Days :
        leave[l].status = "approved" /\ On(leave[l], d) => MarkedDay(l, d)

Resets(q, l) == q.at = "reset" /\ q.leave = l

Backed(l, leaves, gone, reqs) ==
    leaves[l].status = "approved" \/ l \in gone \/ \E r \in Requests : Resets(reqs[r], l)

MarksBacked ==
    /\ \A d \in Days : mark[d] = "Leave-Approved" =>
         \E l \in LeaveId : On(leave[l], d) /\ Backed(l, leave, withdrawn, req)
    /\ \A r \in Requests : req[r].at \in AtMarks => Backed(req[r].leave, leave, withdrawn, req)

\* Request q is going to make day d Present: rows is what is reported.
Presents(q, d, rows) ==
    /\ q.at \in AtReports /\ q.day = d
    /\ q.at = "count" => \A p \in q.scheduled : <<d, p>> \in rows

CoveredDay(periods, d, rows) ==
    (\E p \in Periods : <<d, p>> \in rows) /\ \A p \in periods : <<d, p>> \in rows

PresentDay(d) ==
    mark[d] = "Present" \/ d \in unpresent \/ \E r \in Requests : Presents(req[r], d, reported)

Presented ==
    \A d \in Days : CoveredDay(timetable[d], d, reported) => PresentDay(d)

Earned(d, tables, rows) == \E periods \in tables : CoveredDay(periods, d, rows)

\* What a report has found out is so.
Reports(q, tables, rows) ==
    /\ q.at \in AtReports => <<q.day, q.period>> \in rows
    /\ q.at = "count" => q.scheduled \in tables[q.day]
    /\ q.at = "present" => Earned(q.day, tables[q.day], rows)

PresentsEarned ==
    /\ \A d \in Days : timetable[d] \in slots[d]
    /\ \A d \in Days : mark[d] = "Present" => Earned(d, slots[d], reported)
    /\ \A r \in Requests : Reports(req[r], slots, reported)

Inv == Typed /\ Marked /\ MarksBacked /\ Presented /\ PresentsEarned
-----------------------------------------------------------------------------
\* What a request slot holds follows from how far its handler is.
LEMMA RequestAt ==
  ASSUME NEW q \in Request
  PROVE  /\ q.at = "apply" => q.first \in Days /\ q.last \in Days
         /\ q.at = "decide" => /\ q.leave \in LeaveId /\ q.by \in {"admin", "patch"}
                               /\ q.status \in {"pending", "approved", "rejected"}
         /\ q.at \in {"read", "updateMany", "createMany", "reset"} =>
              /\ q \in [at : {"read", "updateMany", "createMany", "reset"}, leave : LeaveId,
                        days : SUBSET Days]
              /\ q.leave \in LeaveId /\ q.days \subseteq Days
         /\ q.at \in AtDay => /\ q \in [at : AtDay, leave : LeaveId, day : Days]
                              /\ q.leave \in LeaveId /\ q.day \in Days
         /\ q.at \in AtReports \cup {"insert"} =>
              q \in ReportRequest /\ q.day \in Days /\ q.period \in Periods
         /\ q.at = "sweep" => q \in [at : {"sweep"}, days : SUBSET Days]
         /\ q.at \in AtMarks \cup {"reset"} => q.leave \in LeaveId
BY DEF Request, LeaveRequest, ReportRequest, Idle, AtDay, AtReports, AtMarks

LEMMA IdleQuiet == Idle \in Request /\ Idle.at = "idle" /\ \A leaves : Knows(Idle, leaves)
BY DEF Idle, Request, Knows, AtMarks, AtDays, AtDay

\* A request outside the writes of approvals and reports has nothing to do there.
LEMMA Quiet ==
  ASSUME NEW q
  PROVE  /\ q.at \notin AtMarks => \A l, d, m : ~Firm(q, l, d, m)
         /\ q.at \notin AtReports => \A d, rows : ~Presents(q, d, rows)
         /\ q.at \notin AtReports => \A tables, rows : Reports(q, tables, rows)
         /\ q.at # "reset" => \A l : ~Resets(q, l)
BY DEF Firm, Presents, Reports, Resets, AtMarks, AtReports

LEMMA Fresh ==
  ASSUME Inv, NEW r \in Requests, NEW endpoint, Starts(r, endpoint)
  PROVE  /\ req[r].at = "idle" /\ started' \in 0..MaxRequests
         /\ \A mine : req' = [req EXCEPT ![r] = mine] =>
              req'[r] = mine /\ \A q \in Requests \ {r} : req'[q] = req[q]
BY LeavesOK DEF Starts, Idle, Inv, Typed, TypeOK

-----------------------------------------------------------------------------
\* What is left to show of a handler of request r that changes no leave, no
\* report and no timetable.
LEMMA Action ==
  ASSUME Inv, NEW r \in Requests, NEW mine \in Request, req' = [req EXCEPT ![r] = mine],
         UNCHANGED <<leave, reported, timetable, slots>>,
         mark' \in [Days -> Mark], started' \in 0..MaxRequests,
         unmarked \subseteq unmarked', unmarked' \subseteq LeaveId \X Days,
         withdrawn' \subseteq LeaveId, \A l \in withdrawn' : leave[l].status # "none",
         unpresent' \subseteq Days,
         Knows(mine, leave), Reports(mine, slots, reported),
         \A l \in LeaveId, d \in Days : leave[l].status = "approved" /\ On(leave[l], d) =>
            \/ mark'[d] \in {"Leave-Approved", "Present"} \/ <<l, d>> \in unmarked'
            \/ Firm(mine, l, d, mark'[d])
            \/ /\ mark[d] \notin {"Leave-Approved", "Present"}
               /\ ~Firm(req[r], l, d, mark[d])
               /\ \A q \in Requests : Firm(req[q], l, d, mark[d]) => Firm(req[q], l, d, mark'[d]),
         \A d \in Days : mark'[d] = "Leave-Approved" =>
            mark[d] = "Leave-Approved" \/ (req[r].at \in AtMarks /\ On(leave[req[r].leave], d)),
         mine.at \in AtMarks => req[r].at \in AtMarks /\ mine.leave = req[r].leave,
         \A l \in LeaveId : l \in withdrawn \/ Resets(req[r], l) =>
            \/ l \in withdrawn' \/ Resets(mine, l)
            \/ /\ \A d \in Days : On(leave[l], d) => mark'[d] # "Leave-Approved"
               /\ \A q \in Requests : req'[q].at \in AtMarks => req'[q].leave # l,
         \A d \in Days :
            /\ mark[d] = "Present" \/ d \in unpresent \/ Presents(req[r], d, reported)
            /\ CoveredDay(timetable[d], d, reported)
            => mark'[d] = "Present" \/ d \in unpresent' \/ Presents(mine, d, reported),
         \A d \in Days : mark'[d] = "Present" =>
            mark[d] = "Present" \/ (req[r].at = "present" /\ req[r].day = d)
  PROVE  Inv'
<1>1. /\ req \in [Requests -> Request] /\ req' \in [Requests -> Request] /\ req'[r] = mine
      /\ \A q \in Requests \ {r} : req'[q] = req[q]
  BY DEF Inv, Typed, TypeOK
<1>2. Typed'
  <2>1. TypeOK'
    BY <1>1 DEF Inv, Typed, TypeOK
  <2>2. \A q \in Requests : Knows(req'[q], leave)
    BY <1>1 DEF Inv, Typed
  <2> QED BY <2>1, <2>2 DEF Inv, Typed, Knows, On
<1>3. Marked'
  <2> SUFFICES ASSUME NEW l \in LeaveId, NEW d \in Days,
                      leave[l].status = "approved" /\ On(leave[l], d)
               PROVE  \/ mark'[d] \in {"Leave-Approved", "Present"} \/ <<l, d>> \in unmarked'
                      \/ \E q \in Requests : Firm(req'[q], l, d, mark'[d])
    BY DEF Marked, MarkedDay, On
  <2>1. CASE Firm(mine, l, d, mark'[d])
    BY <1>1, <2>1
  <2>2. CASE /\ mark[d] \notin {"Leave-Approved", "Present"}
             /\ ~Firm(req[r], l, d, mark[d])
             /\ \A q \in Requests : Firm(req[q], l, d, mark[d]) => Firm(req[q], l, d, mark'[d])
    <3>1. <<l, d>> \in unmarked \/ \E q \in Requests : Firm(req[q], l, d, mark[d])
      BY <2>2 DEF Inv, Marked, MarkedDay
    <3> QED BY <1>1, <2>2, <3>1
  <2> QED BY <2>1, <2>2
<1>4. MarksBacked'
  <2>1. \A l \in LeaveId : Backed(l, leave, withdrawn, req) =>
          \/ Backed(l, leave, withdrawn', req')
          \/ /\ \A d \in Days : On(leave[l], d) => mark'[d] # "Leave-Approved"
             /\ \A q \in Requests : req'[q].at \in AtMarks => req'[q].leave # l
    BY <1>1 DEF Backed, Resets
  <2>2. \A q \in Requests : req[q].at \in AtMarks => req[q].leave \in LeaveId
    BY <1>1, RequestAt
  <2>3. \A q \in Requests : req'[q].at \in AtMarks =>
          req[q].at \in AtMarks /\ req'[q].leave = req[q].leave
    BY <1>1
  <2>4. \A q \in Requests : req'[q].at \in AtMarks => Backed(req'[q].leave, leave, withdrawn', req')
    BY <2>1, <2>2, <2>3 DEF Inv, MarksBacked
  <2>5. ASSUME NEW d \in Days, mark'[d] = "Leave-Approved"
        PROVE  \E l \in LeaveId : On(leave[l], d) /\ Backed(l, leave, withdrawn', req')
    <3>1. \E l \in LeaveId : On(leave[l], d) /\ Backed(l, leave, withdrawn, req)
      <4>1. mark[d] = "Leave-Approved" \/ (req[r].at \in AtMarks /\ On(leave[req[r].leave], d))
        BY <2>5
      <4> QED BY <2>2, <4>1 DEF Inv, MarksBacked
    <3> QED BY <2>1, <2>5, <3>1
  <2>8. leave' = leave
    OBVIOUS
  <2>6. \A q \in Requests : req'[q].at \in AtMarks => Backed(req'[q].leave, leave', withdrawn', req')
    BY ONLY <2>4, <2>8
  <2>7. \A d \in Days : mark'[d] = "Leave-Approved" =>
          \E l \in LeaveId : On(leave'[l], d) /\ Backed(l, leave', withdrawn', req')
    BY ONLY <2>5, <2>8
  <2> QED BY ONLY <2>6, <2>7 DEF MarksBacked, Days
<1>5. Presented'
  <2> SUFFICES ASSUME NEW d \in Days, CoveredDay(timetable[d], d, reported)
               PROVE  \/ mark'[d] = "Present" \/ d \in unpresent'
                      \/ \E q \in Requests : Presents(req'[q], d, reported)
    BY DEF Presented, PresentDay, CoveredDay, Presents
  <2>1. mark[d] = "Present" \/ d \in unpresent \/ \E q \in Requests : Presents(req[q], d, reported)
    BY DEF Inv, Presented, PresentDay
  <2> QED BY <1>1, <2>1
<1>6. PresentsEarned'
  <2>1. \A q \in Requests : Reports(req'[q], slots, reported)
    BY <1>1 DEF Inv, PresentsEarned
  <2>4. req[r].at = "present" => Earned(req[r].day, slots[req[r].day], reported)
    BY DEF Inv, PresentsEarned, Reports
  <2>2. \A d \in Days : mark'[d] = "Present" => Earned(d, slots[d], reported)
    BY <2>4 DEF Inv, PresentsEarned
  <2>3. \A d \in Days : timetable[d] \in slots[d]
    BY DEF Inv, PresentsEarned
  <2>5. reported' = reported /\ timetable' = timetable /\ slots' = slots
    OBVIOUS
  <2> QED BY <2>1, <2>2, <2>3, <2>5 DEF PresentsEarned
<1> QED BY <1>2, <1>3, <1>4, <1>5, <1>6 DEF Inv

\* A handler that only reads.
LEMMA ReadAction ==
  ASSUME Inv, NEW r \in Requests, NEW mine \in Request, req' = [req EXCEPT ![r] = mine],
         UNCHANGED <<leave, mark, reported, timetable, history>>,
         started' \in 0..MaxRequests,
         Knows(mine, leave), Reports(mine, slots, reported), req[r].at # "reset",
         \A l \in LeaveId, d \in Days : On(leave[l], d) /\ Firm(req[r], l, d, mark[d]) =>
            mark[d] \in {"Leave-Approved", "Present"} \/ Firm(mine, l, d, mark[d]),
         mine.at \in AtMarks => req[r].at \in AtMarks /\ mine.leave = req[r].leave,
         \A d \in Days : CoveredDay(timetable[d], d, reported) /\ Presents(req[r], d, reported) =>
            Presents(mine, d, reported)
  PROVE  Inv'
<1>1. UNCHANGED <<leave, reported, timetable, slots>> /\ mark' = mark
      /\ unmarked' = unmarked /\ withdrawn' = withdrawn /\ unpresent' = unpresent
  BY DEF history
<1>2. /\ mark' \in [Days -> Mark] /\ unmarked' \subseteq LeaveId \X Days
      /\ withdrawn' \subseteq LeaveId /\ unpresent' \subseteq Days
      /\ \A l \in withdrawn' : leave[l].status # "none"
  BY <1>1 DEF Inv, Typed, TypeOK
<1>3. \A l \in LeaveId, d \in Days : leave[l].status = "approved" /\ On(leave[l], d) =>
        \/ mark'[d] \in {"Leave-Approved", "Present"} \/ <<l, d>> \in unmarked'
        \/ Firm(mine, l, d, mark'[d])
        \/ /\ mark[d] \notin {"Leave-Approved", "Present"}
           /\ ~Firm(req[r], l, d, mark[d])
           /\ \A q \in Requests : Firm(req[q], l, d, mark[d]) => Firm(req[q], l, d, mark'[d])
  BY <1>1
<1>4. \A l : ~Resets(req[r], l)
  BY Quiet
<1>5. \A d \in Days :
        /\ mark[d] = "Present" \/ d \in unpresent \/ Presents(req[r], d, reported)
        /\ CoveredDay(timetable[d], d, reported)
        => mark'[d] = "Present" \/ d \in unpresent' \/ Presents(mine, d, reported)
  BY <1>1
<1> QED BY <1>1, <1>2, <1>3, <1>4, <1>5, Action

-----------------------------------------------------------------------------
\* The handlers of leaves.
LEMMA ApplyFindStep ==
  ASSUME Inv, NEW r \in Requests, NEW first \in Days, NEW last \in Days,
         ApplyFind(r, first, last)
  PROVE  Inv'
<1> DEFINE mine == [at |-> "apply", first |-> first, last |-> last]
<1>1. /\ req' = [req EXCEPT ![r] = mine] /\ first <= last
      /\ UNCHANGED <<leave, mark, reported, timetable, history>>
  BY DEF ApplyFind
<1>2. req[r].at = "idle" /\ started' \in 0..MaxRequests
  BY Fresh DEF ApplyFind
<1>3. mine \in Request /\ Knows(mine, leave)
  BY <1>1 DEF Request, LeaveRequest, Knows, AtMarks, AtDays, AtDay
<1>4. mine.at \notin AtMarks \cup AtReports /\ req[r].at \notin AtMarks \cup AtReports
  BY <1>2 DEF AtMarks, AtReports
<1> HIDE DEF mine
<1> QED BY <1>1, <1>2, <1>3, <1>4, Quiet, ReadAction

LEMMA DecideReadStep ==
  ASSUME Inv, NEW r \in Requests, NEW l \in LeaveId, NEW by \in {"admin", "patch"},
         NEW status \in {"pending", "approved", "rejected"}, DecideRead(r, l, by, status)
  PROVE  Inv'
<1> DEFINE mine == [at |-> "decide", leave |-> l, by |-> by, status |-> status]
<1>1. /\ req' = [req EXCEPT ![r] = mine] /\ leave[l].status # "none"
      /\ UNCHANGED <<leave, mark, reported, timetable, history>>
  BY DEF DecideRead
<1>2. req[r].at = "idle" /\ started' \in 0..MaxRequests
  BY Fresh DEF DecideRead
<1>3. mine \in Request /\ Knows(mine, leave)
  BY <1>1 DEF Request, LeaveRequest, Knows, AtMarks, AtDays, AtDay
<1>4. mine.at \notin AtMarks \cup AtReports /\ req[r].at \notin AtMarks \cup AtReports
  BY <1>2 DEF AtMarks, AtReports
<1> HIDE DEF mine
<1> QED BY <1>1, <1>2, <1>3, <1>4, Quiet, ReadAction

LEMMA LeaveReadStep ==
  ASSUME Inv, NEW r \in Requests, LeaveRead(r)
  PROVE  Inv'
<1> DEFINE p == req[r]
           days == {d \in DaysOf(p.leave) : mark[d] # "Present"}
           mine == IF days = {} THEN Idle ELSE [p EXCEPT !.at = "updateMany", !.days = days]
<1>1. /\ req' = [req EXCEPT ![r] = mine] /\ p.at = "read"
      /\ UNCHANGED <<leave, mark, reported, timetable, started, history>>
  BY DEF LeaveRead, Inv, Typed, TypeOK
<1>2. /\ p \in [at : {"read", "updateMany", "createMany", "reset"}, leave : LeaveId,
                days : SUBSET Days]
      /\ p.leave \in LeaveId /\ leave[p.leave] \in Leave
      /\ leave[p.leave].status # "none" /\ p.at \in AtMarks /\ p.at \notin AtReports
      /\ started' \in 0..MaxRequests
  BY <1>1, RequestAt DEF Inv, Typed, TypeOK, Knows, AtMarks, AtReports
<1>3. \A d : d \in days <=> d \in Days /\ On(leave[p.leave], d) /\ mark[d] # "Present"
  BY <1>2, LeavesOK DEF DaysOf, On, Leave, Days
<1> HIDE DEF days
<1>4. CASE days = {}
  <2>1. mine = Idle
    BY <1>4
  <2>2. Idle.at \notin AtMarks \cup AtReports
    BY IdleQuiet DEF AtMarks, AtReports
  <2>3. \A l \in LeaveId, d \in Days : On(leave[l], d) /\ Firm(p, l, d, mark[d]) =>
          mark[d] \in {"Leave-Approved", "Present"}
    BY <1>3, <1>4 DEF Firm
  <2> HIDE DEF mine
  <2> QED BY <1>1, <1>2, <2>1, <2>2, <2>3, IdleQuiet, Quiet, ReadAction
<1>5. CASE days # {}
  <2>1. mine = [p EXCEPT !.at = "updateMany", !.days = days] /\ days \subseteq Days
    BY <1>3, <1>5
  <2> HIDE DEF mine
  <2>2. /\ mine \in [at : {"updateMany"}, leave : LeaveId, days : SUBSET Days]
        /\ mine.at = "updateMany" /\ mine.leave = p.leave /\ mine.days = days
    BY <1>2, <2>1
  <2>3. mine \in Request
    BY <2>2 DEF Request, LeaveRequest
  <2>4. Knows(mine, leave)
    BY <1>2, <1>3, <1>5, <2>2 DEF Knows, AtMarks, AtDays, AtDay
  <2>5. \A l \in LeaveId, d \in Days : On(leave[l], d) /\ Firm(p, l, d, mark[d]) =>
          mark[d] \in {"Leave-Approved", "Present"} \/ Firm(mine, l, d, mark[d])
    BY <1>2, <1>3, <2>2 DEF Firm, AtMarks, AtDays, AtDay
  <2>6. mine.at \notin AtReports
    BY <2>2 DEF AtReports
  <2> QED BY <1>1, <1>2, <2>2, <2>3, <2>4, <2>5, <2>6, Quiet, ReadAction
<1> QED BY <1>4, <1>5

LEMMA DaysMarks ==
  ASSUME Inv, NEW r \in Requests, req[r].at \in AtDays
  PROVE  /\ req[r] \in [at : {"read", "updateMany", "createMany", "reset"}, leave : LeaveId,
                        days : SUBSET Days]
         /\ req[r].leave \in LeaveId /\ req[r].days \subseteq Days
         /\ req[r].at \in AtMarks /\ req[r].at \notin AtReports /\ req[r].at \notin AtDay
         /\ Knows(req[r], leave) /\ \A d \in req[r].days : On(leave[req[r].leave], d)
         /\ \A l : ~Resets(req[r], l)
BY RequestAt DEF Inv, Typed, TypeOK, Knows, AtMarks, AtReports, AtDays, AtDay, Resets

LEMMA LeaveUpdateStep ==
  ASSUME Inv, NEW r \in Requests, LeaveUpdate(r)
  PROVE  Inv'
<1> DEFINE p == req[r]
           mine == [p EXCEPT !.at = "createMany"]
<1>1. /\ p.at = "updateMany" /\ UNCHANGED <<leave, reported, timetable, started, history>>
      /\ mark' = [d \in Days |-> IF d \in p.days /\ mark[d] \notin {"none", "Present"}
                                 THEN "Leave-Approved" ELSE mark[d]]
  BY DEF LeaveUpdate
<1>2. /\ p \in [at : {"read", "updateMany", "createMany", "reset"}, leave : LeaveId,
                days : SUBSET Days]
      /\ p.leave \in LeaveId /\ p.days \subseteq Days /\ p.at \in AtMarks
      /\ p.at \notin AtReports /\ p.at \notin AtDay /\ Knows(p, leave)
      /\ \A d \in p.days : On(leave[p.leave], d)
      /\ \A l : ~Resets(p, l)
  BY <1>1, DaysMarks DEF AtDays
<1>3. req' = [req EXCEPT ![r] = mine]
  BY DEF LeaveUpdate, Inv, Typed, TypeOK
<1>4. /\ mine \in [at : {"createMany"}, leave : LeaveId, days : SUBSET Days]
      /\ mine.at = "createMany" /\ mine.leave = p.leave /\ mine.days = p.days
  BY <1>2
<1> HIDE DEF mine
<1>5. mine \in Request /\ Knows(mine, leave) /\ mine.at \in AtMarks /\ mine.at \notin AtReports
  BY <1>1, <1>2, <1>4 DEF Request, LeaveRequest, Knows, AtMarks, AtReports, AtDays, AtDay
<1>6. /\ mark' \in [Days -> Mark]
      /\ \A d \in Days : mark'[d] = IF d \in p.days /\ mark[d] \notin {"none", "Present"}
                                    THEN "Leave-Approved" ELSE mark[d]
  BY <1>1 DEF Inv, Typed, TypeOK, Mark
<1>7. /\ UNCHANGED <<leave, reported, timetable, slots>> /\ unmarked' = unmarked
      /\ withdrawn' = withdrawn /\ unpresent' = unpresent /\ started' \in 0..MaxRequests
      /\ unmarked' \subseteq LeaveId \X Days /\ withdrawn' \subseteq LeaveId
      /\ unpresent' \subseteq Days /\ \A l \in withdrawn' : leave[l].status # "none"
  BY <1>1 DEF history, Inv, Typed, TypeOK
<1>8. \A l \in LeaveId, d \in Days : leave[l].status = "approved" /\ On(leave[l], d) =>
        \/ mark'[d] \in {"Leave-Approved", "Present"} \/ <<l, d>> \in unmarked'
        \/ Firm(mine, l, d, mark'[d])
        \/ /\ mark[d] \notin {"Leave-Approved", "Present"}
           /\ ~Firm(p, l, d, mark[d])
           /\ \A q \in Requests : Firm(req[q], l, d, mark[d]) => Firm(req[q], l, d, mark'[d])
  <2> SUFFICES ASSUME NEW l \in LeaveId, NEW d \in Days,
                      mark'[d] \notin {"Leave-Approved", "Present"},
                      ~Firm(mine, l, d, mark'[d])
               PROVE  /\ mark[d] \notin {"Leave-Approved", "Present"}
                      /\ ~Firm(p, l, d, mark[d]) /\ mark'[d] = mark[d]
    OBVIOUS
  <2>1. mark'[d] = mark[d] /\ (d \in p.days => mark[d] = "none")
    BY <1>6
  <2>2. ~Firm(p, l, d, mark[d])
    BY <1>1, <1>4, <2>1 DEF Firm, AtMarks, AtDays, AtDay
  <2> QED BY <2>1, <2>2
<1>9. \A d \in Days : CoveredDay(timetable[d], d, reported) =>
        (mark[d] = "Present" \/ d \in unpresent \/ Presents(p, d, reported) =>
           mark'[d] = "Present" \/ d \in unpresent' \/ Presents(mine, d, reported))
  BY <1>2, <1>6, <1>7, Quiet
<1>10. Reports(mine, slots, reported)
  BY <1>5, Quiet
<1>11. \A d \in Days : /\ mark'[d] = "Leave-Approved" =>
                            mark[d] = "Leave-Approved" \/ On(leave[p.leave], d)
                       /\ mark'[d] = "Present" => mark[d] = "Present"
  BY <1>2, <1>6
<1> HIDE DEF p
<1> QED BY <1>2, <1>3, <1>4, <1>5, <1>6, <1>7, <1>8, <1>9, <1>10, <1>11, Action DEF p

LEMMA LeaveCreateStep ==
  ASSUME Inv, NEW r \in Requests, LeaveCreate(r)
  PROVE  Inv'
<1> DEFINE p == req[r]
<1>1. /\ p.at = "createMany" /\ UNCHANGED <<leave, reported, timetable, started, history>>
      /\ req' = [req EXCEPT ![r] = Idle]
      /\ mark' = [d \in Days |-> IF d \in p.days /\ mark[d] = "none"
                                 THEN "Leave-Approved" ELSE mark[d]]
  BY DEF LeaveCreate
<1>2. /\ p.at \in AtMarks /\ p.at \notin AtReports /\ p.at \notin AtDay
      /\ \A d \in p.days : On(leave[p.leave], d)
      /\ \A l : ~Resets(p, l)
  BY <1>1, DaysMarks DEF AtDays
<1>3. Idle \in Request /\ Knows(Idle, leave) /\ Idle.at \notin AtMarks \cup AtReports
  BY IdleQuiet DEF AtMarks, AtReports
<1>4. /\ mark' \in [Days -> Mark]
      /\ \A d \in Days : mark'[d] = IF d \in p.days /\ mark[d] = "none"
                                    THEN "Leave-Approved" ELSE mark[d]
  BY <1>1 DEF Inv, Typed, TypeOK, Mark
<1>5. /\ UNCHANGED <<leave, reported, timetable, slots>> /\ unmarked' = unmarked
      /\ withdrawn' = withdrawn /\ unpresent' = unpresent /\ started' \in 0..MaxRequests
      /\ unmarked' \subseteq LeaveId \X Days /\ withdrawn' \subseteq LeaveId
      /\ unpresent' \subseteq Days /\ \A l \in withdrawn' : leave[l].status # "none"
  BY <1>1 DEF history, Inv, Typed, TypeOK
<1>6. \A l \in LeaveId, d \in Days : mark'[d] \notin {"Leave-Approved", "Present"} =>
        /\ mark[d] \notin {"Leave-Approved", "Present"} /\ mark'[d] = mark[d]
        /\ ~Firm(p, l, d, mark[d])
  BY <1>1, <1>4 DEF Firm, AtDays
<1>7. \A l \in LeaveId, d \in Days : leave[l].status = "approved" /\ On(leave[l], d) =>
        \/ mark'[d] \in {"Leave-Approved", "Present"} \/ <<l, d>> \in unmarked'
        \/ Firm(Idle, l, d, mark'[d])
        \/ /\ mark[d] \notin {"Leave-Approved", "Present"}
           /\ ~Firm(p, l, d, mark[d])
           /\ \A q \in Requests : Firm(req[q], l, d, mark[d]) => Firm(req[q], l, d, mark'[d])
  BY <1>6
<1>8. \A d \in Days : CoveredDay(timetable[d], d, reported) =>
        (mark[d] = "Present" \/ d \in unpresent \/ Presents(p, d, reported) =>
           mark'[d] = "Present" \/ d \in unpresent' \/ Presents(Idle, d, reported))
  BY <1>2, <1>4, <1>5, Quiet
<1>9. Reports(Idle, slots, reported)
  BY <1>3, Quiet
<1>10. \A d \in Days : /\ mark'[d] = "Leave-Approved" =>
                            mark[d] = "Leave-Approved" \/ On(leave[p.leave], d)
                       /\ mark'[d] = "Present" => mark[d] = "Present"
  BY <1>2, <1>4
<1> HIDE DEF p
<1> QED BY <1>1, <1>2, <1>3, <1>4, <1>5, <1>7, <1>8, <1>9, <1>10, Action DEF p

\* Without Marking, no request works for the leave.
LEMMA NotMarking ==
  ASSUME Inv, NEW l \in LeaveId, ~Marking(l), NEW q \in Requests, req[q].at \in AtMarks
  PROVE  req[q].leave # l
<1> SUFFICES ASSUME req[q].leave = l PROVE \E d \in Days : WillMark(q, l, d)
  BY DEF Marking
<1>1. /\ req[q] \in Request /\ leave[l] \in Leave /\ Knows(req[q], leave)
      /\ leave[l].first <= leave[l].last
  BY DEF Inv, Typed, TypeOK
<1>2. \A d : d \in DaysOf(l) <=> d \in Days /\ On(leave[l], d)
  BY <1>1, LeavesOK DEF DaysOf, On, Leave, Days
<1>3. CASE req[q].at = "read"
  <2>1. leave[l].first \in Days /\ On(leave[l], leave[l].first)
    BY <1>1, LeavesOK DEF Leave, Days, On
  <2>2. WillMark(q, l, leave[l].first)
    BY <1>2, <1>3, <2>1 DEF WillMark
  <2> QED BY <2>1, <2>2
<1>4. CASE req[q].at \in AtDays
  <2>1. PICK d \in req[q].days : On(leave[l], d)
    BY <1>1, <1>4 DEF Knows
  <2>2. d \in Days
    BY <1>1, <1>4, <2>1, RequestAt DEF AtDays
  <2>3. WillMark(q, l, d)
    BY <1>2, <1>4, <2>1, <2>2 DEF WillMark, AtDays
  <2> QED BY <2>2, <2>3
<1>5. CASE req[q].at \in AtDay
  <2>1. req[q].day \in Days /\ On(leave[l], req[q].day)
    BY <1>1, <1>5, RequestAt DEF Knows
  <2>2. req[q].day >= req[q].day
    BY <2>1, LeavesOK DEF Days
  <2>3. WillMark(q, l, req[q].day)
    BY <1>2, <1>5, <2>1, <2>2 DEF WillMark, AtDay
  <2> QED BY <2>1, <2>3
<1> QED BY <1>3, <1>4, <1>5 DEF AtMarks, AtDays, AtDay

LEMMA LeaveResetStep ==
  ASSUME Inv, NEW r \in Requests, LeaveReset(r)
  PROVE  Inv'
<1> DEFINE p == req[r]
           l == p.leave
           days == {d \in DaysOf(l) : mark[d] = "Leave-Approved"}
<1>1. /\ p.at = "reset" /\ UNCHANGED <<leave, reported, timetable, started, unpresent, slots>>
      /\ req' = [req EXCEPT ![r] = Idle]
      /\ mark' = [d \in Days |-> IF d \in days THEN "Unreported" ELSE mark[d]]
      /\ unmarked' = unmarked \cup {k \in LeaveId \X days : leave[k[1]].status = "approved"}
      /\ withdrawn' = IF Marking(l) THEN withdrawn \cup {l} ELSE withdrawn \ {l}
  BY DEF LeaveReset
<1>2. /\ l \in LeaveId /\ leave[l] \in Leave /\ leave[l].status # "none"
      /\ p.at \notin AtMarks \cup AtReports
  BY <1>1, RequestAt DEF Inv, Typed, TypeOK, Knows, AtMarks, AtReports
<1>3. \A d : d \in days <=> d \in Days /\ On(leave[l], d) /\ mark[d] = "Leave-Approved"
  BY <1>2, LeavesOK DEF DaysOf, On, Leave, Days
<1> HIDE DEF days
<1>4. Idle \in Request /\ Knows(Idle, leave) /\ Idle.at \notin AtMarks \cup AtReports
  BY IdleQuiet DEF AtMarks, AtReports
<1>5. /\ mark' \in [Days -> Mark]
      /\ \A d \in Days : mark'[d] = IF d \in days THEN "Unreported" ELSE mark[d]
  BY <1>1 DEF Inv, Typed, TypeOK, Mark
<1>6. /\ UNCHANGED <<leave, reported, timetable, slots>> /\ unpresent' = unpresent
      /\ unmarked \subseteq unmarked' /\ unmarked' \subseteq LeaveId \X Days
      /\ withdrawn' \subseteq LeaveId /\ unpresent' \subseteq Days
      /\ \A x \in withdrawn' : leave[x].status # "none"
      /\ started' \in 0..MaxRequests
  BY <1>1, <1>2, <1>3 DEF Inv, Typed, TypeOK
<1>7. \A x \in LeaveId, d \in Days : leave[x].status = "approved" /\ d \in days =>
        <<x, d>> \in unmarked'
  BY <1>1
<1>8. \A x \in LeaveId, d \in Days : leave[x].status = "approved" /\ On(leave[x], d) =>
        \/ mark'[d] \in {"Leave-Approved", "Present"} \/ <<x, d>> \in unmarked'
        \/ Firm(Idle, x, d, mark'[d])
        \/ /\ mark[d] \notin {"Leave-Approved", "Present"}
           /\ ~Firm(p, x, d, mark[d])
           /\ \A q \in Requests : Firm(req[q], x, d, mark[d]) => Firm(req[q], x, d, mark'[d])
  <2> SUFFICES ASSUME NEW x \in LeaveId, NEW d \in Days, leave[x].status = "approved",
                      mark'[d] \notin {"Leave-Approved", "Present"}, <<x, d>> \notin unmarked'
               PROVE  mark'[d] = mark[d] /\ ~Firm(p, x, d, mark[d])
    OBVIOUS
  <2> QED BY <1>2, <1>5, <1>7, Quiet
<1>9. \A x \in LeaveId : x \in withdrawn \/ Resets(p, x) =>
        \/ x \in withdrawn' \/ Resets(Idle, x)
        \/ /\ \A d \in Days : On(leave[x], d) => mark'[d] # "Leave-Approved"
           /\ \A q \in Requests : req'[q].at \in AtMarks => req'[q].leave # x
  <2>1. CASE Marking(l)
    BY <1>1, <2>1 DEF Resets
  <2>2. CASE ~Marking(l)
    <3>1. \A d \in Days : On(leave[l], d) => mark'[d] # "Leave-Approved"
      BY <1>3, <1>5
    <3>2. \A q \in Requests : req'[q].at \in AtMarks => req[q].at \in AtMarks /\ req'[q] = req[q]
      BY <1>1, <1>4 DEF Inv, Typed, TypeOK
    <3>3. \A q \in Requests : req'[q].at \in AtMarks => req'[q].leave # l
      BY <1>2, <2>2, <3>2, NotMarking
    <3> QED BY <1>1, <2>2, <3>1, <3>3 DEF Resets
  <2> QED BY <2>1, <2>2
<1>10. \A d \in Days : CoveredDay(timetable[d], d, reported) =>
        (mark[d] = "Present" \/ d \in unpresent \/ Presents(p, d, reported) =>
           mark'[d] = "Present" \/ d \in unpresent' \/ Presents(Idle, d, reported))
  BY <1>2, <1>3, <1>5, <1>6, Quiet
<1>11. Reports(Idle, slots, reported)
  BY <1>4, Quiet
<1>12. \A d \in Days : /\ mark'[d] = "Leave-Approved" => mark[d] = "Leave-Approved"
                       /\ mark'[d] = "Present" => mark[d] = "Present"
  BY <1>5
<1> HIDE DEF p, l
<1> QED BY <1>1, <1>2, <1>4, <1>5, <1>6, <1>8, <1>9, <1>10, <1>11, <1>12, Action DEF p

\* What PATCH leaves/:id goes on to after a day: the days that are left.
LEMMA NextDayGoes ==
  ASSUME Inv, NEW r \in Requests, req[r].at \in AtDay, NEW mine, mine = NextDay(req[r])
  PROVE  /\ mine \in Request /\ Knows(mine, leave) /\ mine.at \notin AtReports \cup {"reset"}
         /\ mine.at \in AtMarks => mine.leave = req[r].leave
         /\ \A l, d, m, n : d \in Days /\ On(leave[l], d) /\ Firm(req[r], l, d, m) =>
              d = req[r].day \/ Firm(mine, l, d, n)
<1> DEFINE p == req[r]
           row == leave[p.leave]
<1>1. /\ p \in [at : AtDay, leave : LeaveId, day : Days] /\ p.leave \in LeaveId
      /\ p.day \in Days /\ row \in Leave /\ row.status # "none" /\ On(row, p.day)
  BY RequestAt DEF Inv, Typed, TypeOK, Knows, AtMarks, AtDay
<1>2. /\ p.day \in Nat /\ row.first \in Nat /\ row.last \in Nat /\ row.last <= LastDay
      /\ \A d \in Days : d \in Nat
      /\ p.day >= 1 /\ LastDay \in Nat
  BY <1>1, LeavesOK DEF Days, Leave
<1>3. CASE p.day = row.last
  <2>1. mine = Idle /\ Idle.at \notin AtMarks \cup AtReports \cup {"reset"}
    BY <1>3, IdleQuiet DEF NextDay, AtMarks, AtReports
  <2>2. \A l, d, m : d \in Days /\ On(leave[l], d) /\ Firm(p, l, d, m) => d = p.day
    BY <1>2, <1>3 DEF Firm, On, AtDay
  <2> QED BY <2>1, <2>2, IdleQuiet
<1>4. CASE p.day # row.last
  <2>1. mine = [[p EXCEPT !.at = "find"] EXCEPT !.day = p.day + 1]
    BY <1>1, <1>4 DEF NextDay
  <2>2. p.day + 1 \in Days /\ On(row, p.day + 1)
    BY <1>1, <1>2, <1>4 DEF On, Days
  <2>3. mine \in [at : {"find"}, leave : LeaveId, day : Days]
        /\ mine.at = "find" /\ mine.leave = p.leave /\ mine.day = p.day + 1
    BY <1>1, <2>1, <2>2 DEF AtDay
  <2>4. mine \in Request
    BY <2>3 DEF Request, LeaveRequest
  <2>5. Knows(mine, leave)
    BY <1>1, <2>2, <2>3 DEF Knows, AtMarks, AtDays, AtDay
  <2>6. \A l, d, m, n : d \in Days /\ On(leave[l], d) /\ Firm(p, l, d, m) =>
          d = p.day \/ Firm(mine, l, d, n)
    BY <1>2, <2>3 DEF Firm, AtMarks, AtDays, AtDay
  <2>7. mine.at \notin AtReports \cup {"reset"}
    BY <2>3 DEF AtReports
  <2> QED BY <2>3, <2>4, <2>5, <2>6, <2>7
<1> QED BY <1>3, <1>4

LEMMA PatchFindStep ==
  ASSUME Inv, NEW r \in Requests, PatchFind(r)
  PROVE  Inv'
<1> DEFINE p == req[r]
           mine == IF mark[p.day] = "Present" THEN NextDay(p) ELSE [p EXCEPT !.at = "upsert"]
<1>1. /\ req' = [req EXCEPT ![r] = mine] /\ p.at = "find"
      /\ UNCHANGED <<leave, mark, reported, timetable, started, history>>
  BY DEF PatchFind, Inv, Typed, TypeOK
<1>2. /\ p \in [at : AtDay, leave : LeaveId, day : Days] /\ p.at \in AtDay
      /\ p.day \in Days /\ Knows(p, leave) /\ p.at \in AtMarks /\ p.at \notin AtReports
      /\ started' \in 0..MaxRequests
  BY <1>1, RequestAt DEF Inv, Typed, TypeOK, AtMarks, AtReports, AtDay
<1>3. CASE mark[p.day] = "Present"
  <2>1. mine = NextDay(p)
    BY <1>3
  <2> HIDE DEF mine
  <2>2. /\ mine \in Request /\ Knows(mine, leave) /\ mine.at \notin AtReports \cup {"reset"}
        /\ mine.at \in AtMarks => mine.leave = p.leave
        /\ \A l, d, m, n : d \in Days /\ On(leave[l], d) /\ Firm(p, l, d, m) =>
             d = p.day \/ Firm(mine, l, d, n)
    BY <1>2, <2>1, NextDayGoes
  <2>3. \A l \in LeaveId, d \in Days : On(leave[l], d) /\ Firm(p, l, d, mark[d]) =>
          mark[d] \in {"Leave-Approved", "Present"} \/ Firm(mine, l, d, mark[d])
    BY <1>3, <2>2
  <2> QED BY <1>1, <1>2, <2>2, <2>3, Quiet, ReadAction
<1>4. CASE mark[p.day] # "Present"
  <2>1. mine = [p EXCEPT !.at = "upsert"]
    BY <1>4
  <2> HIDE DEF mine
  <2>2. mine \in [at : {"upsert"}, leave : LeaveId, day : Days]
        /\ mine.at = "upsert" /\ mine.leave = p.leave /\ mine.day = p.day
    BY <1>2, <2>1
  <2>3. mine \in Request /\ mine.at \notin AtReports
    BY <2>2 DEF Request, LeaveRequest, AtReports
  <2>4. Knows(mine, leave)
    BY <1>2, <2>2 DEF Knows, AtMarks, AtDays, AtDay
  <2>5. \A l, d, m : Firm(p, l, d, m) => Firm(mine, l, d, m)
    BY <1>2, <2>2 DEF Firm, AtMarks, AtDays, AtDay
  <2> QED BY <1>1, <1>2, <2>2, <2>3, <2>4, <2>5, Quiet, ReadAction
<1> QED BY <1>3, <1>4

LEMMA PatchUpsertStep ==
  ASSUME Inv, NEW r \in Requests, PatchUpsert(r)
  PROVE  Inv'
<1> DEFINE p == req[r]
           mine == NextDay(p)
<1>1. /\ p.at = "upsert" /\ UNCHANGED <<leave, reported, timetable, started, unmarked,
                                        withdrawn, slots>>
      /\ req' = [req EXCEPT ![r] = mine]
      /\ mark' = [mark EXCEPT ![p.day] = "Leave-Approved"]
      /\ unpresent' = IF mark[p.day] = "Present" THEN unpresent \cup {p.day} ELSE unpresent
  BY DEF PatchUpsert, Inv, Typed, TypeOK
<1>2. /\ p.at \in AtDay /\ p.day \in Days /\ p.leave \in LeaveId /\ On(leave[p.leave], p.day)
      /\ p.at \in AtMarks /\ p.at \notin AtReports \cup {"reset"}
  BY <1>1, RequestAt DEF Inv, Typed, TypeOK, Knows, AtMarks, AtReports, AtDay
<1>3. /\ mine \in Request /\ Knows(mine, leave) /\ mine.at \notin AtReports \cup {"reset"}
      /\ mine.at \in AtMarks => mine.leave = p.leave
      /\ \A l, d, m, n : d \in Days /\ On(leave[l], d) /\ Firm(p, l, d, m) =>
           d = p.day \/ Firm(mine, l, d, n)
  BY <1>2, NextDayGoes
<1> HIDE DEF mine
<1>4. /\ mark' \in [Days -> Mark] /\ mark'[p.day] = "Leave-Approved"
      /\ \A d \in Days \ {p.day} : mark'[d] = mark[d]
  BY <1>1, <1>2 DEF Inv, Typed, TypeOK, Mark
<1>5. /\ UNCHANGED <<leave, reported, timetable, slots>> /\ unmarked' = unmarked
      /\ withdrawn' = withdrawn /\ started' \in 0..MaxRequests
      /\ unmarked' \subseteq LeaveId \X Days /\ withdrawn' \subseteq LeaveId
      /\ unpresent' \subseteq Days /\ \A l \in withdrawn' : leave[l].status # "none"
  BY <1>1, <1>2 DEF Inv, Typed, TypeOK
<1>6. \A l \in LeaveId, d \in Days : leave[l].status = "approved" /\ On(leave[l], d) =>
        \/ mark'[d] \in {"Leave-Approved", "Present"} \/ <<l, d>> \in unmarked'
        \/ Firm(mine, l, d, mark'[d])
        \/ /\ mark[d] \notin {"Leave-Approved", "Present"}
           /\ ~Firm(p, l, d, mark[d])
           /\ \A q \in Requests : Firm(req[q], l, d, mark[d]) => Firm(req[q], l, d, mark'[d])
  BY <1>3, <1>4
<1>7. \A d \in Days : CoveredDay(timetable[d], d, reported) =>
        (mark[d] = "Present" \/ d \in unpresent \/ Presents(p, d, reported) =>
           mark'[d] = "Present" \/ d \in unpresent' \/ Presents(mine, d, reported))
  BY <1>1, <1>2, <1>4, Quiet
<1>8. Reports(mine, slots, reported) /\ \A l : ~Resets(p, l)
  BY <1>2, <1>3, Quiet
<1>9. \A d \in Days : /\ mark'[d] = "Leave-Approved" =>
                            mark[d] = "Leave-Approved" \/ On(leave[p.leave], d)
                      /\ mark'[d] = "Present" => mark[d] = "Present"
  BY <1>2, <1>4
<1>10. /\ mine \in Request /\ Knows(mine, leave) /\ req' = [req EXCEPT ![r] = mine]
       /\ mine.at \in AtMarks => p.at \in AtMarks /\ mine.leave = p.leave
       /\ mark' \in [Days -> Mark]
  BY <1>1, <1>2, <1>3, <1>4
<1> HIDE DEF p
<1> QED BY <1>2, <1>5, <1>6, <1>7, <1>8, <1>9, <1>10, Action DEF p

-----------------------------------------------------------------------------
\* The handlers of reports.
LEMMA ReportFindStep ==
  ASSUME Inv, NEW r \in Requests, NEW d \in Days, NEW p \in Periods, ReportFind(r, d, p)
  PROVE  Inv'
<1> DEFINE mine == [at |-> "insert", day |-> d, period |-> p, scheduled |-> {}]
<1>1. /\ req' = [req EXCEPT ![r] = mine]
      /\ UNCHANGED <<leave, mark, reported, timetable, history>>
  BY DEF ReportFind
<1>2. req[r].at = "idle" /\ started' \in 0..MaxRequests
  BY Fresh DEF ReportFind
<1>3. mine \in Request /\ Knows(mine, leave)
  BY DEF Request, ReportRequest, Knows, AtMarks, AtDays, AtDay
<1>4. mine.at \notin AtMarks \cup AtReports /\ req[r].at \notin AtMarks \cup AtReports
  BY <1>2 DEF AtMarks, AtReports
<1> HIDE DEF mine
<1> QED BY <1>1, <1>2, <1>3, <1>4, Quiet, ReadAction

\* A request of a report, whatever it holds, is right about leaves.
LEMMA ReportGoesOn ==
  ASSUME NEW q \in ReportRequest
  PROVE  /\ q \in Request /\ q.at \notin AtMarks \cup {"reset"} /\ q.at # "sweep"
         /\ \A leaves : Knows(q, leaves)
BY DEF Request, ReportRequest, Knows, AtMarks, AtDays, AtDay

LEMMA ReportScheduleStep ==
  ASSUME Inv, NEW r \in Requests, ReportSchedule(r)
  PROVE  Inv'
<1> DEFINE p == req[r]
           scheduled == timetable[p.day]
           mine == [p EXCEPT !.at = IF scheduled = {} THEN "present" ELSE "count",
                             !.scheduled = scheduled]
<1>1. /\ p.at = "schedule" /\ UNCHANGED <<leave, mark, reported, timetable, started, history>>
  BY DEF ReportSchedule
<1>2. /\ p \in ReportRequest /\ p.day \in Days /\ p.period \in Periods
      /\ <<p.day, p.period>> \in reported
      /\ p.at \in AtReports /\ p.at \notin AtMarks \cup {"reset"}
      /\ scheduled \in SUBSET Periods /\ scheduled \in slots[p.day]
      /\ started' \in 0..MaxRequests
  BY <1>1, RequestAt DEF Inv, Typed, TypeOK, PresentsEarned, Reports, AtReports, AtMarks
<1>3. req' = [req EXCEPT ![r] = mine]
  BY DEF ReportSchedule, Inv, Typed, TypeOK
<1> HIDE DEF scheduled
<1>4. /\ mine \in ReportRequest /\ mine.day = p.day /\ mine.period = p.period
      /\ mine.scheduled = scheduled
      /\ mine.at = IF scheduled = {} THEN "present" ELSE "count"
  BY <1>2 DEF ReportRequest
<1> HIDE DEF mine
<1>5. Reports(mine, slots, reported)
  <2>1. scheduled = {} => Earned(p.day, slots[p.day], reported)
    BY <1>2 DEF Earned, CoveredDay
  <2> QED BY <1>2, <1>4, <2>1 DEF Reports
<1>6. \A d \in Days : CoveredDay(timetable[d], d, reported) /\ Presents(p, d, reported) =>
        Presents(mine, d, reported)
  BY <1>4 DEF Presents, CoveredDay, AtReports, scheduled
<1>7. mine \in Request /\ Knows(mine, leave) /\ mine.at \notin AtMarks
  BY <1>4, ReportGoesOn
<1> QED BY <1>1, <1>2, <1>3, <1>5, <1>6, <1>7, Quiet, ReadAction

LEMMA ReportCountStep ==
  ASSUME Inv, NEW r \in Requests, ReportCount(r)
  PROVE  Inv'
<1> DEFINE p == req[r]
           all == p.scheduled \subseteq Reported(p.day)
           mine == IF all THEN [p EXCEPT !.at = "present"] ELSE Idle
<1>1. /\ p.at = "count" /\ UNCHANGED <<leave, mark, reported, timetable, started, history>>
      /\ req' = [req EXCEPT ![r] = mine]
  BY DEF ReportCount, Inv, Typed, TypeOK
<1>2. /\ p \in ReportRequest /\ p.day \in Days /\ p.period \in Periods
      /\ <<p.day, p.period>> \in reported /\ p.scheduled \in slots[p.day]
      /\ p.scheduled \subseteq Periods
      /\ p.at \in AtReports /\ p.at \notin AtMarks \cup {"reset"}
      /\ started' \in 0..MaxRequests
  BY <1>1, RequestAt
     DEF Inv, Typed, TypeOK, PresentsEarned, Reports, AtReports, AtMarks, ReportRequest
<1>3. all <=> \A x \in p.scheduled : <<p.day, x>> \in reported
  BY <1>2 DEF Reported
<1> HIDE DEF all
<1>4. CASE all
  <2>1. mine = [p EXCEPT !.at = "present"]
    BY <1>4
  <2> HIDE DEF mine
  <2>2. /\ mine \in ReportRequest /\ mine.day = p.day /\ mine.period = p.period
        /\ mine.at = "present"
    BY <1>2, <2>1 DEF ReportRequest
  <2>3. Earned(p.day, slots[p.day], reported)
    BY <1>2, <1>3, <1>4 DEF Earned, CoveredDay
  <2>4. Reports(mine, slots, reported)
    BY <1>2, <2>2, <2>3 DEF Reports
  <2>5. \A d \in Days : Presents(p, d, reported) => Presents(mine, d, reported)
    BY <2>2 DEF Presents, AtReports
  <2>6. mine \in Request /\ Knows(mine, leave) /\ mine.at \notin AtMarks
    BY <2>2, ReportGoesOn
  <2> QED BY <1>1, <1>2, <2>4, <2>5, <2>6, Quiet, ReadAction
<1>5. CASE ~all
  <2>1. mine = Idle
    BY <1>5
  <2> HIDE DEF mine
  <2>2. \A d \in Days : ~Presents(p, d, reported)
    BY <1>1, <1>3, <1>5 DEF Presents
  <2>3. Idle.at \notin AtMarks \cup AtReports
    BY IdleQuiet DEF AtMarks, AtReports
  <2> QED BY <1>1, <1>2, <2>1, <2>2, <2>3, IdleQuiet, Quiet, ReadAction
<1> QED BY <1>4, <1>5

LEMMA ReportPresentStep ==
  ASSUME Inv, NEW r \in Requests, ReportPresent(r)
  PROVE  Inv'
<1> DEFINE p == req[r]
<1>1. /\ p.at = "present" /\ req' = [req EXCEPT ![r] = Idle]
      /\ UNCHANGED <<leave, reported, timetable, started, unmarked, withdrawn, slots>>
      /\ mark' = [mark EXCEPT ![p.day] = "Present"] /\ unpresent' = unpresent \ {p.day}
  BY DEF ReportPresent
<1>2. p.day \in Days /\ p.at \notin AtMarks \cup {"reset"}
  BY <1>1, RequestAt DEF Inv, Typed, TypeOK, AtReports, AtMarks
<1>3. Idle \in Request /\ Knows(Idle, leave) /\ Idle.at \notin AtMarks \cup AtReports
  BY IdleQuiet DEF AtMarks, AtReports
<1>4. /\ mark' \in [Days -> Mark] /\ mark'[p.day] = "Present"
      /\ \A d \in Days \ {p.day} : mark'[d] = mark[d]
  BY <1>1, <1>2 DEF Inv, Typed, TypeOK, Mark
<1>5. /\ UNCHANGED <<leave, reported, timetable, slots>> /\ unmarked' = unmarked
      /\ withdrawn' = withdrawn /\ started' \in 0..MaxRequests
      /\ unmarked' \subseteq LeaveId \X Days /\ withdrawn' \subseteq LeaveId
      /\ unpresent' \subseteq Days /\ \A l \in withdrawn' : leave[l].status # "none"
  BY <1>1 DEF Inv, Typed, TypeOK
<1>6. \A l \in LeaveId, d \in Days : leave[l].status = "approved" /\ On(leave[l], d) =>
        \/ mark'[d] \in {"Leave-Approved", "Present"} \/ <<l, d>> \in unmarked'
        \/ Firm(Idle, l, d, mark'[d])
        \/ /\ mark[d] \notin {"Leave-Approved", "Present"}
           /\ ~Firm(p, l, d, mark[d])
           /\ \A q \in Requests : Firm(req[q], l, d, mark[d]) => Firm(req[q], l, d, mark'[d])
  BY <1>2, <1>4, Quiet
<1>7. \A d \in Days : CoveredDay(timetable[d], d, reported) =>
        (mark[d] = "Present" \/ d \in unpresent \/ Presents(p, d, reported) =>
           mark'[d] = "Present" \/ d \in unpresent' \/ Presents(Idle, d, reported))
  BY <1>1, <1>4 DEF Presents
<1>8. Reports(Idle, slots, reported) /\ \A l : ~Resets(p, l)
  BY <1>2, <1>3, Quiet
<1>9. \A d \in Days : /\ mark'[d] = "Leave-Approved" => mark[d] = "Leave-Approved"
                      /\ mark'[d] = "Present" => mark[d] = "Present" \/ p.day = d
  BY <1>4
<1> HIDE DEF p
<1> QED BY <1>1, <1>2, <1>3, <1>4, <1>5, <1>6, <1>7, <1>8, <1>9, Action DEF p

-----------------------------------------------------------------------------
\* markMissing() and failures.
LEMMA SweepReadStep ==
  ASSUME Inv, NEW r \in Requests, SweepRead(r)
  PROVE  Inv'
<1> DEFINE days == {d \in Days : mark[d] = "none"}
           mine == [at |-> "sweep", days |-> days]
<1>1. /\ req' = [req EXCEPT ![r] = mine]
      /\ UNCHANGED <<leave, mark, reported, timetable, history>>
  BY DEF SweepRead
<1>2. req[r].at = "idle" /\ started' \in 0..MaxRequests
  BY Fresh DEF SweepRead
<1>3. mine \in Request /\ Knows(mine, leave)
  BY DEF Request, Knows, AtMarks, AtDays, AtDay
<1>4. mine.at \notin AtMarks \cup AtReports /\ req[r].at \notin AtMarks \cup AtReports
  BY <1>2 DEF AtMarks, AtReports
<1> HIDE DEF mine
<1> QED BY <1>1, <1>2, <1>3, <1>4, Quiet, ReadAction

LEMMA SweepCreateStep ==
  ASSUME Inv, NEW r \in Requests, SweepCreate(r)
  PROVE  Inv'
<1> DEFINE p == req[r]
           day == CHOOSE x \in p.days : \A y \in p.days : x <= y
           rest == p.days \ {day}
           between == {q \in Requests : req[q].at = "createMany" /\ day \in req[q].days}
           mine == IF mark[day] # "none" \/ rest = {} THEN Idle ELSE [p EXCEPT !.days = rest]
<1> HIDE DEF day
<1>1. /\ p.at = "sweep"
      /\ UNCHANGED <<leave, reported, timetable, started, withdrawn, unpresent, slots>>
      /\ req' = [req EXCEPT ![r] = mine]
      /\ mark' = [mark EXCEPT ![day] = IF mark[day] = "none" THEN "Unreported" ELSE mark[day]]
      /\ unmarked' = IF mark[day] = "none"
                     THEN unmarked \cup {<<req[q].leave, day>> : q \in between} ELSE unmarked
  BY DEF SweepCreate, Inv, Typed, TypeOK, day
<1>2. /\ p \in [at : {"sweep"}, days : SUBSET Days] /\ p.at \notin AtMarks \cup AtReports
      /\ p.at # "reset"
  BY <1>1, RequestAt DEF Inv, Typed, TypeOK, AtMarks, AtReports
<1>3. rest \in SUBSET Days
  BY <1>2
<1>4. mine \in Request /\ Knows(mine, leave) /\ mine.at \notin AtMarks \cup AtReports
  <2>1. CASE mine = Idle
    BY <2>1, IdleQuiet DEF AtMarks, AtReports
  <2>2. CASE mine # Idle
    <3>1. mine = [p EXCEPT !.days = rest]
      BY <2>2
    <3> HIDE DEF mine, rest
    <3>2. mine \in [at : {"sweep"}, days : SUBSET Days]
      BY <1>2, <1>3, <3>1
    <3> QED BY <3>2 DEF Request, Knows, AtMarks, AtReports, AtDays, AtDay
  <2> QED BY <2>1, <2>2
<1> HIDE DEF mine, rest
<1>5. /\ mark' \in [Days -> Mark] /\ \A d \in Days \ {day} : mark'[d] = mark[d]
      /\ day \in Days => mark'[day] = IF mark[day] = "none" THEN "Unreported" ELSE mark[day]
  BY <1>1 DEF Inv, Typed, TypeOK, Mark
<1>6. \A q \in between : req[q].leave \in LeaveId /\ day \in Days
  BY RequestAt DEF Inv, Typed, TypeOK
<1>7. /\ UNCHANGED <<leave, reported, timetable, slots>> /\ unmarked \subseteq unmarked'
      /\ withdrawn' = withdrawn /\ unpresent' = unpresent /\ started' \in 0..MaxRequests
      /\ unmarked' \subseteq LeaveId \X Days /\ withdrawn' \subseteq LeaveId
      /\ unpresent' \subseteq Days /\ \A l \in withdrawn' : leave[l].status # "none"
  <2>1. unmarked' \subseteq LeaveId \X Days
    BY <1>1, <1>6 DEF Inv, Typed, TypeOK
  <2> HIDE DEF between
  <2> QED BY <1>1, <2>1 DEF Inv, Typed, TypeOK
<1>8. \A l \in LeaveId, d \in Days : leave[l].status = "approved" /\ On(leave[l], d) =>
        \/ mark'[d] \in {"Leave-Approved", "Present"} \/ <<l, d>> \in unmarked'
        \/ Firm(mine, l, d, mark'[d])
        \/ /\ mark[d] \notin {"Leave-Approved", "Present"}
           /\ ~Firm(p, l, d, mark[d])
           /\ \A q \in Requests : Firm(req[q], l, d, mark[d]) => Firm(req[q], l, d, mark'[d])
  <2> SUFFICES ASSUME NEW l \in LeaveId, NEW d \in Days,
                      mark'[d] \notin {"Leave-Approved", "Present"}, <<l, d>> \notin unmarked'
               PROVE  /\ mark[d] \notin {"Leave-Approved", "Present"}
                      /\ ~Firm(p, l, d, mark[d])
                      /\ \A q \in Requests :
                           Firm(req[q], l, d, mark[d]) => Firm(req[q], l, d, mark'[d])
    OBVIOUS
  <2>1. mark[d] \notin {"Leave-Approved", "Present"} /\ ~Firm(p, l, d, mark[d])
    BY <1>2, <1>5, Quiet
  <2>2. CASE mark'[d] = mark[d]
    BY <2>1, <2>2
  <2>3. CASE mark'[d] # mark[d]
    <3>1. d = day /\ mark[day] = "none"
      BY <1>5, <2>3
    <3>2. \A q \in Requests : Firm(req[q], l, d, mark[d]) => req[q].at # "createMany"
      BY <1>1, <3>1 DEF Firm, AtDays
    <3> QED BY <2>1, <3>2 DEF Firm
  <2> QED BY <2>2, <2>3
<1>9. \A d \in Days : CoveredDay(timetable[d], d, reported) =>
        (mark[d] = "Present" \/ d \in unpresent \/ Presents(p, d, reported) =>
           mark'[d] = "Present" \/ d \in unpresent' \/ Presents(mine, d, reported))
  BY <1>2, <1>5, <1>7, Quiet
<1>10. Reports(mine, slots, reported) /\ \A l : ~Resets(p, l)
  BY <1>2, <1>4, Quiet
<1>11. \A d \in Days : /\ mark'[d] = "Leave-Approved" => mark[d] = "Leave-Approved"
                       /\ mark'[d] = "Present" => mark[d] = "Present"
  BY <1>5
<1>12. req' = [req EXCEPT ![r] = mine] /\ mark' \in [Days -> Mark] /\ mine.at \notin AtMarks
  BY <1>1, <1>4, <1>5
<1> HIDE DEF p, between
<1> QED BY <1>4, <1>7, <1>8, <1>9, <1>10, <1>11, <1>12, Action DEF p

LEMMA FailStep ==
  ASSUME Inv, NEW r \in Requests, Fail(r)
  PROVE  Inv'
<1> DEFINE p == req[r]
           lost == {k \in LeaveId \X Days : WillMark(r, k[1], k[2])}
<1>1. /\ req' = [req EXCEPT ![r] = Idle]
      /\ UNCHANGED <<leave, mark, reported, timetable, started, slots>>
      /\ unmarked' = unmarked \cup lost
      /\ withdrawn' = IF p.at = "reset" THEN withdrawn \cup {p.leave} ELSE withdrawn
      /\ unpresent' = IF p.at \in AtReports THEN unpresent \cup {p.day} ELSE unpresent
  BY DEF Fail, AtReports
<1>2. /\ p \in Request /\ Knows(p, leave)
      /\ p.at = "reset" => p.leave \in LeaveId /\ leave[p.leave].status # "none"
      /\ p.at \in AtReports => p.day \in Days
  BY RequestAt DEF Inv, Typed, TypeOK, Knows
<1>3. Idle \in Request /\ Knows(Idle, leave) /\ Idle.at \notin AtMarks \cup AtReports
  BY IdleQuiet DEF AtMarks, AtReports
<1>4. \A l \in LeaveId, d \in Days : On(leave[l], d) /\ Firm(p, l, d, mark[d]) =>
        <<l, d>> \in lost
  <2> SUFFICES ASSUME NEW l \in LeaveId, NEW d \in Days, On(leave[l], d),
                      Firm(p, l, d, mark[d])
               PROVE  WillMark(r, l, d)
    OBVIOUS
  <2>1. d \in DaysOf(l)
    BY LeavesOK DEF DaysOf, On, Days, Inv, Typed, TypeOK, Leave
  <2>2. p.at \in AtMarks /\ p.leave = l /\ (p.at \in AtDays => d \in p.days)
        /\ (p.at \in AtDay => d >= p.day)
    BY DEF Firm
  <2> QED BY <2>1, <2>2 DEF WillMark, AtMarks, AtDays, AtDay
<1> HIDE DEF lost
<1>5. lost \subseteq LeaveId \X Days
  BY DEF lost
<1>6. /\ UNCHANGED <<leave, reported, timetable, slots>> /\ mark' = mark
      /\ mark' \in [Days -> Mark] /\ started' \in 0..MaxRequests
      /\ unmarked \subseteq unmarked' /\ unmarked' \subseteq LeaveId \X Days
      /\ withdrawn' \subseteq LeaveId /\ unpresent' \subseteq Days
      /\ \A l \in withdrawn' : leave[l].status # "none"
  BY <1>1, <1>2, <1>5 DEF Inv, Typed, TypeOK
<1>7. \A l \in LeaveId, d \in Days : leave[l].status = "approved" /\ On(leave[l], d) =>
        \/ mark'[d] \in {"Leave-Approved", "Present"} \/ <<l, d>> \in unmarked'
        \/ Firm(Idle, l, d, mark'[d])
        \/ /\ mark[d] \notin {"Leave-Approved", "Present"}
           /\ ~Firm(p, l, d, mark[d])
           /\ \A q \in Requests : Firm(req[q], l, d, mark[d]) => Firm(req[q], l, d, mark'[d])
  BY <1>1, <1>4, <1>6
<1>8. \A d \in Days : CoveredDay(timetable[d], d, reported) =>
        (mark[d] = "Present" \/ d \in unpresent \/ Presents(p, d, reported) =>
           mark'[d] = "Present" \/ d \in unpresent' \/ Presents(Idle, d, reported))
  BY <1>1, <1>6 DEF Presents
<1>9. /\ Reports(Idle, slots, reported)
      /\ \A l : l \in withdrawn \/ Resets(p, l) => l \in withdrawn'
  BY <1>1, <1>3, Quiet DEF Resets
<1> HIDE DEF p
<1> QED BY <1>1, <1>3, <1>6, <1>7, <1>8, <1>9, Action DEF p

-----------------------------------------------------------------------------
\* The handlers that change leaves, reports or the timetable.
LEMMA ApplyCreateStep ==
  ASSUME Inv, NEW r \in Requests, ApplyCreate(r)
  PROVE  Inv'
<1> DEFINE p == req[r]
<1>1. PICK x \in LeaveId :
        /\ leave[x].status = "none"
        /\ leave' = [leave EXCEPT ![x] = [status |-> "pending", first |-> p.first,
                                          last |-> p.last]]
  BY DEF ApplyCreate
<1>2. /\ p.at = "apply" /\ req' = [req EXCEPT ![r] = Idle]
      /\ UNCHANGED <<mark, reported, timetable, started, unmarked, withdrawn, unpresent, slots>>
  BY DEF ApplyCreate, history
<1>3. p.first \in Days /\ p.last \in Days /\ p.first <= p.last
  BY <1>2, RequestAt DEF Inv, Typed, TypeOK, Knows
<1>4. p.at \notin AtMarks \cup AtReports \cup {"reset"}
      /\ Idle.at \notin AtMarks \cup AtReports \cup {"reset"}
  BY <1>2, IdleQuiet DEF AtMarks, AtReports
<1>5. /\ leave' \in [LeaveId -> Leave] /\ leave'[x].status = "pending"
      /\ leave'[x].first <= leave'[x].last
      /\ \A l \in LeaveId \ {x} : leave'[l] = leave[l]
  BY <1>1, <1>3 DEF Inv, Typed, TypeOK, Leave
<1>6. /\ req' \in [Requests -> Request] /\ req'[r] = Idle
      /\ \A q \in Requests \ {r} : req'[q] = req[q]
  BY <1>2, IdleQuiet DEF Inv, Typed, TypeOK
<1>7. \A q \in Requests : /\ req[q].at \in AtMarks \cup {"decide", "reset"} =>
                               req[q].leave \in LeaveId \ {x}
                          /\ Knows(req[q], leave)
  BY <1>1, RequestAt DEF Inv, Typed, TypeOK, Knows
<1>8. Typed'
  <2>1. \A q \in Requests : Knows(req[q], leave')
    BY <1>5, <1>7 DEF Knows, AtDays, AtDay, AtMarks
  <2>2. \A q \in Requests : Knows(req'[q], leave')
    BY <1>6, <2>1, IdleQuiet
  <2>3. TypeOK'
    BY <1>2, <1>5, <1>6 DEF Inv, Typed, TypeOK
  <2>4. \A l \in withdrawn' : leave'[l].status # "none"
    BY <1>2, <1>5 DEF Inv, Typed, TypeOK
  <2>5. \A l \in LeaveId : leave'[l].first <= leave'[l].last
    BY <1>5 DEF Inv, Typed
  <2> QED BY <2>2, <2>3, <2>4, <2>5 DEF Typed
<1>9. Marked'
  BY <1>2, <1>4, <1>5, <1>6, Quiet DEF Inv, Marked, MarkedDay
<1>10. MarksBacked'
  <2>1. \A l \in LeaveId : Backed(l, leave, withdrawn, req) =>
          l # x /\ Backed(l, leave', withdrawn', req')
    BY <1>1, <1>2, <1>4, <1>5, <1>6, <1>7 DEF Backed, Resets, Inv, Typed
  <2>2. \A d \in Days : mark'[d] = "Leave-Approved" =>
          \E l \in LeaveId : On(leave'[l], d) /\ Backed(l, leave', withdrawn', req')
    BY <1>2, <1>5, <2>1 DEF Inv, MarksBacked
  <2>3. \A q \in Requests : req'[q].at \in AtMarks =>
          Backed(req'[q].leave, leave', withdrawn', req')
    BY <1>4, <1>6, <1>7, <2>1 DEF Inv, MarksBacked
  <2> QED BY ONLY <2>2, <2>3 DEF MarksBacked, Days
<1>11. Presented'
  BY <1>2, <1>4, <1>6, Quiet DEF Inv, Presented, PresentDay, CoveredDay, Presents
<1>12. PresentsEarned'
  <2>1. \A q \in Requests : Reports(req'[q], slots', reported')
    BY <1>2, <1>4, <1>6, Quiet DEF Inv, PresentsEarned
  <2> QED BY <1>2, <2>1 DEF Inv, PresentsEarned
<1> QED BY <1>8, <1>9, <1>10, <1>11, <1>12 DEF Inv

LEMMA DecideWriteStep ==
  ASSUME Inv, NEW r \in Requests, DecideWrite(r)
  PROVE  Inv'
<1> DEFINE p == req[r]
           x == p.leave
           next == Decided(x, p.by, p.status)
<1>1. /\ p.at = "decide" /\ leave' = [leave EXCEPT ![x].status = p.status]
      /\ req' = [req EXCEPT ![r] = next]
      /\ unmarked' = unmarked \ (IF p.status = "approved" THEN {x} \X Days ELSE {})
      /\ withdrawn' = IF leave[x].status = "approved" /\ next = Idle
                      THEN withdrawn \cup {x} ELSE withdrawn
      /\ UNCHANGED <<mark, reported, timetable, started, unpresent, slots>>
  BY DEF DecideWrite
<1>2. /\ x \in LeaveId /\ p.by \in {"admin", "patch"}
      /\ p.status \in {"pending", "approved", "rejected"}
      /\ leave[x].status # "none" /\ leave[x] \in Leave /\ leave[x].first <= leave[x].last
      /\ p.at \notin AtMarks \cup AtReports \cup {"reset"}
  BY <1>1, RequestAt DEF Inv, Typed, TypeOK, Knows, AtMarks, AtReports
<1>3. /\ leave' \in [LeaveId -> Leave] /\ leave'[x].status = p.status
      /\ leave'[x].first = leave[x].first /\ leave'[x].last = leave[x].last
      /\ \A l \in LeaveId \ {x} : leave'[l] = leave[l]
  BY <1>1, <1>2 DEF Inv, Typed, TypeOK, Leave
<1>4. \A l \in LeaveId, d \in Days : On(leave'[l], d) <=> On(leave[l], d)
  BY <1>3 DEF On
<1>5. leave[x].first \in Days /\ On(leave[x], leave[x].first)
      /\ \A d \in Days : On(leave[x], d) => d >= leave[x].first
  BY <1>2, LeavesOK DEF On, Leave, Days
<1>6. /\ next \in Request /\ next.at \notin AtReports
      /\ p.status = "approved" => next.at \in {"read", "find"} /\ next.leave = x
                                  /\ (next.at = "find" => next.day = leave[x].first)
      /\ p.status # "approved" => next = Idle \/ Resets(next, x)
      /\ next.at \in AtMarks => p.status = "approved" /\ next.leave = x
      /\ next.at \in {"read", "find", "reset", "idle"}
      /\ next.at \in {"read", "find", "reset"} => next.leave = x
  BY <1>2, <1>5 DEF Decided, Request, LeaveRequest, Idle, Resets, AtMarks, AtReports
<1>7. Knows(next, leave')
  BY <1>2, <1>3, <1>4, <1>5, <1>6 DEF Knows, AtMarks, AtDays, AtDay
<1> HIDE DEF next
<1>8. /\ req' \in [Requests -> Request] /\ req'[r] = next
      /\ \A q \in Requests \ {r} : req'[q] = req[q]
  BY <1>1, <1>6 DEF Inv, Typed, TypeOK
<1>9. Typed'
  <2>1. \A q \in Requests : Knows(req[q], leave')
    <3> SUFFICES ASSUME NEW q \in Requests PROVE Knows(req[q], leave')
      OBVIOUS
    <3>1. Knows(req[q], leave) /\ req[q] \in Request
      BY DEF Inv, Typed, TypeOK
    <3>2. \A l \in LeaveId : leave[l].status # "none" => leave'[l].status # "none"
      BY <1>2, <1>3
    <3>3. req[q].at \in AtMarks \cup {"decide", "reset"} => req[q].leave \in LeaveId
      BY <3>1, RequestAt
    <3>4. req[q].at \in AtDays => req[q].days \subseteq Days
      BY <3>1, RequestAt DEF AtDays
    <3>5. req[q].at \in AtDay => req[q].day \in Days
      BY <3>1, RequestAt
    <3> QED BY <1>4, <3>1, <3>2, <3>3, <3>4, <3>5 DEF Knows, AtMarks, AtDays, AtDay
  <2>2. \A q \in Requests : Knows(req'[q], leave')
    BY <1>7, <1>8, <2>1
  <2>3. TypeOK'
    BY <1>1, <1>2, <1>3, <1>8 DEF Inv, Typed, TypeOK
  <2>4. \A l \in withdrawn' : leave'[l].status # "none"
    BY <1>1, <1>2, <1>3 DEF Inv, Typed, TypeOK
  <2>5. \A l \in LeaveId : leave'[l].first <= leave'[l].last
    BY <1>2, <1>3 DEF Inv, Typed
  <2> QED BY <2>2, <2>3, <2>4, <2>5 DEF Typed
<1>10. Marked'
  <2> SUFFICES ASSUME NEW l \in LeaveId, NEW d \in Days, leave'[l].status = "approved",
                      On(leave'[l], d)
               PROVE  \/ mark[d] \in {"Leave-Approved", "Present"} \/ <<l, d>> \in unmarked'
                      \/ \E q \in Requests : Firm(req'[q], l, d, mark[d])
    BY <1>1 DEF Marked, MarkedDay
  <2>1. CASE l = x
    <3>1. Firm(next, l, d, mark[d])
      BY <1>3, <1>4, <1>5, <1>6, <2>1 DEF Firm, AtMarks, AtDays, AtDay
    <3> QED BY <1>8, <3>1
  <2>2. CASE l # x
    <3>1. leave[l].status = "approved" /\ On(leave[l], d)
      BY <1>3, <1>4, <2>2
    <3>2. MarkedDay(l, d)
      BY <3>1 DEF Inv, Marked
    <3>3. \A q \in Requests : Firm(req[q], l, d, mark[d]) => Firm(req'[q], l, d, mark[d])
      BY <1>2, <1>8, Quiet
    <3>4. <<l, d>> \in unmarked => <<l, d>> \in unmarked'
      BY <1>1, <2>2
    <3> QED BY <3>2, <3>3, <3>4 DEF MarkedDay
  <2> QED BY <2>1, <2>2
<1>11. MarksBacked'
  <2>1. \A l \in LeaveId : Backed(l, leave, withdrawn, req) =>
          Backed(l, leave', withdrawn', req')
    <3> SUFFICES ASSUME NEW l \in LeaveId, Backed(l, leave, withdrawn, req)
                 PROVE  Backed(l, leave', withdrawn', req')
      OBVIOUS
    <3>1. CASE leave[l].status = "approved"
      <4>1. CASE l = x /\ p.status # "approved"
        BY <1>1, <1>6, <1>8, <3>1, <4>1 DEF Backed
      <4>2. CASE ~(l = x /\ p.status # "approved")
        BY <1>3, <3>1, <4>2 DEF Backed
      <4> QED BY <4>1, <4>2
    <3>2. CASE l \in withdrawn
      BY <1>1, <3>2 DEF Backed
    <3>3. ASSUME NEW q \in Requests, Resets(req[q], l)
          PROVE  Backed(l, leave', withdrawn', req')
      BY <1>2, <1>8, <3>3, Quiet DEF Backed
    <3> QED BY <3>1, <3>2, <3>3 DEF Backed
  <2>2. \A d \in Days : mark'[d] = "Leave-Approved" =>
          \E l \in LeaveId : On(leave'[l], d) /\ Backed(l, leave', withdrawn', req')
    BY <1>1, <1>4, <2>1 DEF Inv, MarksBacked
  <2>3. \A q \in Requests : req'[q].at \in AtMarks =>
          Backed(req'[q].leave, leave', withdrawn', req')
    <3>1. \A q \in Requests : req[q].at \in AtMarks => req[q].leave \in LeaveId
      BY RequestAt DEF Inv, Typed, TypeOK
    <3>2. next.at \in AtMarks => Backed(next.leave, leave', withdrawn', req')
      BY <1>3, <1>6 DEF Backed
    <3> QED BY <1>8, <2>1, <3>1, <3>2 DEF Inv, MarksBacked
  <2> QED BY ONLY <2>2, <2>3 DEF MarksBacked, Days
<1>12. Presented'
  BY <1>1, <1>2, <1>6, <1>8, Quiet DEF Inv, Presented, PresentDay, CoveredDay, Presents
<1>13. PresentsEarned'
  <2>1. \A q \in Requests : Reports(req'[q], slots', reported')
    BY <1>1, <1>6, <1>8, Quiet DEF Inv, PresentsEarned
  <2> QED BY <1>1, <2>1 DEF Inv, PresentsEarned
<1> QED BY <1>9, <1>10, <1>11, <1>12, <1>13 DEF Inv

LEMMA ReportInsertStep ==
  ASSUME Inv, NEW r \in Requests, ReportInsert(r)
  PROVE  Inv'
<1> DEFINE p == req[r]
           report == <<p.day, p.period>>
           mine == IF report \in reported THEN Idle ELSE [p EXCEPT !.at = "schedule"]
<1>1. /\ p.at = "insert" /\ req' = [req EXCEPT ![r] = mine]
      /\ reported' = reported \cup {report}
      /\ UNCHANGED <<leave, mark, timetable, started, unmarked, withdrawn, unpresent, slots>>
  BY DEF ReportInsert, history, Inv, Typed, TypeOK
<1>2. /\ p \in ReportRequest /\ p.day \in Days /\ p.period \in Periods
      /\ p.at \notin AtMarks \cup AtReports \cup {"reset"}
  BY <1>1, RequestAt DEF Inv, Typed, TypeOK, AtMarks, AtReports
<1>3. /\ mine \in Request /\ mine.at \notin AtMarks \cup {"reset"} /\ Knows(mine, leave)
      /\ Reports(mine, slots, reported')
      /\ report \notin reported => mine.at = "schedule" /\ mine.day = p.day
  <2>1. CASE report \in reported
    BY <2>1, IdleQuiet, Quiet DEF AtMarks, AtReports
  <2>2. CASE report \notin reported
    <3>1. mine = [p EXCEPT !.at = "schedule"]
      BY <2>2
    <3>2. mine \in ReportRequest /\ mine.at = "schedule" /\ mine.day = p.day
          /\ mine.period = p.period
      BY <1>2, <3>1 DEF ReportRequest
    <3> HIDE DEF mine
    <3>3. Reports(mine, slots, reported')
      BY <1>1, <3>2 DEF Reports
    <3> QED BY <3>2, <3>3, ReportGoesOn
  <2> QED BY <2>1, <2>2
<1> HIDE DEF mine
<1>4. /\ req' \in [Requests -> Request] /\ req'[r] = mine
      /\ \A q \in Requests \ {r} : req'[q] = req[q]
  BY <1>1, <1>3 DEF Inv, Typed, TypeOK
<1>5. Typed'
  <2>1. reported' \subseteq Days \X Periods
    BY <1>1, <1>2 DEF Inv, Typed, TypeOK
  <2>2. TypeOK'
    BY <1>1, <1>4, <2>1 DEF Inv, Typed, TypeOK
  <2>3. \A q \in Requests : Knows(req'[q], leave')
    BY <1>1, <1>3, <1>4 DEF Inv, Typed
  <2> QED BY <1>1, <2>2, <2>3 DEF Inv, Typed
<1>6. Marked'
  BY <1>1, <1>2, <1>4, Quiet DEF Inv, Marked, MarkedDay
<1>7. MarksBacked'
  <2>1. \A l \in LeaveId : Backed(l, leave, withdrawn, req) =>
          Backed(l, leave', withdrawn', req')
    BY <1>1, <1>2, <1>4, Quiet DEF Backed
  <2>2. \A d \in Days : mark'[d] = "Leave-Approved" =>
          \E l \in LeaveId : On(leave'[l], d) /\ Backed(l, leave', withdrawn', req')
    BY <1>1, <2>1 DEF Inv, MarksBacked
  <2>3. \A q \in Requests : req[q].at \in AtMarks => req[q].leave \in LeaveId
    BY RequestAt DEF Inv, Typed, TypeOK
  <2>4. \A q \in Requests : req'[q].at \in AtMarks =>
          Backed(req'[q].leave, leave', withdrawn', req')
    BY <1>3, <1>4, <2>1, <2>3 DEF Inv, MarksBacked
  <2> QED BY ONLY <2>2, <2>4 DEF MarksBacked, Days
<1>8. Presented'
  <2> SUFFICES ASSUME NEW d \in Days, CoveredDay(timetable[d], d, reported')
               PROVE  \/ mark[d] = "Present" \/ d \in unpresent
                      \/ \E q \in Requests : Presents(req'[q], d, reported')
    BY <1>1 DEF Presented, PresentDay
  <2>1. CASE CoveredDay(timetable[d], d, reported)
    <3>1. PresentDay(d)
      BY <2>1 DEF Inv, Presented
    <3>2. \A q \in Requests : Presents(req[q], d, reported) => Presents(req'[q], d, reported')
      BY <1>1, <1>2, <1>4 DEF Presents
    <3> QED BY <3>1, <3>2 DEF PresentDay
  <2>2. CASE ~CoveredDay(timetable[d], d, reported)
    <3>1. d = p.day /\ report \notin reported
      BY <1>1, <1>2, <2>2 DEF CoveredDay
    <3>2. Presents(mine, d, reported')
      BY <1>3, <3>1 DEF Presents, AtReports
    <3> QED BY <1>4, <3>2
  <2> QED BY <2>1, <2>2
<1>9. PresentsEarned'
  <2>1. \A d, tables : Earned(d, tables, reported) => Earned(d, tables, reported')
    BY <1>1 DEF Earned, CoveredDay
  <2>2. \A q \in Requests : Reports(req'[q], slots, reported')
    BY <1>1, <1>3, <1>4, <2>1 DEF Inv, PresentsEarned, Reports
  <2> QED BY <1>1, <2>1, <2>2 DEF Inv, PresentsEarned
<1> QED BY <1>5, <1>6, <1>7, <1>8, <1>9 DEF Inv

LEMMA SetTimetableStep ==
  ASSUME Inv, NEW r \in Requests, NEW x \in Days, NEW periods \in SUBSET Periods,
         SetTimetable(r, x, periods)
  PROVE  Inv'
<1>1. /\ timetable' = [timetable EXCEPT ![x] = periods]
      /\ slots' = [slots EXCEPT ![x] = @ \cup {periods}]
      /\ unpresent' = IF Covered(timetable', x) /\ ~Covered(timetable, x)
                      THEN unpresent \cup {x} ELSE unpresent
      /\ UNCHANGED <<leave, mark, reported, req, unmarked, withdrawn>>
  BY DEF SetTimetable
<1>2. started' \in 0..MaxRequests
  BY Fresh DEF SetTimetable
<1>3. /\ timetable' \in [Days -> SUBSET Periods] /\ slots' \in [Days -> SUBSET SUBSET Periods]
      /\ timetable'[x] = periods /\ periods \in slots'[x]
      /\ \A d \in Days \ {x} : timetable'[d] = timetable[d]
      /\ \A d \in Days : slots[d] \subseteq slots'[d]
  BY <1>1 DEF Inv, Typed, TypeOK
<1>4. \A d \in Days : CoveredDay(timetable'[d], d, reported) /\ ~CoveredDay(timetable[d], d, reported)
        => d \in unpresent'
  <2>1. \A d \in Days : /\ CoveredDay(timetable[d], d, reported) <=> Covered(timetable, d)
                        /\ CoveredDay(timetable'[d], d, reported) <=> Covered(timetable', d)
    BY <1>1, <1>3 DEF CoveredDay, Covered, Reported, Inv, Typed, TypeOK
  <2> QED BY <1>1, <1>3, <2>1
<1>5. unpresent \subseteq unpresent' /\ unpresent' \subseteq Days
  BY <1>1 DEF Inv, Typed, TypeOK
<1>6. Typed'
  BY <1>1, <1>2, <1>3, <1>5 DEF Inv, Typed, TypeOK
<1>7. Marked'
  BY <1>1 DEF Inv, Marked, MarkedDay
<1>8. MarksBacked'
  BY <1>1 DEF Inv, MarksBacked
<1>9. Presented'
  BY <1>1, <1>4, <1>5 DEF Inv, Presented, PresentDay
<1>10. PresentsEarned'
  <2>1. \A d \in Days : \A rows : Earned(d, slots[d], rows) => Earned(d, slots'[d], rows)
    BY <1>3 DEF Earned
  <2>2. \A q \in Requests : req[q].at \in AtReports => req[q].day \in Days
    BY RequestAt DEF Inv, Typed, TypeOK
  <2>3. \A q \in Requests : Reports(req[q], slots', reported)
    BY <1>3, <2>1, <2>2 DEF Inv, PresentsEarned, Reports, AtReports
  <2>4. \A d \in Days : timetable'[d] \in slots'[d]
    BY <1>3 DEF Inv, PresentsEarned
  <2> QED BY <1>1, <2>1, <2>3, <2>4 DEF Inv, PresentsEarned
<1> QED BY <1>6, <1>7, <1>8, <1>9, <1>10 DEF Inv

-----------------------------------------------------------------------------
LEMMA InvInit ==
  ASSUME Init
  PROVE  Inv
<1>1. \A r \in Requests : req[r] = Idle
  BY DEF Init
<1>2. Typed
  <2>1. leave \in [LeaveId -> Leave] /\ \A l \in LeaveId : leave[l].first <= leave[l].last
    BY LeavesOK DEF Init, Leave, Days
  <2>2. timetable \in [Days -> SUBSET Periods] /\ slots \in [Days -> SUBSET SUBSET Periods]
    BY DEF Init
  <2>3. TypeOK
    BY <2>1, <2>2, LeavesOK, IdleQuiet DEF Init, TypeOK, Mark
  <2> QED BY <1>1, <2>1, <2>3, IdleQuiet DEF Init, Typed
<1>3. Marked
  BY DEF Init, Marked
<1>4. MarksBacked
  BY <1>1, IdleQuiet DEF Init, MarksBacked, AtMarks
<1>5. Presented
  BY DEF Init, Presented, CoveredDay
<1>6. PresentsEarned
  <2>1. Idle.at \notin AtReports
    BY IdleQuiet DEF AtReports
  <2> QED BY <1>1, <2>1, Quiet DEF Init, PresentsEarned
<1> QED BY <1>2, <1>3, <1>4, <1>5, <1>6 DEF Inv

LEMMA InvStep ==
  ASSUME Inv, [Next]_vars
  PROVE  Inv'
<1>1. ASSUME NEW r \in Requests, LeaveStep(r)
      PROVE  Inv'
  BY <1>1, ApplyFindStep, ApplyCreateStep, DecideReadStep, DecideWriteStep, LeaveReadStep,
     LeaveUpdateStep, LeaveCreateStep, LeaveResetStep, PatchFindStep, PatchUpsertStep
     DEF LeaveStep
<1>2. ASSUME NEW r \in Requests, ReportStep(r)
      PROVE  Inv'
  BY <1>2, ReportFindStep, ReportInsertStep, ReportScheduleStep, ReportCountStep,
     ReportPresentStep, SetTimetableStep DEF ReportStep
<1>3. CASE UNCHANGED vars
  <2>1. UNCHANGED <<leave, mark, reported, timetable, req, started, unmarked, withdrawn,
                    unpresent, slots>>
    BY <1>3 DEF vars
  <2>2. Typed'
    BY <2>1 DEF Inv, Typed, TypeOK
  <2>3. Marked'
    BY <2>1 DEF Inv, Marked, MarkedDay
  <2>4. MarksBacked' /\ Presented' /\ PresentsEarned'
    BY <2>1 DEF Inv, MarksBacked, Presented, PresentDay, PresentsEarned
  <2> QED BY <2>2, <2>3, <2>4 DEF Inv
<1> QED BY <1>1, <1>2, <1>3, SweepReadStep, SweepCreateStep, FailStep DEF Next

\* The invariant: every handler and every failure keeps what approvals and
\* reports in flight are still to write.
THEOREM InvHolds == Spec => []Inv
<1>1. Init => Inv
  BY InvInit
<1>2. Inv /\ [Next]_vars => Inv'
  BY InvStep
<1> QED BY <1>1, <1>2, PTL DEF Spec

\* The leaves, the attendance rows, the reports, the timetable, the requests in
\* flight and the history keep their types.
THEOREM TypeCorrect == Spec => []TypeOK
<1>1. Inv => TypeOK
  BY DEF Inv, Typed
<1> QED BY <1>1, InvHolds, PTL

LEMMA DaysAre ==
  ASSUME Inv, NEW l \in LeaveId
  PROVE  \A d : d \in DaysOf(l) <=> d \in Days /\ On(leave[l], d)
BY LeavesOK DEF DaysOf, On, Days, Inv, Typed, TypeOK, Leave

LEMMA FirmMarks ==
  ASSUME NEW r \in Requests, NEW l, NEW d \in DaysOf(l), NEW m, Firm(req[r], l, d, m)
  PROVE  WillMark(r, l, d)
BY DEF Firm, WillMark, AtMarks, AtDays, AtDay

LEMMA LeavesRight ==
  ASSUME Inv
  PROVE  LeaveDaysRight
<1>1. ApprovedDaysMarked
  <2> SUFFICES ASSUME NEW l \in LeaveId, leave[l].status = "approved", NEW d \in DaysOf(l)
               PROVE  \/ mark[d] \in {"Leave-Approved", "Present"} \/ <<l, d>> \in unmarked
                      \/ \E r \in Requests : WillMark(r, l, d)
    BY DEF ApprovedDaysMarked
  <2>1. MarkedDay(l, d)
    BY DaysAre DEF Inv, Marked
  <2> QED BY <2>1, FirmMarks DEF MarkedDay
<1>2. LeaveDaysBacked
  <2> SUFFICES ASSUME NEW d \in Days, mark[d] = "Leave-Approved"
               PROVE  \E l \in LeaveId :
                        /\ d \in DaysOf(l)
                        /\ \/ leave[l].status = "approved" \/ l \in withdrawn
                           \/ \E r \in Requests : req[r].at = "reset" /\ req[r].leave = l
    BY DEF LeaveDaysBacked
  <2>1. PICK l \in LeaveId : On(leave[l], d) /\ Backed(l, leave, withdrawn, req)
    BY DEF Inv, MarksBacked
  <2> QED BY <2>1, DaysAre DEF Backed, Resets
<1> QED BY <1>1, <1>2 DEF LeaveDaysRight

LEMMA PresentsRight ==
  ASSUME Inv
  PROVE  PresentDaysRight
<1>0. \A d \in Days : /\ timetable[d] \subseteq Periods
                      /\ \A periods \in slots[d] : periods \subseteq Periods
  BY DEF Inv, Typed, TypeOK
<1>1. \A d \in Days, periods \in SUBSET Periods :
        CoveredDay(periods, d, reported) <=> Reported(d) # {} /\ periods \subseteq Reported(d)
  BY DEF CoveredDay, Reported
<1>2. ReportedDaysPresent
  <2> SUFFICES ASSUME NEW d \in Days, Covered(timetable, d)
               PROVE  \/ mark[d] = "Present" \/ d \in unpresent
                      \/ \E r \in Requests :
                           /\ req[r].at \in {"schedule", "count", "present"} /\ req[r].day = d
                           /\ req[r].at = "count" => req[r].scheduled \subseteq Reported(d)
    BY DEF ReportedDaysPresent
  <2>1. PresentDay(d)
    BY <1>0, <1>1 DEF Covered, Inv, Presented
  <2>2. ASSUME NEW r \in Requests, Presents(req[r], d, reported)
        PROVE  /\ req[r].at \in {"schedule", "count", "present"} /\ req[r].day = d
               /\ req[r].at = "count" => req[r].scheduled \subseteq Reported(d)
    <3>1. req[r] \in ReportRequest
      BY <2>2, RequestAt DEF Presents, Inv, Typed, TypeOK
    <3>2. req[r].scheduled \subseteq Periods
      BY <3>1 DEF ReportRequest
    <3> QED BY <2>2, <3>2 DEF Presents, AtReports, Reported
  <2> QED BY <2>1, <2>2 DEF PresentDay
<1>3. PresentEarned
  <2> SUFFICES ASSUME NEW d \in Days, mark[d] = "Present"
               PROVE  Reported(d) # {} /\ \E periods \in slots[d] : periods \subseteq Reported(d)
    BY DEF PresentEarned
  <2>1. PICK periods \in slots[d] : CoveredDay(periods, d, reported)
    BY DEF Inv, PresentsEarned, Earned
  <2> QED BY <1>0, <1>1, <2>1
<1> QED BY <1>2, <1>3 DEF PresentDaysRight

\* However approvals, rejections and markMissing overlap, the days marked
\* Leave-Approved are those of the approved leaves, in both directions, but for
\* the days and leaves the history names.
THEOREM LeaveDaysAreRight == Spec => []LeaveDaysRight
BY LeavesRight, InvHolds, PTL

\* However reports and changes of the timetable overlap, the days marked Present
\* are those whose periods are all reported, in both directions.
THEOREM PresentDaysAreRight == Spec => []PresentDaysRight
BY PresentsRight, InvHolds, PTL

\* Teacher, administrator and dashboard read the same of every settled day,
\* whatever handlers overlapped before.
THEOREM FiguresDoAgree == Spec => []FiguresAgree
<1>1. ASSUME Inv PROVE FiguresAgree
  <2> SUFFICES ASSUME NEW d \in Days, ~Unsettled(d)
               PROVE  /\ \A status \in TeacherToday(d) : AdminToday(d) = Said(status)
                      /\ TeacherMonth(d) = AdminMonth(d)
                      /\ (DashboardMonth(d) = {}) = (AdminMonth(d) = {})
                      /\ ("present" \in DashboardMonth(d)) = ("present" \in AdminMonth(d))
    BY DEF FiguresAgree
  <2>1. mark[d] \in Mark /\ \A l \in LeaveId : leave[l] \in Leave
    BY <1>1 DEF Inv, Typed, TypeOK
  <2>2. LeaveDaysRight /\ PresentDaysRight
    BY <1>1, LeavesRight, PresentsRight
  <2>3. ApprovedOn(d) => mark[d] \in {"Leave-Approved", "Present"}
    BY <2>2 DEF LeaveDaysRight, ApprovedDaysMarked, ApprovedOn, LeavesOn, Unsettled
  <2>4. mark[d] = "Leave-Approved" => ApprovedOn(d)
    BY <2>2 DEF LeaveDaysRight, LeaveDaysBacked, ApprovedOn, LeavesOn, Unsettled
  <2>5. Covered(timetable, d) => mark[d] = "Present"
    BY <2>2 DEF PresentDaysRight, ReportedDaysPresent, Unsettled
  <2>6. \A status \in TeacherToday(d) : AdminToday(d) = Said(status)
    <3>1. CASE mark[d] # "none"
      BY <2>1, <2>3, <3>1 DEF TeacherToday, AdminToday, Said, Mark
    <3>2. CASE mark[d] = "none"
      <4>1. AdminToday(d) = "Not Marked"
        BY <2>3, <3>2 DEF AdminToday
      <4>2. \A l \in LeavesOn(d) : leave[l].status \in {"pending", "rejected"}
        BY <2>1, <2>3, <3>2 DEF LeavesOn, ApprovedOn, Leave
      <4>3. \A l \in LeavesOn(d) : LeaveStatus(leave[l].status) \in {"Leave-Rejected", "Pending"}
        BY <4>2 DEF LeaveStatus
      <4>4. ~(timetable[d] # {} /\ timetable[d] \subseteq Reported(d))
        BY <2>5, <3>2 DEF Covered
      <4>5. TeacherToday(d) \subseteq {"Leave-Rejected", "Pending", "Unreported"}
        BY <3>2, <4>3, <4>4 DEF TeacherToday
      <4> QED BY <4>1, <4>5 DEF Said
    <3> QED BY <3>1, <3>2
  <2>7. TeacherMonth(d) = AdminMonth(d)
    BY <2>1, <2>3 DEF TeacherMonth, AdminMonth, Mark
  <2>8. /\ (DashboardMonth(d) = {}) = (AdminMonth(d) = {})
        /\ ("present" \in DashboardMonth(d)) = ("present" \in AdminMonth(d))
    BY <2>1, <2>3, <2>4 DEF DashboardMonth, AdminMonth, Mark
  <2> QED BY <2>6, <2>7, <2>8
<1> QED BY <1>1, InvHolds, PTL

\* No step takes Present away but the write of PATCH leaves/:id after its read.
THEOREM PresentIsKept == Spec => PresentKept
<1> DEFINE Kept == \A d \in Days : mark[d] = "Present" /\ mark'[d] # "Present" =>
                     \E r \in Requests : req[r].at = "upsert" /\ req[r].day = d
<1>1. ASSUME Inv, [Next]_vars PROVE [Kept]_vars
  <2>1. SUFFICES ASSUME Next PROVE Kept
    BY <1>1
  <2>2. mark \in [Days -> Mark]
    BY <1>1 DEF Inv, Typed, TypeOK
  <2>3. PICK r \in Requests :
          LeaveStep(r) \/ ReportStep(r) \/ SweepRead(r) \/ SweepCreate(r) \/ Fail(r)
    BY <2>1 DEF Next
  <2>4. CASE PatchUpsert(r)
    <3>1. mark' = [mark EXCEPT ![req[r].day] = "Leave-Approved"] /\ req[r].at = "upsert"
      BY <2>4 DEF PatchUpsert
    <3> QED BY <2>2, <3>1
  <2>5. CASE LeaveUpdate(r) \/ LeaveCreate(r)
    BY <2>2, <2>5 DEF LeaveUpdate, LeaveCreate
  <2>6. CASE LeaveReset(r)
    BY <2>2, <2>6 DEF LeaveReset
  <2>7. CASE ReportPresent(r)
    BY <2>2, <2>7 DEF ReportPresent
  <2>8. CASE SweepCreate(r)
    BY <2>2, <2>8 DEF SweepCreate
  <2>9. CASE mark' = mark
    BY <2>9
  <2> QED BY <2>3, <2>4, <2>5, <2>6, <2>7, <2>8, <2>9
          DEF LeaveStep, ReportStep, ApplyFind, ApplyCreate, DecideRead, DecideWrite, LeaveRead,
              PatchFind, ReportFind, ReportInsert, ReportSchedule, ReportCount, SetTimetable,
              SweepRead, Fail
<1> QED BY <1>1, InvHolds, PTL DEF Spec, PresentKept
=============================================================================
