----------------------- MODULE TeacherSections_proofs -----------------------
(***************************************************************************)
(* The timetable and the sections of teachers, proved for any number of    *)
(* teachers, rooms, schools and requests in flight.  What the two checks   *)
(* promise is not inductive: a request past its check must know of every   *)
(* conflicting row that was written since.                                 *)
(*                                                                         *)
(*   DoubleBookingsOverlapped  needs PastCheck: a booking about to be      *)
(*                             written conflicts with a class only if      *)
(*                             something was written after its check;      *)
(*   OneTeacherPerSection      needs PassedKnown: a section that a request *)
(*                             found free and that another teacher has is  *)
(*                             one it was passed on, and SectionsChecked:  *)
(*                             what it still gives it has checked;         *)
(*   TeachersWhole             needs Kept: what an edit that nobody        *)
(*                             overlapped has left to drop and has linked; *)
(*   EditsKept                 needs AsRead: what a booking nobody wrote   *)
(*                             past has read of its class is so still.     *)
(***************************************************************************)
EXTENDS TeacherSections, FiniteSetTheorems, TLAPS

Booked == \A b \in Bookers : booking[b].at # "idle" => booking[b].class \in Class

PastCheck ==
    \A b \in Bookers : booking[b].at = "write" =>
        \A c \in DOMAIN classes :
            Conflicts(c, booking[b]) => booking[b].class.raced \/ classes[c].raced

TimetableInv == TimetableTypeOK /\ Booked /\ PastCheck /\ DoubleBookingsOverlapped

-----------------------------------------------------------------------------
LEMMA IdleType == Idle \in Booking /\ Idle.at = "idle"
BY TimetableBounds DEF Idle, Booking

LEMMA AfterRoomType ==
  ASSUME NEW q \in Booking, q.class \in Class
  PROVE  /\ AfterRoom(q) \in Booking
         /\ AfterRoom(q).class \in Class
         /\ AfterRoom(q).at = "write" =>
              AfterRoom(q).class.teacher = None /\ AfterRoom(q).class.room = None
BY DEF AfterRoom, Booking, Class

LEMMA AfterPeriodType ==
  ASSUME NEW q \in Booking, q.class \in Class
  PROVE  /\ AfterPeriod(q) \in Booking
         /\ AfterPeriod(q).class \in Class
         /\ AfterPeriod(q).at = "write" =>
              AfterPeriod(q).class.teacher = None /\ AfterPeriod(q).class.room = None
<1>1. [q EXCEPT !.at = "room"] \in Booking /\ [q EXCEPT !.at = "room"].class = q.class
      /\ [q EXCEPT !.at = "room"].at = "room"
  BY DEF Booking
<1> QED
  BY <1>1, AfterRoomType DEF AfterPeriod

\* A class of nobody in no room conflicts with none.
LEMMA NobodyFits ==
  ASSUME NEW q, q.class.teacher = None, q.class.room = None, NEW c
  PROVE  ~Conflicts(c, q)
BY DEF Conflicts, SamePlace

\* A slot that becomes a booking that conflicts with nothing, when written, and
\* classes that stay.
LEMMA GoesKeeps ==
  ASSUME TimetableInv, NEW b \in Bookers, NEW q \in Booking, Goes(b, q),
         q.at # "idle" => q.class \in Class,
         q.at = "write" => \A c \in DOMAIN classes : ~Conflicts(c, q),
         UNCHANGED classes
  PROVE  /\ booking' \in [Bookers -> Booking]
         /\ Booked' /\ PastCheck' /\ DoubleBookingsOverlapped'
<1>1. booking' \in [Bookers -> Booking]
  BY DEF TimetableInv, TimetableTypeOK, Goes
<1>2. \A o \in Bookers : booking'[o] = IF o = b THEN q ELSE booking[o]
  BY DEF TimetableInv, TimetableTypeOK, Goes
<1>3. Booked'
  BY <1>2 DEF TimetableInv, Booked
<1>4. PastCheck'
  BY <1>2 DEF TimetableInv, PastCheck, Conflicts, Live
<1>5. DoubleBookingsOverlapped'
  BY DEF TimetableInv, DoubleBookingsOverlapped, Live
<1> QED BY <1>1, <1>3, <1>4, <1>5

LEMMA CountsType ==
  ASSUME TimetableTypeOK, Counts
  PROVE  started' \in 0..MaxStarted
BY TimetableBounds DEF TimetableTypeOK, Counts

LEMMA PastType ==
  ASSUME NEW q \in Booking, q.class \in Class
  PROVE  /\ [q EXCEPT !.stale = TRUE, !.class.raced = TRUE] \in Booking
         /\ [q EXCEPT !.stale = TRUE, !.class.raced = FALSE] \in Booking
         /\ [q EXCEPT !.stale = TRUE, !.class.raced = TRUE].class \in Class
         /\ [q EXCEPT !.stale = TRUE, !.class.raced = FALSE].class \in Class
         /\ [q EXCEPT !.stale = TRUE, !.class.raced = TRUE].class.raced
         /\ [q EXCEPT !.stale = TRUE, !.class.raced = FALSE].at = q.at
BY DEF Booking, Class

\* What a write leaves of the other bookings.
LEMMA OvertakesType ==
  ASSUME TimetableInv, NEW b \in Bookers, Overtakes(b)
  PROVE  /\ booking' \in [Bookers -> Booking]
         /\ Booked'
         /\ \A o \in Bookers : booking'[o].at = "write" => booking'[o].class.raced
<1>1. ASSUME NEW o \in Bookers
      PROVE  /\ booking'[o] \in Booking
             /\ booking'[o].at # "idle" => booking'[o].class \in Class
             /\ booking'[o].at = "write" => booking'[o].class.raced
  <2> DEFINE q == booking[o]
  <2>1. q \in Booking /\ (q.at # "idle" => q.class \in Class)
    BY DEF TimetableInv, TimetableTypeOK, Booked
  <2>2. CASE o = b
    BY <2>2, IdleType DEF Overtakes
  <2>3. CASE o # b /\ q.at = "idle"
    BY <2>1, <2>3 DEF Overtakes
  <2>4. CASE o # b /\ q.at # "idle"
    <3>1. booking'[o] = [q EXCEPT !.stale = TRUE, !.class.raced = (q.at = "write")]
      BY <2>4 DEF Overtakes
    <3>2. CASE q.at = "write"
      <4>1. booking'[o] = [q EXCEPT !.stale = TRUE, !.class.raced = TRUE]
        BY <3>1, <3>2, Zenon
      <4> QED BY <2>1, <2>4, <4>1, PastType
    <3>3. CASE q.at # "write"
      <4>1. booking'[o] = [q EXCEPT !.stale = TRUE, !.class.raced = FALSE]
        BY <3>1, <3>3, Zenon
      <4> QED BY <2>1, <2>4, <3>3, <4>1, PastType
    <3> QED BY <3>2, <3>3
  <2> QED BY <2>2, <2>3, <2>4
<1>2. booking' = [o \in Bookers |-> booking'[o]]
  BY DEF Overtakes
<1> QED BY <1>1, <1>2 DEF Booked

LEMMA StoredType ==
  ASSUME NEW q \in Booking, q.class \in Class, NEW row \in Class
  PROVE  /\ Stored(q, row) \in Class
         /\ Stored(q, row).gone = q.class.gone
         /\ Stored(q, row).raced = q.class.raced
         /\ \A x : SamePlace(x, Stored(q, row)) <=> SamePlace(x, q.class)
         /\ \A x : SamePlace(Stored(q, row), x) <=> SamePlace(q.class, x)
<1>1. CASE "active" \in q.asked
  BY <1>1 DEF Stored
<1>2. CASE "active" \notin q.asked
  BY <1>2 DEF Stored, Class, SamePlace
<1> QED BY <1>1, <1>2

-----------------------------------------------------------------------------
LEMMA WriteKeeps ==
  ASSUME TimetableInv, NEW b \in Bookers, WriteSchedule(b)
  PROVE  TimetableInv'
<1> DEFINE q == booking[b]
<1>1. q \in Booking /\ q.class \in Class /\ q.at = "write"
  BY DEF TimetableInv, TimetableTypeOK, Booked, WriteSchedule
<1>2. booking' \in [Bookers -> Booking] /\ Booked' /\ PastCheck'
  BY OvertakesType DEF WriteSchedule, PastCheck
<1>3. CASE q.row = 0
  <2>1. /\ Len(classes) < MaxClasses
        /\ classes' = Append(classes, q.class)
    BY <1>1, <1>3 DEF WriteSchedule, Booking
  <2>2. /\ classes' \in Seq(Class) /\ Len(classes') = Len(classes) + 1
        /\ \A c \in 1..Len(classes) : classes'[c] = classes[c]
        /\ classes'[Len(classes) + 1] = q.class
    BY <1>1, <2>1 DEF TimetableInv, TimetableTypeOK
  <2>3. TimetableTypeOK'
    BY <1>2, <2>1, <2>2, TimetableBounds DEF TimetableInv, TimetableTypeOK, WriteSchedule
  <2>4. ASSUME NEW c \in DOMAIN classes, Live(c)', SamePlace(classes[c], q.class)
        PROVE  q.class.raced \/ classes[c].raced
    <3>1. Conflicts(c, q)
      BY <1>3, <2>2, <2>4 DEF Conflicts, Live, TimetableInv, TimetableTypeOK
    <3> QED BY <1>1, <3>1 DEF TimetableInv, PastCheck
  <2>5. DoubleBookingsOverlapped'
    <3> SUFFICES ASSUME NEW c \in DOMAIN classes', NEW d \in DOMAIN classes', c # d,
                        Live(c)', Live(d)', SamePlace(classes'[c], classes'[d])
                 PROVE  classes'[c].raced \/ classes'[d].raced
      BY DEF DoubleBookingsOverlapped
    <3>1. SamePlace(classes'[d], classes'[c])
      BY DEF SamePlace
    <3>2. /\ c \in 1..(Len(classes) + 1) /\ d \in 1..(Len(classes) + 1)
          /\ DOMAIN classes = 1..Len(classes) /\ Len(classes) \in Nat
      BY <2>2 DEF TimetableInv, TimetableTypeOK
    <3>3. CASE c = Len(classes) + 1
      BY <2>2, <2>4, <3>1, <3>2, <3>3
    <3>4. CASE d = Len(classes) + 1
      BY <2>2, <2>4, <3>2, <3>4
    <3>5. CASE c # Len(classes) + 1 /\ d # Len(classes) + 1
      BY <2>2, <3>2, <3>5 DEF TimetableInv, DoubleBookingsOverlapped, Live
    <3> QED BY <3>3, <3>4, <3>5
  <2> QED BY <1>2, <2>3, <2>5 DEF TimetableInv
<1>4. CASE q.row # 0
  <2> DEFINE new == Stored(q, classes[q.row])
  <2>1. /\ q.row \in DOMAIN classes
        /\ classes' = [classes EXCEPT ![q.row] = new]
    BY <1>1, <1>4 DEF WriteSchedule, Live
  <2>2. classes[q.row] \in Class
    BY <2>1 DEF TimetableInv, TimetableTypeOK
  <2>3. /\ new \in Class /\ new.raced = q.class.raced
        /\ \A x : SamePlace(x, new) <=> SamePlace(x, q.class)
        /\ \A x : SamePlace(new, x) <=> SamePlace(q.class, x)
    BY <1>1, <2>2, StoredType
  <2> HIDE DEF new
  <2>4. /\ classes' \in Seq(Class) /\ Len(classes') = Len(classes)
        /\ DOMAIN classes' = DOMAIN classes
        /\ classes'[q.row] = new
        /\ \A c \in DOMAIN classes \ {q.row} : classes'[c] = classes[c]
    BY <2>1, <2>3 DEF TimetableInv, TimetableTypeOK
  <2>5. TimetableTypeOK'
    BY <1>2, <2>4 DEF TimetableInv, TimetableTypeOK, WriteSchedule
  <2>6. ASSUME NEW c \in DOMAIN classes \ {q.row}, Live(c)',
               SamePlace(classes[c], q.class)
        PROVE  q.class.raced \/ classes[c].raced
    <3>1. Conflicts(c, q)
      BY <2>4, <2>6 DEF Conflicts, Live
    <3> QED BY <1>1, <3>1 DEF TimetableInv, PastCheck
  <2>7. DoubleBookingsOverlapped'
    <3> SUFFICES ASSUME NEW c \in DOMAIN classes', NEW d \in DOMAIN classes', c # d,
                        Live(c)', Live(d)', SamePlace(classes'[c], classes'[d])
                 PROVE  classes'[c].raced \/ classes'[d].raced
      BY DEF DoubleBookingsOverlapped
    <3>1. SamePlace(classes'[d], classes'[c])
      BY DEF SamePlace
    <3>2. CASE c = q.row
      BY <2>3, <2>4, <2>6, <3>1, <3>2
    <3>3. CASE d = q.row
      BY <2>3, <2>4, <2>6, <3>3
    <3>4. CASE c # q.row /\ d # q.row
      BY <2>4, <3>4 DEF TimetableInv, DoubleBookingsOverlapped, Live
    <3> QED BY <3>2, <3>3, <3>4
  <2> QED BY <1>2, <2>5, <2>7 DEF TimetableInv
<1> QED BY <1>3, <1>4

LEMMA DeleteKeeps ==
  ASSUME TimetableInv, NEW c \in DOMAIN classes, DeleteSchedule(c)
  PROVE  TimetableInv'
<1>1. classes[c] \in Class
  BY DEF TimetableInv, TimetableTypeOK
<1>2. /\ classes' = [classes EXCEPT ![c] = [classes[c] EXCEPT !.gone = TRUE]]
      /\ [classes[c] EXCEPT !.gone = TRUE] \in Class
  BY <1>1 DEF DeleteSchedule, Class
<1>3. /\ classes' \in Seq(Class) /\ Len(classes') = Len(classes)
      /\ DOMAIN classes' = DOMAIN classes
      /\ classes'[c].gone
      /\ \A d \in DOMAIN classes \ {c} : classes'[d] = classes[d]
  BY <1>1, <1>2 DEF TimetableInv, TimetableTypeOK, Class
<1>4. TimetableTypeOK'
  BY <1>3, CountsType DEF TimetableInv, TimetableTypeOK, DeleteSchedule
<1>5. Booked' /\ PastCheck'
  BY <1>3 DEF TimetableInv, Booked, PastCheck, Conflicts, Live, DeleteSchedule
<1>6. DoubleBookingsOverlapped'
  BY <1>3 DEF TimetableInv, DoubleBookingsOverlapped, Live
<1> QED BY <1>4, <1>5, <1>6 DEF TimetableInv

LEMMA TimetableStep ==
  ASSUME TimetableInv, TimetableNext
  PROVE  TimetableInv'
<1>1. ASSUME NEW x \in Rooms \cup Periods, CreateStock(x) \/ DeleteStock(x)
      PROVE  TimetableInv'
  <2>1. TimetableTypeOK'
    BY <1>1, CountsType DEF TimetableInv, TimetableTypeOK, CreateStock, DeleteStock
  <2> QED BY <1>1, <2>1 DEF TimetableInv, CreateStock, DeleteStock, Booked, PastCheck,
                            DoubleBookingsOverlapped, Conflicts, Live
<1>2. ASSUME NEW b \in Bookers, CreateSchedule(b)
      PROVE  TimetableInv'
  <2>1. PICK given \in Given :
          Goes(b, [Idle EXCEPT !.at = "period", !.asked = Fields, !.class = given])
    BY <1>2 DEF CreateSchedule
  <2>2. [Idle EXCEPT !.at = "period", !.asked = Fields, !.class = given] \in Booking
    BY IdleType DEF Booking, Idle, Given
  <2>3. /\ booking' \in [Bookers -> Booking]
        /\ Booked' /\ PastCheck' /\ DoubleBookingsOverlapped'
    BY <1>2, <2>1, <2>2, GoesKeeps DEF CreateSchedule, Given, Idle
  <2> QED BY <1>2, <2>3, CountsType DEF TimetableInv, TimetableTypeOK, CreateSchedule
<1>3. ASSUME NEW b \in Bookers, UpdateSchedule(b)
      PROVE  TimetableInv'
  <2>1. PICK c \in DOMAIN classes, given \in Given :
          LET asked == {f \in Fields : given[f] # classes[c][f]}
              q == [Idle EXCEPT !.row = c, !.asked = asked, !.class = given]
          IN  Goes(b, IF given.period # classes[c].period
                      THEN [q EXCEPT !.at = "period"] ELSE AfterPeriod(q))
    BY <1>3 DEF UpdateSchedule
  <2> DEFINE asked == {f \in Fields : given[f] # classes[c][f]}
             q == [Idle EXCEPT !.row = c, !.asked = asked, !.class = given]
  <2>2. asked \subseteq Fields /\ given \in Class
    BY DEF Given
  <2>3. c \in 0..MaxClasses
    BY TimetableBounds DEF TimetableInv, TimetableTypeOK
  <2> HIDE DEF asked
  <2>4. /\ q \in Booking /\ q.class \in Class
        /\ [q EXCEPT !.at = "period"] \in Booking
        /\ [q EXCEPT !.at = "period"].class \in Class
        /\ [q EXCEPT !.at = "period"].at = "period"
    BY <2>2, <2>3 DEF Booking, Idle
  <2> HIDE DEF q
  <2>5. \/ Goes(b, [q EXCEPT !.at = "period"])
        \/ Goes(b, AfterPeriod(q))
    BY <2>1 DEF q, asked
  <2>6. /\ booking' \in [Bookers -> Booking]
        /\ Booked' /\ PastCheck' /\ DoubleBookingsOverlapped'
    <3>1. UNCHANGED classes
      BY <1>3 DEF UpdateSchedule
    <3>2. CASE Goes(b, [q EXCEPT !.at = "period"])
      BY <2>4, <3>1, <3>2, GoesKeeps
    <3>3. CASE Goes(b, AfterPeriod(q))
      BY <2>4, <3>1, <3>3, AfterPeriodType, NobodyFits, GoesKeeps
    <3> QED BY <2>5, <3>2, <3>3
  <2> QED BY <1>3, <2>6, CountsType DEF TimetableInv, TimetableTypeOK, UpdateSchedule
<1>4. ASSUME NEW b \in Bookers, FindPeriod(b) \/ FindRoom(b) \/ CheckConflict(b)
      PROVE  TimetableInv'
  <2> DEFINE q == booking[b]
             written == [q EXCEPT !.at = "write"]
  <2>1. q \in Booking /\ q.class \in Class
    BY <1>4 DEF TimetableInv, TimetableTypeOK, Booked, FindPeriod, FindRoom, CheckConflict
  <2>2. written \in Booking /\ written.class = q.class /\ written.row = q.row
    BY <2>1 DEF Booking
  <2>3. UNCHANGED <<stock, classes, started>>
    BY <1>4 DEF FindPeriod, FindRoom, CheckConflict
  <2>4. \/ Goes(b, Idle) \/ Goes(b, AfterPeriod(q)) \/ Goes(b, AfterRoom(q))
        \/ Goes(b, written) /\ \A c \in DOMAIN classes : ~Conflicts(c, q)
    BY <1>4 DEF FindPeriod, FindRoom, CheckConflict
  <2> HIDE DEF q, written
  <2>5. /\ booking' \in [Bookers -> Booking]
        /\ Booked' /\ PastCheck' /\ DoubleBookingsOverlapped'
    <3>1. CASE Goes(b, Idle)
      BY <2>3, <3>1, IdleType, GoesKeeps
    <3>2. CASE Goes(b, AfterPeriod(q))
      BY <2>1, <2>3, <3>2, AfterPeriodType, NobodyFits, GoesKeeps
    <3>3. CASE Goes(b, AfterRoom(q))
      BY <2>1, <2>3, <3>3, AfterRoomType, NobodyFits, GoesKeeps
    <3>4. CASE Goes(b, written) /\ \A c \in DOMAIN classes : ~Conflicts(c, q)
      <4>1. \A c \in DOMAIN classes : ~Conflicts(c, written)
        BY <2>2, <3>4 DEF Conflicts
      <4> QED BY <2>1, <2>2, <2>3, <3>4, <4>1, GoesKeeps
    <3> QED BY <2>4, <3>1, <3>2, <3>3, <3>4
  <2> QED BY <2>3, <2>5 DEF TimetableInv, TimetableTypeOK
<1>5. ASSUME NEW b \in Bookers, WriteFails(b)
      PROVE  TimetableInv'
  <2>1. Goes(b, Idle) /\ UNCHANGED <<stock, classes, started>>
    BY <1>5 DEF WriteFails, Refuse
  <2>2. /\ booking' \in [Bookers -> Booking]
        /\ Booked' /\ PastCheck' /\ DoubleBookingsOverlapped'
    BY <2>1, IdleType, GoesKeeps
  <2> QED BY <2>1, <2>2 DEF TimetableInv, TimetableTypeOK
<1> QED
  BY <1>1, <1>2, <1>3, <1>4, <1>5, WriteKeeps, DeleteKeeps DEF TimetableNext

-----------------------------------------------------------------------------
\* What a request about a teacher holds, by how far it is.
EditOK(q) ==
    /\ q \in Edit
    /\ q.at # "idle" => q.teacher \in Teachers
    /\ q.at \in {"link", "check", "clear", "assign"} => ~Done(q)
    /\ q.passed \subseteq q.checked
    /\ q.at \notin {"newCheck", "clear", "assign"} => q.checked = {}
    /\ q.at = "newCheck" =>
         /\ q.checked \subseteq q.wants
         /\ Requested(q.order, q.wants)
         /\ \A i \in DOMAIN q.order, x \in q.wants :
              i < q.next /\ q.order[i] = SchoolOf(x) => x \in q.checked
    /\ q.at = "clear" => Wanted(q) \subseteq q.checked
    /\ q.at = "assign" => q.left \subseteq q.checked

\* Of the sections it found free, a request knows those that others were given.
Known(q, rows) ==
    \A a \in rows : a[2] \in q.checked /\ a[1] # q.teacher => a[2] \in q.passed

RowsOK ==
    /\ staff \in [Teachers -> Teacher]
    /\ linked \subseteq Teachers \X Schools
    /\ assigned \subseteq Teachers \X Sections
    /\ raced \subseteq assigned
    /\ OneTeacherPerSection

EditsOK == \A e \in Editors : EditOK(edit[e]) /\ Known(edit[e], assigned)

SectionsInv == edit \in [Editors -> Edit] /\ EditsOK /\ RowsOK

LEMMA OrderType ==
  ASSUME NEW o \in Orders
  PROVE  /\ o \in Seq(Schools)
         /\ Len(o) \in 0..Cardinality(Schools)
         /\ DOMAIN o = 1..Len(o)
<1>1. Cardinality(Schools) \in Nat
  BY SectionsBounds, FS_CardinalityType
<1>2. PICK n \in 0..Cardinality(Schools) : o \in [1..n -> Schools]
  BY DEF Orders
<1>3. n \in Nat
  BY <1>1
<1> QED BY <1>2, <1>3

LEMMA NoEditOK == EditOK(NoEdit) /\ \A rows : Known(NoEdit, rows)
<1>1. Cardinality(Schools) \in Nat
  BY SectionsBounds, FS_CardinalityType
<1>2. <<>> \in [1..0 -> Schools]
  OBVIOUS
<1>3. <<>> \in Orders
  BY <1>1, <1>2 DEF Orders
<1>4. NoEdit \in Edit
  BY <1>1, <1>3 DEF NoEdit, Edit
<1> QED BY <1>4 DEF EditOK, Known, NoEdit

\* The school at hand is one of the request's, and there is a place after it.
LEMMA AtHandType ==
  ASSUME NEW q \in Edit, ~Done(q)
  PROVE  /\ q.next \in DOMAIN q.order
         /\ AtHand(q) \in Schools
         /\ q.next + 1 \in 1..(Cardinality(Schools) + 1)
         /\ Wanted(q) \subseteq Sections
<1>1. Cardinality(Schools) \in Nat
  BY SectionsBounds, FS_CardinalityType
<1>2. q.order \in Orders /\ q.next \in 1..(Cardinality(Schools) + 1)
      /\ q.wants \in SUBSET Sections
  BY DEF Edit
<1>3. /\ q.order \in Seq(Schools)
      /\ Len(q.order) \in 0..Cardinality(Schools)
      /\ DOMAIN q.order = 1..Len(q.order)
  BY <1>2, OrderType
<1>4. q.next <= Len(q.order)
  BY <1>1, <1>2, <1>3 DEF Done
<1> QED BY <1>1, <1>2, <1>3, <1>4 DEF AtHand, Wanted

LEMMA OnwardOK ==
  ASSUME NEW q \in Edit, q.teacher \in Teachers, q.checked = {}, q.passed = {}
  PROVE  /\ EditOK(Onward(q))
         /\ \A rows : Known(Onward(q), rows)
         /\ Onward(q) \in Edit
<1>1. ASSUME NEW at \in {"dropSections", "link", "tenant"}
      PROVE  /\ [q EXCEPT !.at = at] \in Edit
             /\ [q EXCEPT !.at = at].at = at
             /\ [q EXCEPT !.at = at].teacher = q.teacher
             /\ [q EXCEPT !.at = at].checked = {} /\ [q EXCEPT !.at = at].passed = {}
             /\ [q EXCEPT !.at = at].order = q.order
             /\ [q EXCEPT !.at = at].next = q.next
  BY DEF Edit
<1>2. CASE q.drops # {}
  BY <1>1, <1>2 DEF Onward, EditOK, Known, Done
<1>3. CASE q.drops = {} /\ ~Done(q)
  BY <1>1, <1>3 DEF Onward, EditOK, Known, Done
<1>4. CASE q.drops = {} /\ Done(q)
  BY <1>1, <1>4 DEF Onward, EditOK, Known, Done
<1> QED BY <1>2, <1>3, <1>4

LEMMA NextSchoolOK ==
  ASSUME NEW q \in Edit, q.teacher \in Teachers, ~Done(q)
  PROVE  /\ EditOK(NextSchool(q))
         /\ \A rows : Known(NextSchool(q), rows)
         /\ NextSchool(q) \in Edit
<1> DEFINE n == [q EXCEPT !.next = @ + 1, !.checked = {}, !.passed = {}]
<1>1. n \in Edit /\ n.teacher = q.teacher /\ n.checked = {} /\ n.passed = {}
  BY AtHandType DEF Edit
<1> QED BY <1>1, OnwardOK DEF NextSchool

\* One request goes on and rows only go.
LEMMA BecomesKeeps ==
  ASSUME SectionsInv, NEW e \in Editors, NEW q, EditOK(q), Becomes(e, q),
         assigned' \subseteq assigned, Known(q, assigned')
  PROVE  edit' \in [Editors -> Edit] /\ EditsOK'
BY DEF SectionsInv, EditsOK, EditOK, Becomes, Known

LEMMA PassedType ==
  ASSUME NEW q, EditOK(q), NEW given \in SUBSET Sections
  PROVE  EditOK([q EXCEPT !.passed = @ \cup (given \cap q.checked)])
BY DEF EditOK, Edit, Done, Wanted, AtHand, Requested

\* One request gives its teacher sections, which the others learn of.
LEMMA TellKeeps ==
  ASSUME SectionsInv, NEW e \in Editors, NEW q, EditOK(q), NEW t,
         NEW given \in SUBSET Sections, Tell(e, q, given),
         assigned' = assigned \cup ({t} \X given), Known(q, assigned')
  PROVE  edit' \in [Editors -> Edit] /\ EditsOK'
<1>1. ASSUME NEW o \in Editors
      PROVE  edit'[o] \in Edit /\ EditOK(edit'[o]) /\ Known(edit'[o], assigned')
  <2> DEFINE p == edit[o]
             told == [p EXCEPT !.passed = @ \cup (given \cap p.checked)]
  <2>1. CASE o = e
    BY <2>1 DEF Tell, EditOK
  <2>2. CASE o # e
    <3>1. edit'[o] = told
      BY <2>2 DEF Tell
    <3>2. EditOK(p) /\ Known(p, assigned) /\ p \in Edit
      BY DEF SectionsInv, EditsOK, EditOK
    <3>3. EditOK(told) /\ told \in Edit
      BY <3>2, PassedType DEF EditOK
    <3>4. /\ told.checked = p.checked /\ told.teacher = p.teacher
          /\ told.passed = p.passed \cup (given \cap p.checked)
      BY <3>2 DEF Edit
    <3>5. Known(told, assigned')
      BY <3>2, <3>4 DEF Known
    <3> QED BY <3>1, <3>3, <3>5
  <2> QED BY <2>1, <2>2
<1>2. edit' = [o \in Editors |-> edit'[o]]
  BY DEF Tell
<1> QED BY <1>1, <1>2 DEF EditsOK

\* Rows that only go leave one teacher to a section.
LEMMA FewerRows ==
  ASSUME RowsOK, NEW rows \in SUBSET assigned, Assigned(rows)
  PROVE  /\ assigned' \subseteq Teachers \X Sections
         /\ raced' \subseteq assigned'
         /\ OneTeacherPerSection'
BY DEF RowsOK, Assigned, OneTeacherPerSection

-----------------------------------------------------------------------------
LEMMA StopKeeps ==
  ASSUME SectionsInv, NEW e \in Editors, Stop(e), edit[e].teacher \in Teachers
  PROVE  SectionsInv'
<1>1. staff' \in [Teachers -> Teacher]
  BY DEF SectionsInv, RowsOK, Stop, Teacher
<1>2. edit' \in [Editors -> Edit] /\ EditsOK'
  BY NoEditOK, BecomesKeeps DEF Stop
<1> QED BY <1>1, <1>2 DEF SectionsInv, RowsOK, Stop, OneTeacherPerSection

\* An update of the user row writes the tenant and leaves the rest.
LEMMA AtTenantType ==
  ASSUME NEW x \in Teacher, NEW tenant \in Schools \cup {None}
  PROVE  /\ AtTenant(x, tenant) \in Teacher
         /\ AtTenant(x, tenant).there = x.there
         /\ AtTenant(x, tenant).tenant = tenant
         /\ AtTenant(x, tenant).excused = x.excused
         /\ AtTenant(x, tenant).mixed = x.mixed
<1>1. PICK n \in BOOLEAN : n = (x.named \/ tenant # x.tenant)
  OBVIOUS
<1>2. AtTenant(x, tenant) = [x EXCEPT !.tenant = tenant, !.named = n]
  BY <1>1, Zenon DEF AtTenant
<1> QED BY <1>2 DEF Teacher

LEMMA AtTenantNamed ==
  ASSUME NEW x \in Teacher, NEW tenant \in Schools \cup {None}
  PROVE  AtTenant(x, tenant).named <=> x.named \/ tenant # x.tenant
<1>1. PICK n \in BOOLEAN : n = (x.named \/ tenant # x.tenant)
  OBVIOUS
<1>2. AtTenant(x, tenant) = [x EXCEPT !.tenant = tenant, !.named = n]
  BY <1>1, Zenon DEF AtTenant
<1>3. AtTenant(x, tenant).named = n
  BY <1>2 DEF Teacher
<1> QED BY <1>1, <1>3, Zenon

LEMMA StartKeeps ==
  ASSUME SectionsInv, NEW e \in Editors, NEW t \in Teachers,
         CreateTeacher(e, t) \/ UpdateTeacher(e, t)
  PROVE  SectionsInv'
<1>0. Cardinality(Schools) \in Nat
  BY SectionsBounds, FS_CardinalityType
<1>1. CASE CreateTeacher(e, t)
  <2>1. PICK order \in Orders, sections \in SUBSET Sections, tenant \in Schools \cup {None} :
          /\ Requested(order, sections)
          /\ Becomes(e, [NoEdit EXCEPT !.at = "newCheck", !.teacher = t, !.order = order,
                                       !.wants = sections, !.tenant = tenant])
    BY <1>1 DEF CreateTeacher
  <2> DEFINE q == [NoEdit EXCEPT !.at = "newCheck", !.teacher = t, !.order = order,
                                 !.wants = sections, !.tenant = tenant]
  <2>2. /\ q \in Edit /\ q.at = "newCheck" /\ q.teacher = t /\ q.order = order
        /\ q.wants = sections /\ q.checked = {} /\ q.passed = {} /\ q.next = 1
    <3>1. NoEdit \in Edit
      BY NoEditOK DEF EditOK
    <3> QED BY <3>1 DEF NoEdit, Edit
  <2>3. \A i \in DOMAIN order : ~(i < 1)
    BY <1>0, OrderType
  <2>4. EditOK(q) /\ \A rows : Known(q, rows)
    BY <2>1, <2>2, <2>3 DEF EditOK, Known
  <2> HIDE DEF q
  <2>5. UNCHANGED <<staff, linked, assigned, raced>>
    BY <1>1 DEF CreateTeacher
  <2>6. edit' \in [Editors -> Edit] /\ EditsOK'
    BY <2>1, <2>4, <2>5, BecomesKeeps DEF q
  <2> QED BY <2>5, <2>6 DEF SectionsInv, RowsOK, OneTeacherPerSection
<1>2. CASE UpdateTeacher(e, t)
  <2> DEFINE others == EditsOf(t)
  <2>1. PICK order \in Orders, sections \in SUBSET Sections, tenant \in Schools \cup {None} :
          LET row == AtTenant(staff[t], tenant)
              q == [NoEdit EXCEPT !.teacher = t, !.order = order, !.wants = sections,
                                  !.alone = (others = {})]
          IN  /\ Requested(order, sections)
              /\ edit' = [o \in Editors |->
                    IF o = e THEN Onward([q EXCEPT !.drops = SchoolsOf(t) \ Listed(q)])
                    ELSE IF o \in others THEN [edit[o] EXCEPT !.alone = FALSE]
                    ELSE edit[o]]
              /\ staff' = [staff EXCEPT ![t] =
                    [row EXCEPT !.excused = @ \/ others # {},
                                !.mixed = @ \/ others # {}]]
    BY <1>2, ZenonT(60) DEF UpdateTeacher
  <2>2. PICK single \in BOOLEAN : single = (others = {})
    OBVIOUS
  <2> DEFINE q == [NoEdit EXCEPT !.teacher = t, !.order = order, !.wants = sections,
                                 !.alone = single]
             p == [q EXCEPT !.drops = SchoolsOf(t) \ Listed(q)]
  <2>3. q \in Edit /\ q.teacher = t /\ q.checked = {} /\ q.passed = {}
    <3>1. NoEdit \in Edit
      BY NoEditOK DEF EditOK
    <3> QED BY <2>2, <3>1 DEF NoEdit, Edit
  <2> HIDE DEF q
  <2>4. p \in Edit /\ p.teacher = t /\ p.checked = {} /\ p.passed = {}
    BY <2>3 DEF Edit, SchoolsOf
  <2> HIDE DEF p
  <2>5. EditOK(Onward(p)) /\ Onward(p) \in Edit /\ \A rows : Known(Onward(p), rows)
    BY <2>4, OnwardOK
  <2>6. /\ assigned' = assigned /\ raced' = raced /\ linked' = linked
    BY <1>2 DEF UpdateTeacher
  <2>7. ASSUME NEW o \in Editors
        PROVE  edit'[o] \in Edit /\ EditOK(edit'[o]) /\ Known(edit'[o], assigned')
    <3>1. CASE o = e
      <4>1. edit'[o] = Onward(p)
        BY <2>1, <2>2, <3>1, Zenon DEF p, q
      <4> QED BY <2>5, <4>1
    <3>2. CASE o # e /\ o \in others
      <4>1. edit'[o] = [edit[o] EXCEPT !.alone = FALSE]
        BY <2>1, <3>2
      <4>2. EditOK(edit[o]) /\ Known(edit[o], assigned) /\ edit[o] \in Edit
        BY DEF SectionsInv, EditsOK, EditOK
      <4> QED BY <2>6, <4>1, <4>2 DEF EditOK, Edit, Done, Wanted, AtHand, Known
    <3>3. CASE o # e /\ o \notin others
      BY <2>1, <2>6, <3>3 DEF SectionsInv, EditsOK
    <3> QED BY <3>1, <3>2, <3>3
  <2>8. edit' \in [Editors -> Edit] /\ EditsOK'
    <3>1. edit' = [o \in Editors |-> edit'[o]]
      BY <2>1
    <3> QED BY <2>7, <3>1 DEF EditsOK
  <2>9. staff' \in [Teachers -> Teacher]
    <3>1. AtTenant(staff[t], tenant) \in Teacher
      BY AtTenantType DEF SectionsInv, RowsOK
    <3>2. PICK x \in BOOLEAN, y \in BOOLEAN :
            staff' = [staff EXCEPT ![t] =
                        [AtTenant(staff[t], tenant) EXCEPT !.excused = x, !.mixed = y]]
      BY <2>1, Zenon
    <3>3. [AtTenant(staff[t], tenant) EXCEPT !.excused = x, !.mixed = y] \in Teacher
      BY <3>1 DEF Teacher
    <3> QED BY <3>2, <3>3 DEF SectionsInv, RowsOK
  <2> QED BY <2>6, <2>8, <2>9 DEF SectionsInv, RowsOK, OneTeacherPerSection
<1> QED BY <1>1, <1>2

LEMMA CheckNewKeeps ==
  ASSUME SectionsInv, NEW e \in Editors, CheckNew(e)
  PROVE  SectionsInv'
<1> DEFINE q == edit[e]
           n == [q EXCEPT !.next = @ + 1, !.checked = @ \cup Wanted(q)]
<1>1. q \in Edit /\ EditOK(q) /\ Known(q, assigned) /\ q.at = "newCheck" /\ ~Done(q)
  BY DEF SectionsInv, EditsOK, EditOK, CheckNew
<1>2. UNCHANGED <<staff, linked, assigned, raced>>
  BY DEF CheckNew
<1>3. edit' \in [Editors -> Edit] /\ EditsOK'
  <2>1. CASE Becomes(e, NoEdit)
    BY <1>2, <2>1, NoEditOK, BecomesKeeps
  <2>2. CASE ~Taken(q.teacher, Wanted(q)) /\ Becomes(e, n)
    <3>1. /\ q.next \in DOMAIN q.order /\ Wanted(q) \subseteq Sections
          /\ q.next + 1 \in 1..(Cardinality(Schools) + 1)
      BY <1>1, AtHandType
    <3>2. /\ n \in Edit /\ n.at = "newCheck" /\ n.order = q.order /\ n.wants = q.wants
          /\ n.next = q.next + 1 /\ n.checked = q.checked \cup Wanted(q)
          /\ n.passed = q.passed /\ n.teacher = q.teacher
      BY <1>1, <3>1 DEF Edit
    <3> HIDE DEF n
    <3>3. \A i \in DOMAIN q.order : i < q.next + 1 => i < q.next \/ i = q.next
      <4>1. DOMAIN q.order = 1..Len(q.order) /\ Len(q.order) \in Nat
        BY <1>1, OrderType DEF Edit
      <4> QED BY <3>1, <4>1
    <3>4. \A i \in DOMAIN q.order, x \in q.wants :
            i < n.next /\ q.order[i] = SchoolOf(x) => x \in n.checked
      BY <1>1, <3>2, <3>3 DEF EditOK, Wanted, AtHand
    <3>5. EditOK(n)
      BY <1>1, <3>2, <3>4 DEF EditOK, Wanted
    <3>6. Known(n, assigned)
      BY <1>1, <2>2, <3>2 DEF Known, Taken
    <3> QED BY <1>2, <2>2, <3>5, <3>6, BecomesKeeps
  <2> QED BY <2>1, <2>2 DEF CheckNew
<1> QED BY <1>2, <1>3 DEF SectionsInv, RowsOK, OneTeacherPerSection

LEMMA CommitNewKeeps ==
  ASSUME SectionsInv, NEW e \in Editors, CommitNew(e)
  PROVE  SectionsInv'
<1> DEFINE q == edit[e]
           t == q.teacher
<1>1. q \in Edit /\ EditOK(q) /\ Known(q, assigned) /\ q.at = "newCheck" /\ Done(q)
      /\ t \in Teachers
  BY DEF SectionsInv, EditsOK, EditOK, CommitNew
<1>2. /\ linked' = linked \cup ({t} \X Listed(q))
      /\ assigned' = assigned \cup ({t} \X q.wants)
      /\ raced' = raced \cup ({t} \X q.passed)
      /\ Tell(e, NoEdit, q.wants)
  BY DEF CommitNew
<1>3. /\ q.order \in Seq(Schools) /\ DOMAIN q.order = 1..Len(q.order)
      /\ Len(q.order) \in Nat /\ q.next \in Nat /\ q.wants \in SUBSET Sections
      /\ q.passed \subseteq q.wants
  <2>1. Cardinality(Schools) \in Nat
    BY SectionsBounds, FS_CardinalityType
  <2> QED BY <1>1, <2>1, OrderType DEF Edit, EditOK
<1>4. q.wants \subseteq q.checked
  <2> SUFFICES ASSUME NEW x \in q.wants PROVE x \in q.checked
    OBVIOUS
  <2>1. PICK i \in DOMAIN q.order : q.order[i] = SchoolOf(x)
    BY <1>1 DEF EditOK, Requested
  <2>2. i < q.next
    BY <1>1, <1>3 DEF Done
  <2> QED BY <1>1, <2>1, <2>2 DEF EditOK
<1>5. edit' \in [Editors -> Edit] /\ EditsOK'
  BY <1>2, <1>3, NoEditOK, TellKeeps
<1>6. staff' \in [Teachers -> Teacher]
  <2> DEFINE first == IF q.order = <<>> THEN None ELSE q.order[1]
  <2>1. PICK s \in Schools \cup {None}, n \in BOOLEAN :
          staff' = [staff EXCEPT ![t].there = "there", ![t].tenant = s, ![t].named = n]
    <3>1. q.order # <<>> => q.order[1] \in Schools
      BY <1>3
    <3>2. q.tenant \in Schools \cup {None}
      BY <1>1 DEF Edit
    <3>3. PICK s \in Schools \cup {None} : s = IF q.tenant # None THEN q.tenant ELSE first
      BY <3>1, <3>2
    <3>4. PICK n \in BOOLEAN : n = (q.tenant # None)
      OBVIOUS
    <3>5. staff' = [staff EXCEPT ![t].there = "there", ![t].tenant = s, ![t].named = n]
      BY <3>3, <3>4, Zenon DEF CommitNew
    <3> QED BY <3>5
  <2> QED BY <1>1, <2>1 DEF SectionsInv, RowsOK, Teacher
<1>7. linked' \subseteq Teachers \X Schools /\ assigned' \subseteq Teachers \X Sections
      /\ raced' \subseteq assigned'
  <2>1. Listed(q) \subseteq Schools
    BY <1>3 DEF Listed
  <2> QED BY <1>1, <1>2, <1>3, <2>1 DEF SectionsInv, RowsOK
<1>8. OneTeacherPerSection'
  <2> SUFFICES ASSUME NEW a \in assigned', NEW b \in assigned', a[2] = b[2], a # b,
                      a \notin raced', b \notin raced'
               PROVE  FALSE
    BY DEF OneTeacherPerSection
  <2>1. ASSUME NEW c \in assigned, NEW d \in {t} \X q.wants, c[2] = d[2], c # d
        PROVE  d \in raced'
    <3>1. c[1] # t /\ c[2] \in q.checked
      BY <1>4, <2>1 DEF SectionsInv, RowsOK
    <3>2. c[2] \in q.passed
      BY <1>1, <2>1, <3>1 DEF Known
    <3> QED BY <1>2, <2>1, <3>2
  <2>2. CASE a \in assigned /\ b \in assigned
    BY <1>2, <2>2 DEF SectionsInv, RowsOK, OneTeacherPerSection
  <2>3. CASE a \notin assigned /\ b \notin assigned
    BY <1>2, <2>3
  <2> QED BY <1>2, <2>1, <2>2, <2>3
<1> QED BY <1>5, <1>6, <1>7, <1>8 DEF SectionsInv, RowsOK

LEMMA DropKeeps ==
  ASSUME SectionsInv, NEW e \in Editors, DropSections(e) \/ DropLink(e)
  PROVE  SectionsInv'
<1> DEFINE q == edit[e]
<1>1. q \in Edit /\ EditOK(q) /\ q.teacher \in Teachers /\ q.checked = {}
      /\ q.passed = {}
  BY DEF SectionsInv, EditsOK, EditOK, DropSections, DropLink
<1>2. CASE DropSections(e)
  <2>1. PICK s \in q.drops :
          /\ Assigned(assigned \ SectionsAt(q.teacher, s))
          /\ Becomes(e, [q EXCEPT !.at = "dropLink", !.drops = @ \ {s}, !.dropping = s])
    BY <1>2 DEF DropSections
  <2> DEFINE n == [q EXCEPT !.at = "dropLink", !.drops = @ \ {s}, !.dropping = s]
  <2>2. n \in Edit /\ n.at = "dropLink" /\ n.teacher = q.teacher /\ n.checked = {}
        /\ n.passed = {}
    BY <1>1 DEF Edit
  <2> HIDE DEF n
  <2>3. EditOK(n) /\ \A rows : Known(n, rows)
    BY <1>1, <2>2 DEF EditOK, Known
  <2>4. edit' \in [Editors -> Edit] /\ EditsOK'
    BY <2>1, <2>3, BecomesKeeps DEF Assigned, n
  <2>5. /\ assigned' \subseteq Teachers \X Sections
        /\ raced' \subseteq assigned'
        /\ OneTeacherPerSection'
    BY <2>1, FewerRows DEF SectionsInv
  <2> QED BY <1>2, <2>4, <2>5 DEF SectionsInv, RowsOK, DropSections
<1>3. CASE DropLink(e) /\ ~Stop(e)
  <2> DEFINE n == [q EXCEPT !.dropping = None]
  <2>1. n \in Edit /\ n.teacher = q.teacher /\ n.checked = {} /\ n.passed = {}
    BY <1>1 DEF Edit
  <2> HIDE DEF n
  <2>2. /\ linked' \subseteq linked /\ Becomes(e, Onward(n))
        /\ UNCHANGED <<staff, assigned, raced>>
    BY <1>3 DEF DropLink, n
  <2>3. edit' \in [Editors -> Edit] /\ EditsOK'
    BY <1>1, <2>1, <2>2, OnwardOK, BecomesKeeps
  <2> QED BY <2>2, <2>3 DEF SectionsInv, RowsOK, OneTeacherPerSection
<1> QED BY <1>1, <1>2, <1>3, StopKeeps

LEMMA SchoolKeeps ==
  ASSUME SectionsInv, NEW e \in Editors, Link(e) \/ Check(e) \/ Clear(e)
  PROVE  SectionsInv'
<1> DEFINE q == edit[e]
<1>1. q \in Edit /\ EditOK(q) /\ Known(q, assigned) /\ q.teacher \in Teachers
      /\ ~Done(q)
  BY DEF SectionsInv, EditsOK, EditOK, Link, Check, Clear
<1>2. AtHand(q) \in Schools /\ Wanted(q) \subseteq Sections
  BY <1>1, AtHandType
<1>3. CASE Link(e) /\ ~Stop(e)
  <2> DEFINE n == [q EXCEPT !.at = "check"]
  <2>1. /\ n \in Edit /\ n.at = "check" /\ n.teacher = q.teacher /\ n.next = q.next
        /\ n.checked = {} /\ n.passed = {} /\ n.order = q.order
    BY <1>1, <1>3 DEF Edit, EditOK, Link
  <2> HIDE DEF n
  <2>2. EditOK(n) /\ \A rows : Known(n, rows)
    BY <1>1, <2>1 DEF EditOK, Known, Done
  <2>3. /\ linked' = linked \cup {<<q.teacher, AtHand(q)>>} /\ Becomes(e, n)
        /\ UNCHANGED <<staff, assigned, raced>>
    BY <1>3 DEF Link, n
  <2>4. edit' \in [Editors -> Edit] /\ EditsOK'
    BY <2>2, <2>3, BecomesKeeps
  <2> QED BY <1>1, <1>2, <2>3, <2>4 DEF SectionsInv, RowsOK, OneTeacherPerSection
<1>4. CASE Check(e) /\ ~Stop(e)
  <2> DEFINE n == [q EXCEPT !.at = "clear", !.checked = Wanted(q)]
  <2>1. /\ n \in Edit /\ n.at = "clear" /\ n.teacher = q.teacher /\ n.next = q.next
        /\ n.checked = Wanted(q) /\ n.passed = {} /\ n.order = q.order
        /\ n.wants = q.wants
    BY <1>1, <1>2, <1>4 DEF Edit, EditOK, Check
  <2> HIDE DEF n
  <2>2. EditOK(n)
    BY <1>1, <2>1 DEF EditOK, Done, Wanted, AtHand
  <2>3. /\ ~Taken(q.teacher, Wanted(q)) /\ Becomes(e, n)
        /\ UNCHANGED <<staff, linked, assigned, raced>>
    BY <1>4 DEF Check, n
  <2>4. Known(n, assigned)
    BY <2>1, <2>3 DEF Known, Taken
  <2>5. edit' \in [Editors -> Edit] /\ EditsOK'
    BY <2>2, <2>3, <2>4, BecomesKeeps
  <2> QED BY <2>3, <2>5 DEF SectionsInv, RowsOK, OneTeacherPerSection
<1>5. CASE Clear(e)
  <2> DEFINE given == [q EXCEPT !.at = "assign", !.left = Wanted(q)]
  <2>1. /\ Assigned(assigned \ SectionsAt(q.teacher, AtHand(q)))
        /\ Becomes(e, IF given.left = {} THEN NextSchool(q) ELSE given)
        /\ UNCHANGED <<staff, linked>> /\ q.at = "clear"
    BY <1>5 DEF Clear
  <2>2. /\ given \in Edit /\ given.at = "assign" /\ given.teacher = q.teacher
        /\ given.next = q.next /\ given.checked = q.checked /\ given.passed = q.passed
        /\ given.order = q.order /\ given.left = Wanted(q)
    BY <1>1, <1>2 DEF Edit
  <2> HIDE DEF given
  <2>3. EditOK(given) /\ Known(given, assigned')
    BY <1>1, <2>1, <2>2 DEF EditOK, Done, Known, Assigned
  <2>4. EditOK(NextSchool(q)) /\ Known(NextSchool(q), assigned')
    BY <1>1, NextSchoolOK
  <2>5. edit' \in [Editors -> Edit] /\ EditsOK'
    <3>1. assigned' \subseteq assigned
      BY <2>1 DEF Assigned
    <3>2. CASE Becomes(e, given)
      BY <2>3, <3>1, <3>2, BecomesKeeps
    <3>3. CASE Becomes(e, NextSchool(q))
      BY <2>4, <3>1, <3>3, BecomesKeeps
    <3> QED BY <2>1, <3>2, <3>3
  <2>6. /\ assigned' \subseteq Teachers \X Sections
        /\ raced' \subseteq assigned'
        /\ OneTeacherPerSection'
    BY <2>1, FewerRows DEF SectionsInv
  <2> QED BY <2>1, <2>5, <2>6 DEF SectionsInv, RowsOK
<1> QED BY <1>1, <1>3, <1>4, <1>5, StopKeeps

LEMMA AssignKeeps ==
  ASSUME SectionsInv, NEW e \in Editors, Assign(e), ~Stop(e)
  PROVE  SectionsInv'
<1> DEFINE q == edit[e]
<1>1. /\ q \in Edit /\ EditOK(q) /\ Known(q, assigned) /\ q.teacher \in Teachers
      /\ ~Done(q) /\ q.at = "assign" /\ q.left \subseteq q.checked
      /\ q.left \subseteq Sections
  BY DEF SectionsInv, EditsOK, EditOK, Assign, Edit
<1>2. PICK x \in q.left :
        LET row == <<q.teacher, x>>
            rest == [q EXCEPT !.left = @ \ {x}]
        IN  /\ assigned' = assigned \cup {row}
            /\ raced' = raced \cup ({row} \cap ({q.teacher} \X q.passed))
            /\ Tell(e, IF rest.left = {} THEN NextSchool(rest) ELSE rest, {x})
            /\ UNCHANGED <<staff, linked>>
  BY DEF Assign
<1> DEFINE row == <<q.teacher, x>>
           rest == [q EXCEPT !.left = @ \ {x}]
<1>3. /\ rest \in Edit /\ rest.at = "assign" /\ rest.teacher = q.teacher
      /\ rest.next = q.next /\ rest.checked = q.checked /\ rest.passed = q.passed
      /\ rest.order = q.order /\ rest.left = q.left \ {x}
  BY <1>1 DEF Edit
<1> HIDE DEF rest
<1>4. assigned' = assigned \cup ({q.teacher} \X {x})
  BY <1>2
<1>5. EditOK(rest) /\ Known(rest, assigned') /\ ~Done(rest)
  BY <1>1, <1>3, <1>4 DEF EditOK, Known, Done
<1>6. edit' \in [Editors -> Edit] /\ EditsOK'
  <2>1. CASE Tell(e, rest, {x})
    BY <1>1, <1>4, <1>5, <2>1, TellKeeps
  <2>2. CASE Tell(e, NextSchool(rest), {x})
    BY <1>1, <1>3, <1>4, <1>5, <2>2, NextSchoolOK, TellKeeps
  <2> QED BY <1>2, <2>1, <2>2 DEF rest
<1>7. assigned' \subseteq Teachers \X Sections /\ raced' \subseteq assigned'
  BY <1>1, <1>2 DEF SectionsInv, RowsOK
<1>8. OneTeacherPerSection'
  <2>1. ASSUME NEW a \in assigned, a[2] = x, a # row
        PROVE  row \in raced'
    <3>1. a[1] # q.teacher
      BY <2>1 DEF SectionsInv, RowsOK
    <3>2. x \in q.passed
      BY <1>1, <2>1, <3>1 DEF Known
    <3> QED BY <1>2, <3>2
  <2> QED BY <1>2, <2>1 DEF OneTeacherPerSection, SectionsInv, RowsOK
<1> QED BY <1>2, <1>6, <1>7, <1>8 DEF SectionsInv, RowsOK

LEMMA TenantKeeps ==
  ASSUME SectionsInv, NEW e \in Editors, SetTenant(e), ~Stop(e)
  PROVE  SectionsInv'
<1> DEFINE q == edit[e]
           t == q.teacher
<1>1. q \in Edit /\ t \in Teachers
  BY DEF SectionsInv, EditsOK, EditOK, SetTenant
<1>2. /\ Becomes(e, NoEdit) /\ UNCHANGED <<linked, assigned, raced>>
      /\ staff' = [staff EXCEPT ![t].tenant = IF q.order = <<>> THEN @ ELSE q.order[1],
                                ![t].named = @ /\ q.order = <<>>,
                                ![t].excused = @ /\ ~q.alone]
  BY DEF SetTenant
<1>3. edit' \in [Editors -> Edit] /\ EditsOK'
  BY <1>2, NoEditOK, BecomesKeeps
<1>4. staff' \in [Teachers -> Teacher]
  <2>1. staff[t] \in Teacher
    BY <1>1 DEF SectionsInv, RowsOK
  <2>2. q.order # <<>> => q.order[1] \in Schools
    BY <1>1, OrderType DEF Edit
  <2>3. PICK s \in Schools \cup {None}, n \in BOOLEAN, x \in BOOLEAN :
          staff' = [staff EXCEPT ![t].tenant = s, ![t].named = n, ![t].excused = x]
    <3>1. PICK n \in BOOLEAN, x \in BOOLEAN :
            n = (staff[t].named /\ q.order = <<>>) /\ x = (staff[t].excused /\ ~q.alone)
      OBVIOUS
    <3>2. PICK s \in Schools \cup {None} :
            s = IF q.order = <<>> THEN staff[t].tenant ELSE q.order[1]
      BY <2>1, <2>2 DEF Teacher
    <3>3. staff' = [staff EXCEPT ![t].tenant = s, ![t].named = n, ![t].excused = x]
      BY <1>2, <3>1, <3>2, Zenon
    <3> QED BY <3>3
  <2> QED BY <2>1, <2>3 DEF SectionsInv, RowsOK, Teacher
<1> QED BY <1>2, <1>3, <1>4 DEF SectionsInv, RowsOK, OneTeacherPerSection

LEMMA UpdateAccountKeeps ==
  ASSUME SectionsInv, NEW t \in Teachers, UpdateAccount(t)
  PROVE  SectionsInv'
<1>1. PICK tenant \in Schools \cup {None} :
        staff' = [staff EXCEPT ![t] = AtTenant(@, tenant)]
  BY DEF UpdateAccount
<1>2. staff' \in [Teachers -> Teacher]
  BY <1>1, AtTenantType DEF SectionsInv, RowsOK
<1>3. UNCHANGED <<linked, assigned, raced, edit>>
  BY DEF UpdateAccount
<1> QED BY <1>2, <1>3 DEF SectionsInv, RowsOK, EditsOK, Known, OneTeacherPerSection

LEMMA DeleteTeacherKeeps ==
  ASSUME SectionsInv, NEW t \in Teachers, DeleteTeacher(t)
  PROVE  SectionsInv'
<1>0. staff' = [staff EXCEPT ![t].there = "deleted", ![t].tenant = None]
  BY DEF DeleteTeacher
<1>1. staff' \in [Teachers -> Teacher]
  <2>1. staff[t] \in Teacher /\ staff \in [Teachers -> Teacher]
    BY DEF SectionsInv, RowsOK
  <2>2. [staff[t] EXCEPT !.there = "deleted", !.tenant = None] \in Teacher
    BY <2>1 DEF Teacher
  <2> QED BY <1>0, <2>1, <2>2
<1>2. /\ assigned' \subseteq Teachers \X Sections
      /\ raced' \subseteq assigned'
      /\ OneTeacherPerSection'
  BY FewerRows DEF SectionsInv, DeleteTeacher
<1>3. edit' = edit /\ assigned' \subseteq assigned /\ linked' \subseteq linked
  BY DEF DeleteTeacher, Assigned
<1>4. EditsOK'
  BY <1>3 DEF SectionsInv, EditsOK, Known
<1> QED BY <1>1, <1>2, <1>3, <1>4 DEF SectionsInv, RowsOK

-----------------------------------------------------------------------------
\* The two halves share only the number of handlers started.
StaffingInv == TimetableInv /\ SectionsInv

LEMMA SectionsStep ==
  ASSUME SectionsInv, SectionsNext
  PROVE  SectionsInv'
<1>1. ASSUME NEW e \in Editors, Fail(e), ~Stop(e)
      PROVE  SectionsInv'
  <2>1. Becomes(e, NoEdit) /\ UNCHANGED <<staff, linked, assigned, raced>>
    BY <1>1 DEF Fail
  <2>2. edit' \in [Editors -> Edit] /\ EditsOK'
    BY <2>1, NoEditOK, BecomesKeeps
  <2> QED BY <2>1, <2>2 DEF SectionsInv, RowsOK, OneTeacherPerSection
<1>2. ASSUME NEW e \in Editors, Assign(e) \/ SetTenant(e) \/ Fail(e), Stop(e)
      PROVE  SectionsInv'
  <2>1. edit[e].teacher \in Teachers
    BY <1>2 DEF SectionsInv, EditsOK, EditOK, Assign, SetTenant, Fail
  <2> QED BY <1>2, <2>1, StopKeeps
<1> QED
  BY <1>1, <1>2, StartKeeps, CheckNewKeeps, CommitNewKeeps, DropKeeps, SchoolKeeps,
     AssignKeeps, TenantKeeps, UpdateAccountKeeps, DeleteTeacherKeeps DEF SectionsNext

\* The steps about teachers leave the timetable alone.
LEMMA SectionsLeave ==
  ASSUME SectionsNext
  PROVE  UNCHANGED timetableVars /\ (Counts \/ UNCHANGED started)
<1>1. ASSUME NEW e \in Editors, NEW t \in Teachers,
             CreateTeacher(e, t) \/ UpdateTeacher(e, t)
      PROVE  UNCHANGED timetableVars /\ Counts
  BY <1>1 DEF CreateTeacher, UpdateTeacher
<1>2. ASSUME NEW e \in Editors,
             CheckNew(e) \/ CommitNew(e) \/ DropSections(e) \/ DropLink(e) \/ Link(e)
      PROVE  UNCHANGED timetableVars /\ UNCHANGED started
  BY <1>2 DEF CheckNew, CommitNew, DropSections, DropLink, Link, Stop
<1>3. ASSUME NEW e \in Editors,
             Check(e) \/ Clear(e) \/ Assign(e) \/ SetTenant(e) \/ Fail(e)
      PROVE  UNCHANGED timetableVars /\ UNCHANGED started
  BY <1>3 DEF Check, Clear, Assign, SetTenant, Fail, Stop
<1>4. ASSUME NEW t \in Teachers, UpdateAccount(t) \/ DeleteTeacher(t)
      PROVE  UNCHANGED timetableVars /\ Counts
  BY <1>4 DEF UpdateAccount, DeleteTeacher
<1> QED BY <1>1, <1>2, <1>3, <1>4 DEF SectionsNext

LEMMA SectionsTimetable ==
  ASSUME TimetableInv, SectionsNext
  PROVE  TimetableInv'
<1>1. TimetableTypeOK'
  BY SectionsLeave, CountsType DEF TimetableInv, TimetableTypeOK, timetableVars
<1> QED BY <1>1, SectionsLeave DEF TimetableInv, timetableVars, Booked, PastCheck,
                                   DoubleBookingsOverlapped, Conflicts, Live

LEMMA StaffingInit == Init => StaffingInv
<1> SUFFICES ASSUME Init PROVE StaffingInv
  OBVIOUS
<1>1. TimetableTypeOK
  <2>1. classes = <<>> /\ started = 0 /\ booking = [b \in Bookers |-> Idle]
        /\ stock \in [Rooms \cup Periods -> {"new", "there", "deleted"}]
    BY DEF Init, TimetableInit
  <2> QED BY <2>1, IdleType, TimetableBounds DEF TimetableTypeOK
<1>2. Booked /\ PastCheck /\ DoubleBookingsOverlapped
  BY DEF Init, TimetableInit, Booked, PastCheck, DoubleBookingsOverlapped, Idle
<1>3. edit \in [Editors -> Edit] /\ EditsOK
  BY NoEditOK DEF Init, EditsOK, EditOK
<1>4. RowsOK
  BY DEF Init, RowsOK, Teacher, OneTeacherPerSection
<1> QED BY <1>1, <1>2, <1>3, <1>4 DEF StaffingInv, TimetableInv, SectionsInv

LEMMA StaffingStep == StaffingInv /\ [Next]_vars => StaffingInv'
<1> SUFFICES ASSUME StaffingInv, [Next]_vars PROVE StaffingInv'
  OBVIOUS
<1>1. CASE SectionsNext
  BY <1>1, SectionsStep, SectionsTimetable DEF StaffingInv
<1>2. CASE TimetableNext /\ UNCHANGED sectionsVars
  BY <1>2, TimetableStep DEF StaffingInv, SectionsInv, EditsOK, RowsOK, Known,
                             OneTeacherPerSection, sectionsVars
<1>3. CASE UNCHANGED vars
  BY <1>3 DEF vars, timetableVars, sectionsVars, StaffingInv, SectionsInv, EditsOK,
              RowsOK, Known, OneTeacherPerSection, TimetableInv, TimetableTypeOK, Booked,
              PastCheck, DoubleBookingsOverlapped, Conflicts, Live
<1> QED BY <1>1, <1>2, <1>3 DEF Next

LEMMA StaffingInvariant == Spec => []StaffingInv
BY StaffingInit, StaffingStep, PTL DEF Spec

\* Rows, requests and bookings keep their form.
THEOREM TypeCorrect == Spec => []TypeOK
<1>1. StaffingInv => TypeOK
  BY DEF StaffingInv, TimetableInv, SectionsInv, RowsOK, TypeOK
<1> QED BY <1>1, StaffingInvariant, PTL

\* Two classes that cannot both be held were checked before either was written.
THEOREM DoubleBookingsAreOverlaps == Spec => []DoubleBookingsOverlapped
<1>1. StaffingInv => DoubleBookingsOverlapped
  BY DEF StaffingInv, TimetableInv
<1> QED BY <1>1, StaffingInvariant, PTL

\* A second teacher of a section was checked before the first one got it.
THEOREM SecondTeachersAreOverlaps == Spec => []OneTeacherPerSection
<1>1. StaffingInv => OneTeacherPerSection
  BY DEF StaffingInv, SectionsInv, RowsOK
<1> QED BY <1>1, StaffingInvariant, PTL

-----------------------------------------------------------------------------
\* What an edit q of a teacher whose row is x has yet to do and has done.  While
\* no other edits the teacher, the schools the teacher has are those of the
\* request, those still to drop and the one being dropped, which has no sections;
\* and what the request was through with is there, if the teacher is.
Kept(q, x, links, rows) ==
    /\ ~q.alone => x.mixed /\ x.excused
    /\ q.at = "newCheck" => x.there = "new" /\ q.alone
    /\ q.at # "newCheck" =>
        /\ x.there # "new"
        /\ \A s \in Listed(q) : s \notin q.drops /\ s # q.dropping
        /\ q.at # "dropLink" => q.dropping = None
        /\ q.at \notin {"dropSections", "dropLink"} => q.drops = {}
        /\ q.at = "tenant" => Done(q)
        /\ q.at = "assign" => q.left \subseteq Wanted(q)
        /\ q.alone =>
            /\ \A s : <<q.teacher, s>> \in links =>
                 s \in Listed(q) \/ s \in q.drops \/ s = q.dropping
            /\ \A i \in DOMAIN q.order :
                 x.there = "there" /\ (\/ i < q.next
                                       \/ i = q.next /\ q.at \in {"check", "clear", "assign"})
                   => <<q.teacher, q.order[i]>> \in links
            /\ q.at = "dropLink" =>
                 \A s : <<q.teacher, s>> \in rows => SchoolOf(s) # q.dropping

\* Two edits of a teacher know that they are two.
EditKept(e) ==
    /\ edit[e].at = "idle" => edit[e].teacher = None
    /\ edit[e].at # "idle" =>
        /\ Kept(edit[e], staff[edit[e].teacher], linked, assigned)
        /\ edit[e].alone => \A o \in Editors : edit[o].teacher = edit[e].teacher => o = e

\* The rows of a teacher: the foreign keys keep them to one who is there.
RowsKept(t) ==
    /\ ~Present(t) => \A s : <<t, s>> \notin linked /\ <<t, s>> \notin assigned
    /\ staff[t].mixed \/ \A s : <<t, s>> \in assigned => <<t, SchoolOf(s)>> \in linked
    /\ \/ staff[t].excused \/ staff[t].named \/ EditsOf(t) # {} \/ SchoolsOf(t) = {}
       \/ <<t, staff[t].tenant>> \in linked

WholeInv == (\A e \in Editors : EditKept(e)) /\ (\A t \in Teachers : RowsKept(t))
\* What p, which is not the request at work, may become while t is edited.
Same(p, q, t) ==
    /\ p.at = q.at /\ p.teacher = q.teacher /\ p.order = q.order /\ p.next = q.next
    /\ p.wants = q.wants /\ p.drops = q.drops /\ p.dropping = q.dropping
    /\ p.left = q.left
    /\ p.alone => q.alone
    /\ q.teacher # t => p.alone = q.alone

\* Kept reads of an edit what Same keeps.
LEMMA SameKept ==
  ASSUME NEW p, NEW q, NEW t, Same(p, q, t), NEW x, NEW links, NEW rows
  PROVE  /\ p.alone = q.alone =>
              (Kept(p, x, links, rows) <=> Kept(q, x, links, rows))
         /\ Kept(q, x, links, rows) /\ ~p.alone /\ q.at # "newCheck" =>
              \A y : y.mixed /\ y.excused /\ y.there # "new" =>
                \A l, r : Kept(p, y, l, r)
<1>1. Listed(p) = Listed(q) /\ Done(p) = Done(q) /\ Wanted(p) = Wanted(q)
  BY DEF Same, Listed, Done, Wanted, AtHand
<1>2. ASSUME p.alone = q.alone
      PROVE  Kept(p, x, links, rows) <=> Kept(q, x, links, rows)
  BY <1>1, <1>2 DEF Same, Kept
<1>3. ASSUME Kept(q, x, links, rows), ~p.alone, q.at # "newCheck",
             NEW y, y.mixed, y.excused, y.there # "new", NEW l, NEW r
      PROVE  Kept(p, y, l, r)
  BY <1>1, <1>3 DEF Same, Kept
<1> QED BY <1>2, <1>3

\* What another teacher's edit knows of rows that change for t only.
LEMMA OtherKept ==
  ASSUME NEW q, NEW t, q.teacher # t, NEW x, NEW links, NEW rows, NEW l, NEW r,
         Kept(q, x, links, rows),
         \A u, s : u # t => (<<u, s>> \in l <=> <<u, s>> \in links),
         \A u, s : u # t => (<<u, s>> \in r <=> <<u, s>> \in rows)
  PROVE  Kept(q, x, l, r)
BY DEF Kept

\* A step that changes the rows of t and at most its edits.
LEMMA StepKeeps ==
  ASSUME WholeInv, NEW e \in Editors, NEW t \in Teachers,
         edit[e].teacher \in {t, None}, edit'[e].teacher \in {t, None},
         \A o \in Editors : o # e => Same(edit'[o], edit[o], t),
         \A o \in Editors : o # e /\ edit[o].teacher = t =>
            /\ ~edit'[o].alone /\ edit[o].at \notin {"idle", "newCheck"}
            /\ staff'[t].mixed /\ staff'[t].excused /\ staff'[t].there # "new",
         edit'[e].at = "idle" => edit'[e].teacher = None,
         edit'[e].at # "idle" =>
            /\ edit'[e].teacher = t
            /\ Kept(edit'[e], staff'[t], linked', assigned')
            /\ edit'[e].alone => \A o \in Editors : edit[o].teacher = t => o = e,
         \A u \in Teachers : u # t => staff'[u] = staff[u],
         \A u, s : u # t => (<<u, s>> \in linked' <=> <<u, s>> \in linked),
         \A u, s : u # t => (<<u, s>> \in assigned' <=> <<u, s>> \in assigned),
         \A o \in Editors : edit[o].at # "idle" => edit[o].teacher \in Teachers,
         RowsKept(t)'
  PROVE  WholeInv'
<1>1. ASSUME NEW o \in Editors PROVE EditKept(o)'
  <2>1. EditKept(o) /\ EditKept(e)
    BY DEF WholeInv
  <2>2. CASE o = e
    BY <2>2 DEF EditKept, Same
  <2>3. CASE o # e /\ edit[o].at = "idle"
    BY <2>1, <2>3 DEF EditKept, Same
  <2>4. CASE o # e /\ edit[o].at # "idle" /\ edit[o].teacher = t
    <3>1. /\ Same(edit'[o], edit[o], t) /\ edit'[o].teacher = t /\ edit'[o].at # "idle"
          /\ ~edit'[o].alone /\ Kept(edit[o], staff[t], linked, assigned)
      BY <2>1, <2>4 DEF EditKept, Same
    <3>2. Kept(edit'[o], staff'[t], linked', assigned')
      BY <2>4, <3>1, SameKept
    <3> QED BY <3>1, <3>2 DEF EditKept
  <2>5. CASE o # e /\ edit[o].at # "idle" /\ edit[o].teacher # t
    <3> DEFINE u == edit[o].teacher
    <3>1. /\ Same(edit'[o], edit[o], t) /\ edit'[o].teacher = u /\ edit'[o].at # "idle"
          /\ edit'[o].alone = edit[o].alone /\ Kept(edit[o], staff[u], linked, assigned)
          /\ u \in Teachers /\ staff'[u] = staff[u]
      BY <2>1, <2>5 DEF EditKept, Same
    <3>2. Kept(edit'[o], staff[u], linked, assigned)
      BY <3>1, SameKept
    <3>3. Kept(edit'[o], staff'[u], linked', assigned')
      BY <2>5, <3>1, <3>2, OtherKept
    <3>4. ASSUME edit'[o].alone, NEW f \in Editors, edit'[f].teacher = u
          PROVE  f = o
      <4>1. f # e
        BY <2>5, <3>1, <3>4, TimetableBounds
      <4>2. edit[f].teacher = u
        BY <3>4, <4>1 DEF Same
      <4> QED BY <2>1, <2>5, <3>1, <3>4, <4>2 DEF EditKept
    <3> QED BY <3>1, <3>3, <3>4 DEF EditKept
  <2> QED BY <2>2, <2>3, <2>4, <2>5
<1>2. ASSUME NEW u \in Teachers, u # t PROVE RowsKept(u)'
  <2>1. RowsKept(u) /\ staff'[u] = staff[u]
    BY <1>2 DEF WholeInv
  <2>2. EditsOf(u)' = EditsOf(u)
    <3>1. \A o \in Editors : edit'[o].teacher = u <=> edit[o].teacher = u
      BY <1>2, TimetableBounds DEF Same
    <3> QED BY <3>1 DEF EditsOf
  <2>3. SchoolsOf(u)' = SchoolsOf(u)
    BY <1>2 DEF SchoolsOf
  <2> QED BY <1>2, <2>1, <2>2, <2>3 DEF RowsKept, Present
<1> QED BY <1>1, <1>2 DEF WholeInv

\* An edit of t goes on or ends; only the last of it clears what excuses t.
LEMMA GoesOn ==
  ASSUME SectionsInv, WholeInv, NEW e \in Editors, NEW t, t = edit[e].teacher,
         edit[e].at # "idle",
         \A o \in Editors : o # e => Same(edit'[o], edit[o], t),
         edit'[e] = NoEdit \/
            /\ edit'[e].at # "idle" /\ edit'[e].teacher = t
            /\ edit'[e].alone = edit[e].alone
            /\ Kept(edit'[e], staff'[t], linked', assigned'),
         \A u \in Teachers : u # t => staff'[u] = staff[u],
         \A u, s : u # t => (<<u, s>> \in linked' <=> <<u, s>> \in linked),
         \A u, s : u # t => (<<u, s>> \in assigned' <=> <<u, s>> \in assigned),
         staff[t].mixed => staff'[t].mixed,
         staff[t].excused /\ ~edit[e].alone => staff'[t].excused,
         staff[t].there # "new" => staff'[t].there # "new",
         RowsKept(t)'
  PROVE  WholeInv'
<1>1. \A o \in Editors : edit[o].at # "idle" => edit[o].teacher \in Teachers
  BY DEF SectionsInv, EditsOK, EditOK
<1>2. t \in Teachers
  BY <1>1
<1>3. \A o \in Editors : EditKept(o)
  BY DEF WholeInv
<1>4. /\ Kept(edit[e], staff[t], linked, assigned)
      /\ edit[e].alone => \A o \in Editors : edit[o].teacher = t => o = e
  BY <1>3 DEF EditKept
<1>5. ASSUME NEW o \in Editors, o # e, edit[o].teacher = t
      PROVE  /\ ~edit'[o].alone /\ edit[o].at \notin {"idle", "newCheck"}
             /\ staff'[t].mixed /\ staff'[t].excused /\ staff'[t].there # "new"
  <2>1. edit[o].at # "idle"
    BY <1>2, <1>3, <1>5, TimetableBounds DEF EditKept
  <2>2. /\ Kept(edit[o], staff[t], linked, assigned)
        /\ edit[o].alone => e = o
    BY <1>3, <1>5, <2>1 DEF EditKept
  <2>3. ~edit[o].alone /\ ~edit[e].alone
    BY <1>4, <1>5, <2>2
  <2>4. /\ staff[t].mixed /\ staff[t].excused /\ edit[o].at # "newCheck"
        /\ staff[t].there # "new"
    BY <2>2, <2>3 DEF Kept
  <2> QED BY <1>5, <2>1, <2>3, <2>4 DEF Same
<1>6. edit'[e].teacher \in {t, None} /\ (edit'[e].at = "idle" => edit'[e].teacher = None)
  BY DEF NoEdit
<1>7. edit'[e].at # "idle" =>
        /\ edit'[e].teacher = t
        /\ Kept(edit'[e], staff'[t], linked', assigned')
        /\ edit'[e].alone => \A o \in Editors : edit[o].teacher = t => o = e
  BY <1>4 DEF NoEdit
<1> QED BY <1>1, <1>2, <1>5, <1>6, <1>7, StepKeeps

\* A handler writes its slot and no other; Tell adds to what others were passed.
LEMMA BecomesSame ==
  ASSUME SectionsInv, NEW e \in Editors, NEW q, NEW t,
         Becomes(e, q) \/ \E given : Tell(e, q, given)
  PROVE  edit'[e] = q /\ \A o \in Editors : o # e => Same(edit'[o], edit[o], t)
<1>1. edit \in [Editors -> Edit]
  BY DEF SectionsInv
<1>2. CASE Becomes(e, q)
  BY <1>1, <1>2 DEF Becomes, Same
<1>3. ASSUME NEW given, Tell(e, q, given)
      PROVE  edit'[e] = q /\ \A o \in Editors : o # e => Same(edit'[o], edit[o], t)
  <2>1. edit'[e] = q
    BY <1>3 DEF Tell
  <2>2. ASSUME NEW o \in Editors, o # e PROVE Same(edit'[o], edit[o], t)
    <3>1. edit'[o] = [edit[o] EXCEPT !.passed = @ \cup (given \cap edit[o].checked)]
      BY <1>3, <2>2 DEF Tell
    <3>2. edit[o] \in Edit
      BY <1>1
    <3> QED BY <3>1, <3>2 DEF Same, Edit
  <2> QED BY <2>1, <2>2
<1> QED BY <1>2, <1>3

\* What an edit knows when nothing is being dropped is what it knows going on.
LEMMA OnwardKept ==
  ASSUME NEW q \in Edit, NEW x, NEW links, NEW rows, q.dropping = None,
         None \notin Listed(q), x.there # "new", ~q.alone => x.mixed /\ x.excused,
         \A s \in Listed(q) : s \notin q.drops,
         q.alone => \A s : <<q.teacher, s>> \in links => s \in Listed(q) \/ s \in q.drops,
         q.alone /\ x.there = "there" =>
            \A i \in DOMAIN q.order : i < q.next => <<q.teacher, q.order[i]>> \in links
  PROVE  /\ Kept(Onward(q), x, links, rows)
         /\ Onward(q).teacher = q.teacher /\ Onward(q).alone = q.alone
         /\ Onward(q).at # "idle"
<1>1. ASSUME NEW at \in {"dropSections", "link", "tenant"}, NEW p,
             p = [q EXCEPT !.at = at],
             at # "dropSections" => q.drops = {}, at = "tenant" => Done(q)
      PROVE  /\ Kept(p, x, links, rows)
             /\ p.teacher = q.teacher /\ p.alone = q.alone /\ p.at # "idle"
  <2>1. /\ p.at = at /\ p.teacher = q.teacher /\ p.order = q.order /\ p.next = q.next
        /\ p.drops = q.drops /\ p.dropping = None /\ p.alone = q.alone
    BY <1>1 DEF Edit
  <2>2. Listed(p) = Listed(q) /\ (Done(p) <=> Done(q))
    BY <2>1 DEF Listed, Done
  <2> QED BY <1>1, <2>1, <2>2 DEF Kept
<1>2. CASE q.drops # {}
  BY <1>1, <1>2 DEF Onward
<1>3. CASE q.drops = {} /\ ~Done(q)
  BY <1>1, <1>3 DEF Onward
<1>4. CASE q.drops = {} /\ Done(q)
  BY <1>1, <1>4 DEF Onward
<1> QED BY <1>2, <1>3, <1>4

LEMMA AtWork ==
  ASSUME SectionsInv, WholeInv, NEW e \in Editors, NEW q, q = edit[e], q.at # "idle"
  PROVE  /\ q \in Edit /\ EditOK(q) /\ q.teacher \in Teachers /\ None \notin Listed(q)
         /\ DOMAIN q.order = 1..Len(q.order) /\ Len(q.order) \in Nat /\ q.next \in Nat
         /\ q.order \in Seq(Schools)
         /\ Kept(q, staff[q.teacher], linked, assigned)
         /\ q.alone => \A o \in Editors : edit[o].teacher = q.teacher => o = e
         /\ RowsKept(q.teacher) /\ staff[q.teacher] \in Teacher
         /\ staff \in [Teachers -> Teacher]
<1>1. q \in Edit /\ EditOK(q) /\ q.teacher \in Teachers
  BY DEF SectionsInv, EditsOK, EditOK
<1>2. /\ q.order \in Seq(Schools) /\ DOMAIN q.order = 1..Len(q.order)
      /\ Len(q.order) \in Nat /\ q.next \in Nat
  <2>1. Cardinality(Schools) \in Nat
    BY SectionsBounds, FS_CardinalityType
  <2> QED BY <1>1, <2>1, OrderType DEF Edit
<1>3. None \notin Listed(q)
  BY <1>2, SectionsBounds DEF Listed
<1>4. /\ Kept(q, staff[q.teacher], linked, assigned)
      /\ q.alone => \A o \in Editors : edit[o].teacher = q.teacher => o = e
  BY DEF WholeInv, EditKept
<1>5. /\ RowsKept(q.teacher) /\ staff[q.teacher] \in Teacher
      /\ staff \in [Teachers -> Teacher]
  BY <1>1 DEF WholeInv, SectionsInv, RowsOK
<1> QED BY <1>1, <1>2, <1>3, <1>4, <1>5

LEMMA StopWhole ==
  ASSUME SectionsInv, WholeInv, NEW e \in Editors, edit[e].at # "idle", Stop(e)
  PROVE  WholeInv'
<1>0. PICK t : t = edit[e].teacher
  OBVIOUS
<1>1. /\ staff' = [staff EXCEPT ![t].excused = TRUE] /\ Becomes(e, NoEdit)
      /\ linked' = linked /\ assigned' = assigned
  BY <1>0 DEF Stop
<1>2. t \in Teachers /\ RowsKept(t) /\ staff \in [Teachers -> Teacher]
  BY <1>0, AtWork
<1>3. /\ staff'[t].excused /\ staff'[t].mixed = staff[t].mixed
      /\ staff'[t].there = staff[t].there
      /\ \A u \in Teachers : u # t => staff'[u] = staff[u]
  BY <1>0, <1>1, <1>2 DEF Teacher
<1>4. RowsKept(t)'
  BY <1>0, <1>1, <1>2, <1>3 DEF RowsKept, Present
<1>5. edit'[e] = NoEdit /\ \A o \in Editors : o # e => Same(edit'[o], edit[o], t)
  BY <1>0, <1>1, BecomesSame
<1> QED BY <1>0, <1>1, <1>3, <1>4, <1>5, GoesOn

\* A new teacher has no rows until the transaction stores them.
LEMMA NewWhole ==
  ASSUME SectionsInv, WholeInv, NEW e \in Editors,
         CheckNew(e) \/ (Fail(e) /\ ~Stop(e))
  PROVE  WholeInv'
<1>0. PICK t : t = edit[e].teacher
  OBVIOUS
<1> DEFINE q == edit[e]
           n == [q EXCEPT !.next = @ + 1, !.checked = @ \cup Wanted(q)]
<1>1. /\ q.at = "newCheck" /\ UNCHANGED <<staff, linked, assigned>>
      /\ Becomes(e, NoEdit) \/ Becomes(e, n)
  BY DEF CheckNew, Fail
<1>2. /\ q \in Edit /\ t \in Teachers /\ RowsKept(t)
      /\ Kept(q, staff[t], linked, assigned)
  BY <1>0, <1>1, AtWork
<1>3. /\ n.at = "newCheck" /\ n.teacher = t /\ n.alone = q.alone
  BY <1>0, <1>1, <1>2 DEF Edit
<1>4. staff[t].there = "new" /\ Kept(n, staff[t], linked, assigned)
  BY <1>0, <1>1, <1>2, <1>3 DEF Kept
<1>5. PICK r \in {NoEdit, n} :
        edit'[e] = r /\ \A o \in Editors : o # e => Same(edit'[o], edit[o], t)
  BY <1>0, <1>1, BecomesSame
<1>6. RowsKept(t)'
  BY <1>0, <1>1, <1>2, <1>4 DEF RowsKept, Present, SchoolsOf
<1> HIDE DEF n
<1> QED BY <1>0, <1>1, <1>3, <1>4, <1>5, <1>6, GoesOn

LEMMA CommitWhole ==
  ASSUME SectionsInv, WholeInv, NEW e \in Editors, CommitNew(e)
  PROVE  WholeInv'
<1>0. PICK t : t = edit[e].teacher
  OBVIOUS
<1> DEFINE q == edit[e]
           first == IF q.order = <<>> THEN None ELSE q.order[1]
<1>1. /\ q.at = "newCheck"
      /\ staff' = [staff EXCEPT ![t].there = "there",
                                ![t].tenant = IF q.tenant # None THEN q.tenant ELSE first,
                                ![t].named = (q.tenant # None)]
      /\ linked' = linked \cup ({t} \X Listed(q))
      /\ assigned' = assigned \cup ({t} \X q.wants)
      /\ Tell(e, NoEdit, q.wants)
  BY <1>0 DEF CommitNew
<1>2. /\ q \in Edit /\ EditOK(q) /\ t \in Teachers /\ RowsKept(t)
      /\ DOMAIN q.order = 1..Len(q.order) /\ q.order \in Seq(Schools)
      /\ Kept(q, staff[t], linked, assigned) /\ staff \in [Teachers -> Teacher]
  BY <1>0, <1>1, AtWork
<1>3. \A s : <<t, s>> \notin linked /\ <<t, s>> \notin assigned
  BY <1>0, <1>1, <1>2 DEF Kept, RowsKept, Present
<1>4. /\ staff'[t].there = "there" /\ staff'[t].mixed = staff[t].mixed
      /\ staff'[t].excused = staff[t].excused
      /\ q.tenant = None => staff'[t].tenant = first
      /\ q.tenant # None => staff'[t].named
      /\ \A u \in Teachers : u # t => staff'[u] = staff[u]
  <2>1. PICK n : n = (q.tenant # None)
    OBVIOUS
  <2>2. PICK s : s = IF q.tenant # None THEN q.tenant ELSE first
    OBVIOUS
  <2>3. staff' = [staff EXCEPT ![t].there = "there", ![t].tenant = s, ![t].named = n]
    BY <1>1, <2>1, <2>2, Zenon
  <2>4. /\ staff'[t].there = "there" /\ staff'[t].mixed = staff[t].mixed
        /\ staff'[t].excused = staff[t].excused
        /\ staff'[t].tenant = s /\ staff'[t].named = n
        /\ \A u \in Teachers : u # t => staff'[u] = staff[u]
    BY <1>2, <2>3 DEF Teacher
  <2>5. q.tenant # None => staff'[t].named
    BY <2>1, <2>4, Zenon
  <2> QED BY <2>2, <2>4, <2>5
<1>5. \A s : <<t, s>> \in assigned' => <<t, SchoolOf(s)>> \in linked'
  <2>1. \A x \in q.wants : SchoolOf(x) \in Listed(q)
    BY <1>0, <1>1, <1>2 DEF EditOK, Requested, Listed
  <2> QED BY <1>0, <1>1, <1>3, <2>1
<1>6. staff'[t].named \/ SchoolsOf(t)' = {} \/ <<t, staff'[t].tenant>> \in linked'
  <2>1. CASE q.order = <<>>
    <3>1. Listed(q) = {}
      BY <2>1 DEF Listed
    <3>2. \A s : <<t, s>> \notin linked'
      BY <1>0, <1>1, <1>3, <3>1
    <3> QED BY <3>2 DEF SchoolsOf
  <2>2. CASE q.order # <<>> /\ q.tenant = None
    <3>1. 1 \in DOMAIN q.order
      BY <1>2, <2>2
    <3>2. q.order[1] \in Listed(q) /\ staff'[t].tenant = q.order[1]
      BY <1>4, <2>2, <3>1 DEF Listed
    <3>3. <<t, q.order[1]>> \in linked'
      BY <1>1, <3>2
    <3> QED BY <3>2, <3>3
  <2>3. CASE q.tenant # None
    BY <1>4, <2>3
  <2> QED BY <2>1, <2>2, <2>3
<1>7. RowsKept(t)'
  BY <1>4, <1>5, <1>6 DEF RowsKept, Present
<1>8. edit'[e] = NoEdit /\ \A o \in Editors : o # e => Same(edit'[o], edit[o], t)
  BY <1>0, <1>1, BecomesSame
<1>9. /\ \A u, s : u # t => (<<u, s>> \in linked' <=> <<u, s>> \in linked)
      /\ \A u, s : u # t => (<<u, s>> \in assigned' <=> <<u, s>> \in assigned)
  BY <1>0, <1>1
<1> QED BY <1>0, <1>1, <1>4, <1>7, <1>8, <1>9, GoesOn

\* Two facts that most calls of an edit share: it stays at work, so the tenant of
\* t may be anything, and rows of others stay.
LEMMA RowsBusy ==
  ASSUME NEW e \in Editors, NEW t, edit'[e].teacher = t,
         staff'[t] = staff[t], RowsKept(t),
         \A s : <<t, s>> \in linked' \/ <<t, s>> \in assigned' => Present(t),
         staff[t].mixed \/ \A s : <<t, s>> \in assigned' => <<t, SchoolOf(s)>> \in linked'
  PROVE  RowsKept(t)'
<1>1. e \in EditsOf(t)'
  BY DEF EditsOf
<1> QED BY <1>1 DEF RowsKept, Present

LEMMA DropSectionsWhole ==
  ASSUME SectionsInv, WholeInv, NEW e \in Editors, DropSections(e)
  PROVE  WholeInv'
<1>0. PICK t : t = edit[e].teacher
  OBVIOUS
<1> DEFINE q == edit[e]
<1>1. /\ q.at = "dropSections"
      /\ UNCHANGED <<staff, linked>>
  BY DEF DropSections
<1>2. PICK s \in q.drops :
        /\ Assigned(assigned \ SectionsAt(q.teacher, s))
        /\ Becomes(e, [q EXCEPT !.at = "dropLink", !.drops = @ \ {s}, !.dropping = s])
  BY DEF DropSections
<1> DEFINE n == [q EXCEPT !.at = "dropLink", !.drops = @ \ {s}, !.dropping = s]
<1>3. /\ q \in Edit /\ t \in Teachers /\ RowsKept(t)
      /\ Kept(q, staff[t], linked, assigned)
  BY <1>0, <1>1, AtWork
<1>4. /\ n.at = "dropLink" /\ n.teacher = t /\ n.order = q.order /\ n.next = q.next
      /\ n.drops = q.drops \ {s} /\ n.dropping = s /\ n.alone = q.alone
  BY <1>0, <1>3 DEF Edit
<1>5. edit'[e] = n /\ \A o \in Editors : o # e => Same(edit'[o], edit[o], t)
  BY <1>2, BecomesSame
<1> HIDE DEF n
<1>6. /\ \A x : <<t, x>> \in assigned' => <<t, x>> \in assigned /\ SchoolOf(x) # s
      /\ \A u, x : u # t => (<<u, x>> \in assigned' <=> <<u, x>> \in assigned)
  BY <1>0, <1>2 DEF Assigned, SectionsAt
<1>7. Kept(n, staff[t], linked, assigned')
  <2>1. Listed(n) = Listed(q)
    BY <1>4 DEF Listed
  <2>2. /\ staff[t].there # "new" /\ (~n.alone => staff[t].mixed /\ staff[t].excused)
        /\ \A x \in Listed(n) : x \notin n.drops /\ x # n.dropping
    BY <1>1, <1>2, <1>3, <1>4, <2>1 DEF Kept
  <2>3. n.alone =>
          /\ \A x : <<t, x>> \in linked => x \in Listed(n) \/ x \in n.drops \/ x = s
          /\ \A i \in DOMAIN n.order :
               staff[t].there = "there" /\ i < n.next => <<t, n.order[i]>> \in linked
    <3>1. q.dropping = None
      BY <1>1, <1>3 DEF Kept
    <3>2. \A x : <<t, x>> \in linked => x \in Schools
      BY DEF SectionsInv, RowsOK
    <3> QED BY <1>0, <1>1, <1>3, <1>4, <2>1, <3>1, <3>2, SectionsBounds DEF Kept
  <2> QED BY <1>4, <1>6, <2>2, <2>3 DEF Kept
<1>8. RowsKept(t)'
  BY <1>1, <1>3, <1>4, <1>5, <1>6, RowsBusy DEF RowsKept
<1> QED BY <1>0, <1>1, <1>4, <1>5, <1>6, <1>7, <1>8, GoesOn

\* The link that is dropped has no sections left, if no other edits the teacher.
LEMMA DropLinkWhole ==
  ASSUME SectionsInv, WholeInv, NEW e \in Editors, DropLink(e), ~Stop(e)
  PROVE  WholeInv'
<1>0. PICK t : t = edit[e].teacher
  OBVIOUS
<1> DEFINE q == edit[e]
           p == [q EXCEPT !.dropping = None]
<1>1. /\ q.at = "dropLink" /\ linked' = linked \ {<<t, q.dropping>>}
      /\ Becomes(e, Onward(p)) /\ UNCHANGED <<staff, assigned>>
  BY <1>0 DEF DropLink
<1>2. /\ q \in Edit /\ t \in Teachers /\ RowsKept(t) /\ None \notin Listed(q)
      /\ Kept(q, staff[t], linked, assigned)
  BY <1>0, <1>1, AtWork
<1>3. /\ p \in Edit /\ p.teacher = t /\ p.order = q.order /\ p.next = q.next
      /\ p.drops = q.drops /\ p.dropping = None /\ p.alone = q.alone
  BY <1>0, <1>2 DEF Edit
<1>4. edit'[e] = Onward(p) /\ \A o \in Editors : o # e => Same(edit'[o], edit[o], t)
  BY <1>1, BecomesSame
<1> HIDE DEF p
<1>5. Listed(p) = Listed(q) /\ \A i \in DOMAIN p.order : p.order[i] \in Listed(q)
  BY <1>3 DEF Listed
<1>6. /\ Kept(Onward(p), staff[t], linked', assigned)
      /\ Onward(p).teacher = t /\ Onward(p).alone = q.alone /\ Onward(p).at # "idle"
  <2>1. staff[t].there # "new" /\ (~p.alone => staff[t].mixed /\ staff[t].excused)
        /\ \A s \in Listed(p) : s \notin p.drops
    BY <1>1, <1>2, <1>3, <1>5 DEF Kept
  <2>2. p.alone => \A s : <<t, s>> \in linked' => s \in Listed(p) \/ s \in p.drops
    BY <1>0, <1>1, <1>2, <1>3, <1>5 DEF Kept
  <2>3. p.alone /\ staff[t].there = "there" =>
          \A i \in DOMAIN p.order : i < p.next => <<t, p.order[i]>> \in linked'
    BY <1>0, <1>1, <1>2, <1>3, <1>5 DEF Kept
  <2> QED BY <1>2, <1>3, <1>5, <2>1, <2>2, <2>3, OnwardKept
<1>7. staff[t].mixed \/ \A s : <<t, s>> \in assigned' => <<t, SchoolOf(s)>> \in linked'
  BY <1>0, <1>1, <1>2 DEF Kept, RowsKept
<1>8. RowsKept(t)'
  BY <1>1, <1>2, <1>4, <1>6, <1>7, RowsBusy DEF RowsKept
<1> QED BY <1>0, <1>1, <1>4, <1>6, <1>8, GoesOn

LEMMA LinkCheckWhole ==
  ASSUME SectionsInv, WholeInv, NEW e \in Editors, Link(e) \/ Check(e), ~Stop(e)
  PROVE  WholeInv'
<1>0. PICK t : t = edit[e].teacher
  OBVIOUS
<1> DEFINE q == edit[e]
<1>1. /\ q.at \in {"link", "check"} /\ UNCHANGED <<staff, assigned>>
  BY DEF Link, Check
<1>2. /\ q \in Edit /\ t \in Teachers /\ RowsKept(t) /\ q.next \in Nat
      /\ Kept(q, staff[t], linked, assigned) /\ ~Done(q)
      /\ DOMAIN q.order = 1..Len(q.order) /\ Len(q.order) \in Nat
  BY <1>0, <1>1, AtWork DEF EditOK
<1>3. PICK n : /\ n.at \in {"check", "clear"} /\ n.teacher = t /\ n.order = q.order
               /\ n.next = q.next /\ n.drops = q.drops /\ n.dropping = q.dropping
               /\ n.alone = q.alone /\ Becomes(e, n)
  <2>1. CASE Link(e)
    <3>1. Becomes(e, [q EXCEPT !.at = "check"])
      BY <2>1 DEF Link
    <3> QED BY <1>0, <1>2, <3>1 DEF Edit
  <2>2. CASE Check(e)
    <3>1. Becomes(e, [q EXCEPT !.at = "clear", !.checked = Wanted(q)])
      BY <2>2 DEF Check
    <3> QED BY <1>0, <1>2, <3>1 DEF Edit
  <2> QED BY <2>1, <2>2
<1>4. edit'[e] = n /\ \A o \in Editors : o # e => Same(edit'[o], edit[o], t)
  BY <1>3, BecomesSame
<1>5. /\ linked \subseteq linked' /\ \A l \in linked' \ linked : l = <<t, AtHand(q)>> /\ Present(t)
      /\ staff[t].there = "there" => <<t, AtHand(q)>> \in linked' \/ q.at = "check"
  BY <1>0 DEF Link, Check, Present
<1>6. q.next \in DOMAIN q.order /\ AtHand(q) \in Listed(q)
  BY <1>0, <1>2, AtHandType DEF AtHand, Listed
<1>7. Kept(n, staff[t], linked', assigned)
  <2>1. Listed(n) = Listed(q)
    BY <1>3 DEF Listed
  <2>2. /\ staff[t].there # "new" /\ (~n.alone => staff[t].mixed /\ staff[t].excused)
        /\ \A x \in Listed(n) : x \notin n.drops /\ x # n.dropping
        /\ n.dropping = None /\ n.drops = {}
    BY <1>1, <1>2, <1>3, <2>1 DEF Kept
  <2>3. n.alone => \A x : <<t, x>> \in linked' => x \in Listed(n)
    <3>1. q.alone => \A x : <<t, x>> \in linked => x \in Listed(q)
      <4>1. \A x : <<t, x>> \in linked => x \in Schools
        BY DEF SectionsInv, RowsOK
      <4> QED BY <1>0, <1>1, <1>2, <4>1, SectionsBounds DEF Kept
    <3> QED BY <1>3, <1>5, <1>6, <2>1, <3>1
  <2>4. n.alone /\ staff[t].there = "there" =>
          \A i \in DOMAIN n.order : i < n.next \/ i = n.next => <<t, n.order[i]>> \in linked'
    <3>1. q.alone /\ staff[t].there = "there" =>
            \A i \in DOMAIN q.order :
              i < q.next \/ (i = q.next /\ q.at = "check") => <<t, q.order[i]>> \in linked
      BY <1>0, <1>1, <1>2 DEF Kept
    <3> QED BY <1>3, <1>5, <3>1 DEF AtHand
  <2> QED BY <1>3, <2>2, <2>3, <2>4 DEF Kept
<1>8. RowsKept(t)'
  BY <1>1, <1>2, <1>3, <1>4, <1>5, RowsBusy DEF RowsKept
<1>9. \A u, s : u # t => (<<u, s>> \in linked' <=> <<u, s>> \in linked)
  BY <1>5
<1> QED BY <1>0, <1>1, <1>3, <1>4, <1>7, <1>8, <1>9, GoesOn

LEMMA NextSchoolKept ==
  ASSUME NEW q \in Edit, q.at \in {"clear", "assign"}, ~Done(q), None \notin Listed(q),
         NEW x, NEW links, NEW rows, NEW r, Kept(q, x, links, rows),
         \A s : <<q.teacher, s>> \in links => s # None
  PROVE  /\ Kept(NextSchool(q), x, links, r)
         /\ NextSchool(q).teacher = q.teacher /\ NextSchool(q).alone = q.alone
         /\ NextSchool(q).at # "idle"
<1> DEFINE n == [q EXCEPT !.next = @ + 1, !.checked = {}, !.passed = {}]
<1>1. /\ n \in Edit /\ n.teacher = q.teacher /\ n.order = q.order /\ n.next = q.next + 1
      /\ n.drops = q.drops /\ n.dropping = q.dropping /\ n.alone = q.alone
  BY AtHandType DEF Edit
<1> HIDE DEF n
<1>2. Listed(n) = Listed(q)
  BY <1>1 DEF Listed
<1>3. /\ n.dropping = None /\ x.there # "new" /\ (~n.alone => x.mixed /\ x.excused)
      /\ \A s \in Listed(n) : s \notin n.drops
  BY <1>1, <1>2 DEF Kept
<1>4. n.alone => \A s : <<n.teacher, s>> \in links => s \in Listed(n) \/ s \in n.drops
  BY <1>1, <1>2 DEF Kept
<1>5. n.alone /\ x.there = "there" =>
        \A i \in DOMAIN n.order : i < n.next => <<n.teacher, n.order[i]>> \in links
  <2>1. \A i \in DOMAIN q.order : i < q.next + 1 => i < q.next \/ i = q.next
    <3>1. /\ q.order \in Seq(Schools) /\ DOMAIN q.order = 1..Len(q.order)
          /\ Len(q.order) \in Nat /\ q.next \in DOMAIN q.order
      BY AtHandType, OrderType DEF Edit
    <3> QED BY <3>1
  <2> QED BY <1>1, <2>1 DEF Kept
<1>6. /\ Kept(Onward(n), x, links, r)
      /\ Onward(n).teacher = n.teacher /\ Onward(n).alone = n.alone
      /\ Onward(n).at # "idle"
  BY <1>1, <1>2, <1>3, <1>4, <1>5, OnwardKept
<1> QED BY <1>1, <1>6 DEF NextSchool, n

LEMMA ClearWhole ==
  ASSUME SectionsInv, WholeInv, NEW e \in Editors, Clear(e)
  PROVE  WholeInv'
<1>0. PICK t : t = edit[e].teacher
  OBVIOUS
<1> DEFINE q == edit[e]
           given == [q EXCEPT !.at = "assign", !.left = Wanted(q)]
<1>1. /\ q.at = "clear" /\ UNCHANGED <<staff, linked>>
      /\ Assigned(assigned \ SectionsAt(q.teacher, AtHand(q)))
      /\ Becomes(e, NextSchool(q)) \/ Becomes(e, given)
  BY DEF Clear
<1>2. /\ q \in Edit /\ t \in Teachers /\ RowsKept(t) /\ None \notin Listed(q)
      /\ Kept(q, staff[t], linked, assigned) /\ ~Done(q)
  BY <1>0, <1>1, AtWork DEF EditOK
<1>3. /\ given.at = "assign" /\ given.teacher = t /\ given.order = q.order
      /\ given.next = q.next /\ given.drops = q.drops /\ given.dropping = q.dropping
      /\ given.alone = q.alone /\ given.left = Wanted(q) /\ given.wants = q.wants
  BY <1>0, <1>2 DEF Edit
<1> HIDE DEF given
<1>4. Kept(given, staff[t], linked, assigned')
  <2>1. Listed(given) = Listed(q) /\ Wanted(given) = Wanted(q)
    BY <1>3 DEF Listed, Wanted, AtHand
  <2> QED BY <1>0, <1>1, <1>2, <1>3, <2>1 DEF Kept
<1>5. /\ Kept(NextSchool(q), staff[t], linked, assigned')
      /\ NextSchool(q).teacher = t /\ NextSchool(q).alone = q.alone
      /\ NextSchool(q).at # "idle"
  <2>1. \A s : <<q.teacher, s>> \in linked => s # None
    BY SectionsBounds DEF SectionsInv, RowsOK
  <2> QED BY <1>0, <1>1, <1>2, <2>1, NextSchoolKept
<1>6. PICK n \in {NextSchool(q), given} :
        edit'[e] = n /\ \A o \in Editors : o # e => Same(edit'[o], edit[o], t)
  BY <1>1, BecomesSame
<1>7. /\ Kept(n, staff[t], linked, assigned')
      /\ n.teacher = t /\ n.alone = q.alone /\ n.at # "idle"
  BY <1>3, <1>4, <1>5, <1>6
<1>8. /\ \A x : <<t, x>> \in assigned' => <<t, x>> \in assigned
      /\ \A u, x : u # t => (<<u, x>> \in assigned' <=> <<u, x>> \in assigned)
  BY <1>0, <1>1 DEF Assigned, SectionsAt
<1>9. RowsKept(t)'
  BY <1>1, <1>2, <1>6, <1>7, <1>8, RowsBusy DEF RowsKept
<1> QED BY <1>0, <1>1, <1>6, <1>7, <1>8, <1>9, GoesOn

\* A section is given in the school at hand, whose link is there while no other
\* edits the teacher.
LEMMA AssignWhole ==
  ASSUME SectionsInv, WholeInv, NEW e \in Editors, Assign(e), ~Stop(e)
  PROVE  WholeInv'
<1>0. PICK t : t = edit[e].teacher
  OBVIOUS
<1> DEFINE q == edit[e]
<1>1. q.at = "assign" /\ UNCHANGED <<staff, linked>>
  BY DEF Assign
<1>2. /\ q \in Edit /\ t \in Teachers /\ RowsKept(t) /\ None \notin Listed(q)
      /\ Kept(q, staff[t], linked, assigned) /\ ~Done(q)
  BY <1>0, <1>1, AtWork DEF EditOK
<1>3. PICK x \in q.left :
        LET rest == [q EXCEPT !.left = @ \ {x}]
        IN  /\ Present(t) /\ assigned' = assigned \cup {<<t, x>>}
            /\ Tell(e, IF rest.left = {} THEN NextSchool(rest) ELSE rest, {x})
  BY <1>0 DEF Assign
<1> DEFINE rest == [q EXCEPT !.left = @ \ {x}]
<1>4. /\ rest \in Edit /\ rest.at = "assign" /\ rest.teacher = t /\ rest.order = q.order
      /\ rest.next = q.next /\ rest.drops = q.drops /\ rest.dropping = q.dropping
      /\ rest.alone = q.alone /\ rest.left = q.left \ {x} /\ rest.wants = q.wants
  BY <1>0, <1>1, <1>2 DEF Edit
<1>5. PICK n \in {NextSchool(rest), rest} :
        edit'[e] = n /\ \A o \in Editors : o # e => Same(edit'[o], edit[o], t)
  BY <1>3, BecomesSame
<1> HIDE DEF rest
<1>6. Listed(rest) = Listed(q) /\ Wanted(rest) = Wanted(q) /\ ~Done(rest)
  BY <1>2, <1>4 DEF Listed, Wanted, AtHand, Done
<1>7. Kept(rest, staff[t], linked, assigned')
  BY <1>0, <1>1, <1>2, <1>4, <1>6 DEF Kept
<1>8. /\ Kept(NextSchool(rest), staff[t], linked, assigned')
      /\ NextSchool(rest).teacher = t /\ NextSchool(rest).alone = q.alone
      /\ NextSchool(rest).at # "idle"
  <2>1. \A s : <<rest.teacher, s>> \in linked => s # None
    BY SectionsBounds DEF SectionsInv, RowsOK
  <2> QED BY <1>2, <1>4, <1>6, <1>7, <2>1, NextSchoolKept
<1>9. /\ Kept(n, staff[t], linked, assigned')
      /\ n.teacher = t /\ n.alone = q.alone /\ n.at # "idle"
  BY <1>4, <1>5, <1>7, <1>8
<1>10. staff[t].mixed \/ <<t, SchoolOf(x)>> \in linked
  <2>1. x \in Wanted(q) /\ (~q.alone => staff[t].mixed)
    BY <1>1, <1>2 DEF Kept
  <2>2. q.alone => <<t, AtHand(q)>> \in linked
    BY <1>0, <1>1, <1>2, <1>3, AtHandType DEF Kept, Present, AtHand
  <2> QED BY <2>1, <2>2 DEF Wanted
<1>11. \A u, s : u # t => (<<u, s>> \in assigned' <=> <<u, s>> \in assigned)
  BY <1>3
<1>12. RowsKept(t)'
  BY <1>1, <1>2, <1>3, <1>5, <1>9, <1>10, RowsBusy DEF RowsKept
<1> QED BY <1>0, <1>1, <1>5, <1>9, <1>11, <1>12, GoesOn

\* An edit that nobody overlapped leaves the account at the first school it linked.
LEMMA TenantWhole ==
  ASSUME SectionsInv, WholeInv, NEW e \in Editors, SetTenant(e), ~Stop(e)
  PROVE  WholeInv'
<1>0. PICK t : t = edit[e].teacher
  OBVIOUS
<1> DEFINE q == edit[e]
<1>1. /\ q.at = "tenant" /\ UNCHANGED <<linked, assigned>> /\ Becomes(e, NoEdit)
      /\ q.order = <<>> \/ Present(t)
      /\ staff' = [staff EXCEPT ![t].tenant = IF q.order = <<>> THEN @ ELSE q.order[1],
                                ![t].named = @ /\ q.order = <<>>,
                                ![t].excused = @ /\ ~q.alone]
  BY <1>0 DEF SetTenant
<1>2. /\ q \in Edit /\ t \in Teachers /\ RowsKept(t) /\ None \notin Listed(q)
      /\ Kept(q, staff[t], linked, assigned) /\ staff \in [Teachers -> Teacher]
      /\ DOMAIN q.order = 1..Len(q.order) /\ Len(q.order) \in Nat /\ q.next \in Nat
      /\ q.order \in Seq(Schools)
  BY <1>0, <1>1, AtWork
<1>3. /\ staff'[t].there = staff[t].there /\ staff'[t].mixed = staff[t].mixed
      /\ staff'[t].tenant = IF q.order = <<>> THEN staff[t].tenant ELSE q.order[1]
      /\ staff'[t].excused <=> staff[t].excused /\ ~q.alone
      /\ \A u \in Teachers : u # t => staff'[u] = staff[u]
  <2>1. PICK x, n : x = (staff[t].excused /\ ~q.alone) /\ n = (staff[t].named /\ q.order = <<>>)
    OBVIOUS
  <2>2. PICK s : s = IF q.order = <<>> THEN staff[t].tenant ELSE q.order[1]
    OBVIOUS
  <2>3. staff' = [staff EXCEPT ![t].tenant = s, ![t].named = n, ![t].excused = x]
    BY <1>1, <2>1, <2>2, Zenon
  <2>4. /\ staff'[t].there = staff[t].there /\ staff'[t].mixed = staff[t].mixed
        /\ staff'[t].tenant = s /\ staff'[t].excused = x
        /\ \A u \in Teachers : u # t => staff'[u] = staff[u]
    BY <1>2, <2>3 DEF Teacher
  <2>5. staff'[t].excused <=> staff[t].excused /\ ~q.alone
    BY <2>1, <2>4, Zenon
  <2> QED BY <2>2, <2>4, <2>5
<1>4. \/ staff'[t].excused \/ SchoolsOf(t) = {}
      \/ <<t, staff'[t].tenant>> \in linked
  <2>1. CASE ~q.alone
    BY <1>2, <1>3, <2>1 DEF Kept
  <2>2. CASE q.alone /\ q.order = <<>>
    <3>1. \A s \in Schools : <<t, s>> \notin linked
      <4>1. Listed(q) = {}
        BY <2>2 DEF Listed
      <4> QED BY <1>0, <1>1, <1>2, <2>2, <4>1, SectionsBounds DEF Kept
    <3> QED BY <3>1 DEF SchoolsOf
  <2>3. CASE q.alone /\ q.order # <<>>
    <3>1. 1 \in DOMAIN q.order
      BY <1>2, <2>3
    <3>2. 1 < q.next
      BY <1>1, <1>2, <3>1 DEF Kept, Done
    <3>3. <<t, q.order[1]>> \in linked
      BY <1>0, <1>1, <1>2, <2>3, <3>1, <3>2 DEF Kept, Present
    <3> QED BY <1>3, <2>3, <3>3
  <2> QED BY <2>1, <2>2, <2>3
<1>5. RowsKept(t)'
  <2>1. SchoolsOf(t)' = SchoolsOf(t)
    BY <1>1 DEF SchoolsOf
  <2> QED BY <1>1, <1>2, <1>3, <1>4, <2>1 DEF RowsKept, Present
<1>6. edit'[e] = NoEdit /\ \A o \in Editors : o # e => Same(edit'[o], edit[o], t)
  BY <1>1, BecomesSame
<1>7. /\ staff[t].mixed => staff'[t].mixed
      /\ staff[t].excused /\ ~q.alone => staff'[t].excused
      /\ staff[t].there # "new" => staff'[t].there # "new"
      /\ \A u \in Teachers : u # t => staff'[u] = staff[u]
  BY <1>3
<1>8. /\ \A u, s : u # t => (<<u, s>> \in linked' <=> <<u, s>> \in linked)
      /\ \A u, s : u # t => (<<u, s>> \in assigned' <=> <<u, s>> \in assigned)
      /\ q.at # "idle"
  BY <1>1
<1> QED BY <1>0, <1>5, <1>6, <1>7, <1>8, GoesOn

LEMMA CreateWhole ==
  ASSUME SectionsInv, WholeInv, NEW e \in Editors, NEW t \in Teachers, CreateTeacher(e, t)
  PROVE  WholeInv'
<1>1. /\ edit[e] = NoEdit /\ staff[t].there = "new" /\ EditsOf(t) = {}
      /\ UNCHANGED <<staff, linked, assigned>>
  BY DEF CreateTeacher
<1>2. PICK order \in Orders, sections \in SUBSET Sections, tenant \in Schools \cup {None} :
        Becomes(e, [NoEdit EXCEPT !.at = "newCheck", !.teacher = t, !.order = order,
                                  !.wants = sections, !.tenant = tenant])
  BY DEF CreateTeacher
<1> DEFINE n == [NoEdit EXCEPT !.at = "newCheck", !.teacher = t, !.order = order,
                               !.wants = sections, !.tenant = tenant]
<1>3. n.at = "newCheck" /\ n.teacher = t /\ n.alone = TRUE
  BY DEF NoEdit
<1>4. edit'[e] = n /\ \A o \in Editors : o # e => Same(edit'[o], edit[o], t)
  BY <1>2, BecomesSame
<1> HIDE DEF n
<1>5. Kept(edit'[e], staff'[t], linked', assigned')
  BY <1>1, <1>3, <1>4 DEF Kept
<1>6. RowsKept(t)'
  <2>1. RowsKept(t) /\ ~Present(t)
    BY <1>1 DEF WholeInv, Present
  <2> QED BY <1>1, <1>3, <1>4, <2>1, RowsBusy DEF RowsKept
<1>7. ASSUME NEW o \in Editors, o # e, edit[o].teacher = t PROVE FALSE
  BY <1>1, <1>7 DEF EditsOf
<1>8. /\ edit[e].teacher = None /\ edit'[e].teacher = t /\ edit'[e].at # "idle"
      /\ \A u \in Teachers : u # t => staff'[u] = staff[u]
      /\ \A u, s : u # t => (<<u, s>> \in linked' <=> <<u, s>> \in linked)
      /\ \A u, s : u # t => (<<u, s>> \in assigned' <=> <<u, s>> \in assigned)
  BY <1>1, <1>3, <1>4 DEF NoEdit
<1>9. \A o \in Editors : edit[o].at # "idle" => edit[o].teacher \in Teachers
  BY DEF SectionsInv, EditsOK, EditOK
<1>10. edit[e].teacher \in {t, None} /\ edit'[e].teacher \in {t, None}
  BY <1>8
<1>11. /\ edit'[e].at = "idle" => edit'[e].teacher = None
       /\ edit'[e].at # "idle" =>
            /\ edit'[e].teacher = t
            /\ Kept(edit'[e], staff'[t], linked', assigned')
            /\ edit'[e].alone => \A o \in Editors : edit[o].teacher = t => o = e
  BY <1>1, <1>5, <1>8 DEF EditsOf
<1>12. \A o \in Editors : o # e => Same(edit'[o], edit[o], t)
  BY <1>4
<1>13. \A o \in Editors : o # e /\ edit[o].teacher = t =>
          /\ ~edit'[o].alone /\ edit[o].at \notin {"idle", "newCheck"}
          /\ staff'[t].mixed /\ staff'[t].excused /\ staff'[t].there # "new"
  BY <1>7
<1>14. /\ \A u \in Teachers : u # t => staff'[u] = staff[u]
       /\ \A u, s : u # t => (<<u, s>> \in linked' <=> <<u, s>> \in linked)
       /\ \A u, s : u # t => (<<u, s>> \in assigned' <=> <<u, s>> \in assigned)
  BY <1>1
<1> QED BY ONLY <1>6, <1>9, <1>10, <1>11, <1>12, <1>13, <1>14, StepKeeps, WholeInv, ZenonT(60)

\* An edit starts with the schools to drop that the teacher has now; it and those
\* it overlaps are told.
LEMMA UpdateWhole ==
  ASSUME SectionsInv, WholeInv, NEW e \in Editors, NEW t \in Teachers, UpdateTeacher(e, t)
  PROVE  WholeInv'
<1> DEFINE others == EditsOf(t)
<1>1. /\ edit[e] = NoEdit /\ Present(t) /\ UNCHANGED <<linked, assigned>>
  BY DEF UpdateTeacher
<1>2. PICK order \in Orders, sections \in SUBSET Sections, tenant \in Schools \cup {None} :
        LET row == AtTenant(staff[t], tenant)
            q == [NoEdit EXCEPT !.teacher = t, !.order = order, !.wants = sections,
                                !.alone = (others = {})]
        IN  /\ Requested(order, sections)
            /\ edit' = [o \in Editors |->
                  IF o = e THEN Onward([q EXCEPT !.drops = SchoolsOf(t) \ Listed(q)])
                  ELSE IF o \in others THEN [edit[o] EXCEPT !.alone = FALSE]
                  ELSE edit[o]]
            /\ staff' = [staff EXCEPT ![t] =
                  [row EXCEPT !.excused = @ \/ others # {},
                              !.mixed = @ \/ others # {}]]
  BY ZenonT(60) DEF UpdateTeacher
<1>3. PICK single \in BOOLEAN : single = (others = {})
  OBVIOUS
<1> DEFINE q == [NoEdit EXCEPT !.teacher = t, !.order = order, !.wants = sections,
                               !.alone = single]
           p == [q EXCEPT !.drops = SchoolsOf(t) \ Listed(q)]
<1>4. /\ q \in Edit /\ q.teacher = t /\ q.order = order /\ q.next = 1 /\ q.alone = single
      /\ q.dropping = None
  <2>1. NoEdit \in Edit
    BY NoEditOK DEF EditOK
  <2> QED BY <1>3, <2>1 DEF NoEdit, Edit
<1> HIDE DEF q
<1>5. /\ p \in Edit /\ p.teacher = t /\ p.order = order /\ p.next = 1 /\ p.alone = single
      /\ p.drops = SchoolsOf(t) \ Listed(q) /\ p.dropping = None /\ Listed(p) = Listed(q)
  <2>1. /\ p \in Edit /\ p.teacher = t /\ p.order = order /\ p.next = 1 /\ p.alone = single
        /\ p.drops = SchoolsOf(t) \ Listed(q) /\ p.dropping = None
    BY <1>4 DEF Edit, SchoolsOf
  <2> QED BY <1>4, <2>1 DEF Listed
<1> HIDE DEF p
<1>6. edit'[e] = Onward(p) /\ staff \in [Teachers -> Teacher] /\ edit \in [Editors -> Edit]
  <2>1. [NoEdit EXCEPT !.teacher = t, !.order = order, !.wants = sections,
                       !.alone = (others = {})] = q
    BY <1>3, Zenon DEF q
  <2> QED BY <1>2, <2>1 DEF p, SectionsInv, RowsOK
<1>7. /\ staff'[t].there = staff[t].there
      /\ staff[t].mixed \/ ~single => staff'[t].mixed
      /\ ~single => staff'[t].excused
      /\ \A u \in Teachers : u # t => staff'[u] = staff[u]
  <2>0. PICK a : a = AtTenant(staff[t], tenant)
    OBVIOUS
  <2>a. /\ a \in Teacher /\ a.there = staff[t].there
        /\ a.excused = staff[t].excused /\ a.mixed = staff[t].mixed
    BY <1>6, <2>0, AtTenantType
  <2>1. PICK x : x = (a.excused \/ others # {})
    OBVIOUS
  <2>2. PICK y : y = (a.mixed \/ others # {})
    OBVIOUS
  <2>3. staff' = [staff EXCEPT ![t] = [a EXCEPT !.excused = x, !.mixed = y]]
    BY <1>2, <2>0, <2>1, <2>2, Zenon
  <2>4. /\ staff'[t].there = staff[t].there
        /\ staff'[t].excused = x /\ staff'[t].mixed = y
        /\ \A u \in Teachers : u # t => staff'[u] = staff[u]
    BY <1>6, <2>3, <2>a DEF Teacher
  <2>5. /\ staff[t].mixed \/ ~single => staff'[t].mixed
        /\ ~single => staff'[t].excused
    BY <1>3, <2>1, <2>2, <2>4, <2>a, Zenon
  <2> QED BY <2>4, <2>5
<1>8. staff'[t].there = "there"
  BY <1>1, <1>7 DEF Present
<1>9. /\ Kept(Onward(p), staff'[t], linked, assigned)
      /\ Onward(p).teacher = t /\ Onward(p).alone = single /\ Onward(p).at # "idle"
  <2>1. None \notin Listed(p)
    BY <1>5, OrderType, SectionsBounds DEF Listed
  <2>2. \A s : <<t, s>> \in linked => s \in SchoolsOf(t)
    BY DEF SectionsInv, RowsOK, SchoolsOf
  <2>3. \A i \in DOMAIN p.order : ~(i < p.next)
    <3>1. DOMAIN order = 1..Len(order)
      BY OrderType
    <3> QED BY <1>5, <3>1
  <2> QED BY <1>5, <1>7, <1>8, <2>1, <2>2, <2>3, OnwardKept
<1>10. \A o \in Editors : o # e => Same(edit'[o], edit[o], t)
  <2> SUFFICES ASSUME NEW o \in Editors, o # e PROVE Same(edit'[o], edit[o], t)
    OBVIOUS
  <2>1. CASE o \in others
    <3>1. edit'[o] = [edit[o] EXCEPT !.alone = FALSE] /\ edit[o] \in Edit
      BY <1>2, <1>6, <2>1
    <3>2. edit[o].teacher = t
      BY <2>1 DEF EditsOf
    <3> QED BY <3>1, <3>2 DEF Same, Edit
  <2>2. CASE o \notin others
    BY <1>2, <2>2 DEF Same
  <2> QED BY <2>1, <2>2
<1>11. ASSUME NEW o \in Editors, o # e, edit[o].teacher = t
       PROVE  /\ ~edit'[o].alone /\ edit[o].at \notin {"idle", "newCheck"}
              /\ ~single
  <2>1. o \in others
    BY <1>11 DEF EditsOf
  <2>2. edit'[o] = [edit[o] EXCEPT !.alone = FALSE] /\ edit[o] \in Edit
    BY <1>2, <1>6, <1>11, <2>1
  <2>3. ~edit'[o].alone
    BY <2>2 DEF Edit
  <2>4. EditKept(o)
    BY DEF WholeInv
  <2>5. edit[o].at \notin {"idle", "newCheck"}
    BY <1>1, <1>11, <2>4, TimetableBounds DEF EditKept, Kept, Present
  <2>6. ~single
    BY <1>3, <2>1
  <2> QED BY <2>3, <2>5, <2>6
<1>12. edit[e].teacher = None
  BY <1>1 DEF NoEdit
<1>13. \A o \in Editors : edit[o].at # "idle" => edit[o].teacher \in Teachers
  BY DEF SectionsInv, EditsOK, EditOK
<1>14. single => \A o \in Editors : edit[o].teacher = t => o = e
  BY <1>11
<1>15. RowsKept(t)'
  <2>1. e \in EditsOf(t)'
    BY <1>6, <1>9 DEF EditsOf
  <2>2. RowsKept(t)
    BY DEF WholeInv
  <2> QED BY <1>1, <1>7, <1>8, <2>1, <2>2 DEF RowsKept, Present
<1> QED BY <1>1, <1>6, <1>7, <1>8, <1>9, <1>10, <1>11, <1>12, <1>13, <1>14, <1>15, StepKeeps

\* An update of the user row alone: a tenant other than the one it had is named.
LEMMA AccountWhole ==
  ASSUME SectionsInv, WholeInv, NEW t \in Teachers, UpdateAccount(t)
  PROVE  WholeInv'
<1>1. PICK tenant \in Schools \cup {None} :
        staff' = [staff EXCEPT ![t] = AtTenant(@, tenant)]
  BY DEF UpdateAccount
<1>2. UNCHANGED <<linked, assigned, edit>> /\ staff \in [Teachers -> Teacher]
  BY DEF UpdateAccount, SectionsInv, RowsOK
<1>3. /\ staff'[t].there = staff[t].there /\ staff'[t].mixed = staff[t].mixed
      /\ staff'[t].excused = staff[t].excused /\ staff'[t].tenant = tenant
      /\ \A u \in Teachers : u # t => staff'[u] = staff[u]
  BY <1>1, <1>2, AtTenantType
<1>4. staff'[t].named <=> staff[t].named \/ tenant # staff[t].tenant
  BY <1>1, <1>2, AtTenantNamed
<1>5. ASSUME NEW u \in Teachers PROVE RowsKept(u)'
  <2>1. RowsKept(u) /\ EditsOf(u)' = EditsOf(u) /\ SchoolsOf(u)' = SchoolsOf(u)
    BY <1>2 DEF WholeInv, EditsOf, SchoolsOf
  <2>2. CASE u = t
    BY <1>2, <1>3, <1>4, <2>1, <2>2 DEF RowsKept, Present
  <2>3. CASE u # t
    BY <1>2, <1>3, <2>1, <2>3 DEF RowsKept, Present
  <2> QED BY <2>2, <2>3
<1>6. ASSUME NEW e \in Editors PROVE EditKept(e)'
  <2>1. EditKept(e)
    BY DEF WholeInv
  <2>2. CASE edit[e].at = "idle"
    BY <1>2, <2>1, <2>2 DEF EditKept
  <2>3. CASE edit[e].at # "idle"
    <3>1. PICK u \in Teachers : u = edit[e].teacher
      BY <2>3 DEF SectionsInv, EditsOK, EditOK
    <3>2. Kept(edit[e], staff[u], linked, assigned)
      BY <2>1, <2>3, <3>1 DEF EditKept
    <3>3. /\ staff'[u].there = staff[u].there /\ staff'[u].mixed = staff[u].mixed
          /\ staff'[u].excused = staff[u].excused
      BY <1>3
    <3>4. Kept(edit[e], staff'[u], linked, assigned)
      BY <3>2, <3>3 DEF Kept
    <3> QED BY <1>2, <2>1, <2>3, <3>1, <3>4 DEF EditKept
  <2> QED BY <2>2, <2>3
<1> QED BY <1>5, <1>6 DEF WholeInv

LEMMA DeleteWhole ==
  ASSUME SectionsInv, WholeInv, NEW t \in Teachers, DeleteTeacher(t)
  PROVE  WholeInv'
<1>1. /\ Present(t) /\ edit' = edit
      /\ staff' = [staff EXCEPT ![t].there = "deleted", ![t].tenant = None]
      /\ linked' = {l \in linked : l[1] # t} /\ Assigned({a \in assigned : a[1] # t})
  BY DEF DeleteTeacher
<1>2. /\ \A s : <<t, s>> \notin linked' /\ <<t, s>> \notin assigned'
      /\ \A u, s : u # t => (<<u, s>> \in linked' <=> <<u, s>> \in linked)
      /\ \A u, s : u # t => (<<u, s>> \in assigned' <=> <<u, s>> \in assigned)
  BY <1>1 DEF Assigned
<1>3. /\ staff'[t].there = "deleted" /\ staff'[t].mixed = staff[t].mixed
      /\ staff'[t].excused = staff[t].excused
      /\ \A u \in Teachers : u # t => staff'[u] = staff[u]
  BY <1>1 DEF SectionsInv, RowsOK, Teacher
<1>4. ASSUME NEW u \in Teachers PROVE RowsKept(u)'
  <2>1. RowsKept(u) /\ EditsOf(u)' = EditsOf(u)
    BY <1>1 DEF WholeInv, EditsOf
  <2>2. CASE u = t
    BY <1>2, <1>3, <2>2 DEF RowsKept, SchoolsOf
  <2>3. CASE u # t
    <3>1. SchoolsOf(u)' = SchoolsOf(u)
      BY <1>2, <2>3 DEF SchoolsOf
    <3> QED BY <1>2, <1>3, <2>1, <2>3, <3>1 DEF RowsKept, Present
  <2> QED BY <2>2, <2>3
<1>5. ASSUME NEW e \in Editors PROVE EditKept(e)'
  <2>1. EditKept(e) /\ edit'[e] = edit[e]
    BY <1>1 DEF WholeInv
  <2>2. CASE edit[e].at = "idle"
    BY <2>1, <2>2 DEF EditKept
  <2>3. CASE edit[e].at # "idle"
    <3>1. PICK u \in Teachers : u = edit[e].teacher
      BY <2>3 DEF SectionsInv, EditsOK, EditOK
    <3>2. Kept(edit[e], staff[u], linked, assigned)
      BY <2>1, <2>3, <3>1 DEF EditKept
    <3>3. Kept(edit[e], staff'[u], linked', assigned')
      <4>1. CASE u = t
        BY <1>1, <1>2, <1>3, <3>1, <3>2, <4>1 DEF Kept, Present
      <4>2. CASE u # t
        BY <1>2, <1>3, <3>1, <3>2, <4>2, OtherKept
      <4> QED BY <4>1, <4>2
    <3> QED BY <1>1, <2>1, <2>3, <3>1, <3>3 DEF EditKept
  <2> QED BY <2>2, <2>3
<1> QED BY <1>4, <1>5 DEF WholeInv

LEMMA SectionsWhole ==
  ASSUME SectionsInv, WholeInv, SectionsNext
  PROVE  WholeInv'
<1>1. ASSUME NEW e \in Editors, Stop(e),
             DropLink(e) \/ Link(e) \/ Check(e) \/ Assign(e) \/ SetTenant(e) \/ Fail(e)
      PROVE  WholeInv'
  <2>1. edit[e].at # "idle"
    BY <1>1 DEF DropLink, Link, Check, Assign, SetTenant, Fail
  <2> QED BY <1>1, <2>1, StopWhole
<1> QED
  BY <1>1, CreateWhole, UpdateWhole, NewWhole, CommitWhole, DropSectionsWhole,
     DropLinkWhole, LinkCheckWhole, ClearWhole, AssignWhole, TenantWhole, AccountWhole,
     DeleteWhole DEF SectionsNext

\* The timetable and stuttering leave the teachers' rows alone.
LEMMA StillWhole ==
  ASSUME WholeInv, UNCHANGED <<staff, linked, assigned, edit>>
  PROVE  WholeInv'
<1>1. \A e \in Editors : EditKept(e)'
  BY DEF WholeInv, EditKept
<1>2. ASSUME NEW t \in Teachers PROVE RowsKept(t)'
  <2>1. EditsOf(t)' = EditsOf(t) /\ SchoolsOf(t)' = SchoolsOf(t) /\ RowsKept(t)
    BY DEF EditsOf, SchoolsOf, WholeInv
  <2> QED BY <2>1 DEF RowsKept, Present
<1> QED BY <1>1, <1>2 DEF WholeInv

LEMMA WholeInit == Init => WholeInv
<1> SUFFICES ASSUME Init PROVE WholeInv
  OBVIOUS
<1>1. \A e \in Editors : EditKept(e)
  BY DEF Init, EditKept, NoEdit
<1>2. \A t \in Teachers : RowsKept(t)
  BY DEF Init, RowsKept, SchoolsOf
<1> QED BY <1>1, <1>2 DEF WholeInv

LEMMA WholeInvariant == Spec => []WholeInv
<1>1. StaffingInv /\ WholeInv /\ [Next]_vars => WholeInv'
  <2> SUFFICES ASSUME StaffingInv, WholeInv, [Next]_vars PROVE WholeInv'
    OBVIOUS
  <2>1. CASE SectionsNext
    BY <2>1, SectionsWhole DEF StaffingInv
  <2>2. CASE UNCHANGED sectionsVars
    BY <2>2, StillWhole DEF sectionsVars
  <2> QED BY <2>1, <2>2 DEF Next, vars
<1> QED BY <1>1, WholeInit, StaffingInvariant, PTL DEF Spec

\* A teacher has sections only in schools of the teacher's, and the account is at
\* one of them, but for edits that overlapped, stopped or are under way and for a
\* tenant that the creation or a later update named by itself.
THEOREM TeachersAreWhole == Spec => []TeachersWhole
<1>1. WholeInv => TeachersWhole
  <2> SUFFICES ASSUME WholeInv, NEW t \in Teachers
               PROVE  /\ staff[t].mixed \/ \A x \in Sections :
                           <<t, x>> \in assigned => <<t, SchoolOf(x)>> \in linked
                      /\ \/ staff[t].excused \/ staff[t].named
                         \/ EditsOf(t) # {} \/ SchoolsOf(t) = {}
                         \/ <<t, staff[t].tenant>> \in linked
    BY DEF TeachersWhole
  <2> QED BY DEF WholeInv, RowsKept
<1> QED BY <1>1, WholeInvariant, PTL

-----------------------------------------------------------------------------
\* What a booking does not ask to change is as its class has it, unless another
\* booking was written since it read the class.
AsRead(q) ==
    q.at # "idle" /\ q.row # 0 =>
        /\ q.row \in DOMAIN classes
        /\ q.stale \/ \A f \in Fields \ q.asked : q.class[f] = classes[q.row][f]

ReadInv == TimetableInv /\ \A b \in Bookers : AsRead(booking[b])

\* Marking a row or a booking as deleted or raced changes no field.
SameFields(x, y) == \A f \in Fields : x[f] = y[f]

LEMMA FieldsStay ==
  ASSUME NEW x \in Class, NEW y, NEW v \in BOOLEAN,
         y = [x EXCEPT !.raced = v] \/ y = [x EXCEPT !.gone = v]
  PROVE  SameFields(x, y)
BY DEF Class, Fields, SameFields

LEMMA AfterRoomAsRead ==
  ASSUME NEW q \in Booking, q.class \in Class
  PROVE  /\ AfterRoom(q).row = q.row /\ AfterRoom(q).asked = q.asked
         /\ AfterRoom(q).stale = q.stale
         /\ SameFields(q.class, AfterRoom(q).class)
<1>1. AfterRoom(q).class = [q.class EXCEPT !.raced = FALSE]
  BY DEF AfterRoom, Booking
<1>2. /\ AfterRoom(q).row = q.row /\ AfterRoom(q).asked = q.asked
      /\ AfterRoom(q).stale = q.stale
  BY DEF AfterRoom, Booking
<1> QED BY <1>1, <1>2, FieldsStay

LEMMA AfterPeriodAsRead ==
  ASSUME NEW q \in Booking, q.class \in Class
  PROVE  /\ AfterPeriod(q).row = q.row /\ AfterPeriod(q).asked = q.asked
         /\ AfterPeriod(q).stale = q.stale
         /\ SameFields(q.class, AfterPeriod(q).class)
<1>1. LET p == [q EXCEPT !.at = "room"]
      IN  p.row = q.row /\ p.asked = q.asked /\ p.stale = q.stale /\ p.class = q.class
  BY DEF Booking
<1> QED BY <1>1, AfterRoomAsRead DEF AfterPeriod, SameFields

\* A booking that goes on keeps what it has read.
LEMMA GoesAsRead ==
  ASSUME ReadInv, NEW b \in Bookers, NEW q, Goes(b, q), AsRead(q), UNCHANGED classes
  PROVE  \A o \in Bookers : AsRead(booking[o])'
<1>1. \A o \in Bookers : booking'[o] = q \/ booking'[o] = booking[o]
  BY DEF ReadInv, TimetableInv, TimetableTypeOK, Goes
<1> QED BY <1>1 DEF ReadInv, AsRead

\* A write makes all that others have read stale.
LEMMA WriteAsRead ==
  ASSUME ReadInv, NEW b \in Bookers, WriteSchedule(b), NEW o \in Bookers
  PROVE  AsRead(booking[o])'
<1> DEFINE q == booking[o]
<1>1. DOMAIN classes \subseteq DOMAIN classes'
  BY DEF WriteSchedule, ReadInv, TimetableInv, TimetableTypeOK
<1>2. CASE o = b
  BY <1>2 DEF WriteSchedule, Overtakes, AsRead, Idle
<1>3. CASE o # b /\ q.at = "idle"
  BY <1>3 DEF WriteSchedule, Overtakes, AsRead
<1>4. CASE o # b /\ q.at # "idle"
  <2>1. booking'[o] = [q EXCEPT !.stale = TRUE, !.class.raced = (q.at = "write")]
    BY <1>4 DEF WriteSchedule, Overtakes
  <2>2. q \in Booking
    BY DEF ReadInv, TimetableInv, TimetableTypeOK
  <2>3. booking'[o].row = q.row /\ booking'[o].stale
    BY <2>1, <2>2 DEF Booking
  <2> QED BY <1>1, <1>4, <2>3 DEF ReadInv, AsRead
<1> QED BY <1>2, <1>3, <1>4

LEMMA TimetableAsRead ==
  ASSUME ReadInv, TimetableNext
  PROVE  \A o \in Bookers : AsRead(booking[o])'
<1>1. ASSUME NEW x \in Rooms \cup Periods, CreateStock(x) \/ DeleteStock(x)
      PROVE  \A o \in Bookers : AsRead(booking[o])'
  BY <1>1 DEF CreateStock, DeleteStock, ReadInv, AsRead
<1>2. ASSUME NEW b \in Bookers, CreateSchedule(b)
      PROVE  \A o \in Bookers : AsRead(booking[o])'
  <2>1. PICK given \in Given :
          Goes(b, [Idle EXCEPT !.at = "period", !.asked = Fields, !.class = given])
    BY <1>2 DEF CreateSchedule
  <2>2. AsRead([Idle EXCEPT !.at = "period", !.asked = Fields, !.class = given])
    BY DEF AsRead, Idle
  <2> QED BY <1>2, <2>1, <2>2, GoesAsRead DEF CreateSchedule
<1>3. ASSUME NEW b \in Bookers, UpdateSchedule(b)
      PROVE  \A o \in Bookers : AsRead(booking[o])'
  <2>1. PICK c \in DOMAIN classes, given \in Given :
          LET asked == {f \in Fields : given[f] # classes[c][f]}
              q == [Idle EXCEPT !.row = c, !.asked = asked, !.class = given]
          IN  Goes(b, IF given.period # classes[c].period
                      THEN [q EXCEPT !.at = "period"] ELSE AfterPeriod(q))
    BY <1>3 DEF UpdateSchedule
  <2> DEFINE asked == {f \in Fields : given[f] # classes[c][f]}
             q == [Idle EXCEPT !.row = c, !.asked = asked, !.class = given]
             next == [q EXCEPT !.at = "period"]
  <2>2. \A f \in Fields \ asked : given[f] = classes[c][f]
    OBVIOUS
  <2>3. given \in Class /\ asked \subseteq Fields /\ c \in 0..MaxClasses
    BY TimetableBounds DEF Given, ReadInv, TimetableInv, TimetableTypeOK
  <2> HIDE DEF asked
  <2>4. /\ q \in Booking /\ q.row = c /\ q.class = given /\ q.asked = asked
        /\ next.row = c /\ next.class = given /\ next.asked = asked
    BY <2>3 DEF Booking, Idle
  <2> HIDE DEF q, next
  <2>5. AsRead(next) /\ AsRead(AfterPeriod(q))
    BY <2>2, <2>3, <2>4, AfterPeriodAsRead DEF AsRead, SameFields
  <2>6. Goes(b, next) \/ Goes(b, AfterPeriod(q))
    BY <2>1 DEF next, q, asked
  <2> QED BY <1>3, <2>5, <2>6, GoesAsRead DEF UpdateSchedule
<1>4. ASSUME NEW b \in Bookers,
             FindPeriod(b) \/ FindRoom(b) \/ CheckConflict(b) \/ WriteFails(b)
      PROVE  \A o \in Bookers : AsRead(booking[o])'
  <2> DEFINE q == booking[b]
             written == [q EXCEPT !.at = "write"]
  <2>1. q \in Booking /\ q.class \in Class /\ q.at # "idle" /\ AsRead(q)
    BY <1>4 DEF ReadInv, TimetableInv, TimetableTypeOK, Booked, FindPeriod, FindRoom,
                CheckConflict, WriteFails
  <2>2. /\ written.class = q.class /\ written.row = q.row /\ written.asked = q.asked
        /\ written.stale = q.stale
    BY <2>1 DEF Booking
  <2>3. AsRead(Idle)
    BY DEF AsRead, Idle
  <2>4. UNCHANGED classes
    BY <1>4 DEF FindPeriod, FindRoom, CheckConflict, WriteFails, Refuse
  <2>5. Goes(b, Idle) \/ Goes(b, AfterPeriod(q)) \/ Goes(b, AfterRoom(q)) \/ Goes(b, written)
    BY <1>4 DEF FindPeriod, FindRoom, CheckConflict, WriteFails, Refuse
  <2> HIDE DEF q, written
  <2>6. AsRead(AfterPeriod(q)) /\ AsRead(AfterRoom(q)) /\ AsRead(written)
    BY <2>1, <2>2, AfterPeriodAsRead, AfterRoomAsRead DEF AsRead, SameFields
  <2> QED BY <2>3, <2>4, <2>5, <2>6, GoesAsRead
<1>5. ASSUME NEW c \in DOMAIN classes, DeleteSchedule(c)
      PROVE  \A o \in Bookers : AsRead(booking[o])'
  <2>1. classes[c] \in Class
    BY DEF ReadInv, TimetableInv, TimetableTypeOK
  <2>2. /\ classes' = [classes EXCEPT ![c] = [classes[c] EXCEPT !.gone = TRUE]]
        /\ UNCHANGED booking
    BY <1>5 DEF DeleteSchedule
  <2>3. /\ DOMAIN classes' = DOMAIN classes
        /\ \A d \in DOMAIN classes, f \in Fields : classes'[d][f] = classes[d][f]
    <3>1. /\ DOMAIN classes' = DOMAIN classes
          /\ classes'[c] = [classes[c] EXCEPT !.gone = TRUE]
          /\ \A d \in DOMAIN classes \ {c} : classes'[d] = classes[d]
      BY <2>2
    <3>2. SameFields(classes[c], classes'[c])
      BY <2>1, <3>1, FieldsStay
    <3> QED BY <3>1, <3>2, Zenon DEF SameFields
  <2>4. ASSUME NEW o \in Bookers PROVE AsRead(booking[o])'
    <3>1. AsRead(booking[o])
      BY DEF ReadInv
    <3> QED BY <2>2, <2>3, <3>1 DEF AsRead
  <2> QED BY <2>4
<1> QED BY <1>1, <1>2, <1>3, <1>4, <1>5, WriteAsRead DEF TimetableNext

LEMMA ReadInvariant == Spec => [](StaffingInv /\ ReadInv)
<1>1. Init => StaffingInv /\ ReadInv
  BY StaffingInit DEF StaffingInv, ReadInv, AsRead, Init, TimetableInit, Idle
<1>2. ASSUME StaffingInv /\ ReadInv, [Next]_vars PROVE (StaffingInv /\ ReadInv)'
  <2>1. StaffingInv'
    BY <1>2, StaffingStep
  <2>2. CASE TimetableNext
    BY <1>2, <2>1, <2>2, TimetableAsRead DEF StaffingInv, ReadInv
  <2>3. CASE SectionsNext \/ UNCHANGED vars
    <3>1. UNCHANGED <<classes, booking>>
      BY <2>3, SectionsLeave DEF vars, timetableVars
    <3> QED BY <1>2, <2>1, <3>1 DEF StaffingInv, ReadInv, AsRead
  <2> QED BY <1>2, <2>1, <2>2, <2>3 DEF Next
<1> QED BY <1>1, <1>2, PTL DEF Spec

\* An edit of a class takes back a column only when it asks for it or another
\* booking was written since it read the class.
THEOREM EditsAreKept == Spec => EditsKept
<1> DEFINE By(c, f) == \E b \in Bookers :
                          /\ booking[b].row = c /\ booking'[b] = Idle
                          /\ f \in booking[b].asked \/ (booking[b].stale /\ f # "active")
           Holds == \A c \in DOMAIN classes, f \in Fields :
                      classes'[c][f] # classes[c][f] => By(c, f)
<1>1. ASSUME StaffingInv, ReadInv, [Next]_vars PROVE [Holds]_vars
  <2>1. SUFFICES ASSUME NEW c \in DOMAIN classes, NEW f \in Fields,
                        classes'[c][f] # classes[c][f], Next
                 PROVE  By(c, f)
    BY <1>1
  <2>0. /\ classes'[c] # classes[c] /\ classes' # classes
        /\ ~SameFields(classes[c], classes'[c])
    BY <2>1, Zenon DEF SameFields
  <2>2. TimetableNext
    BY <2>0, <2>1, SectionsLeave DEF Next, timetableVars
  <2>3. ~\E d \in DOMAIN classes : DeleteSchedule(d)
    <3>1. ASSUME NEW d \in DOMAIN classes, DeleteSchedule(d) PROVE FALSE
      <4>1. classes' = [classes EXCEPT ![d] = [classes[d] EXCEPT !.gone = TRUE]]
        BY <3>1 DEF DeleteSchedule
      <4>2. classes[d] \in Class
        BY <1>1 DEF StaffingInv, TimetableInv, TimetableTypeOK
      <4>3. c = d /\ classes'[c] = [classes[c] EXCEPT !.gone = TRUE]
        BY <2>0, <4>1
      <4> QED BY <2>0, <4>2, <4>3, FieldsStay
    <3> QED BY <3>1
  <2>4. PICK b \in Bookers : WriteSchedule(b)
    BY <2>0, <2>2, <2>3 DEF TimetableNext, CreateStock, DeleteStock, CreateSchedule,
                            UpdateSchedule, FindPeriod, FindRoom, CheckConflict, WriteFails,
                            Refuse
  <2> DEFINE q == booking[b]
  <2>5. q \in Booking /\ q.class \in Class /\ q.at = "write" /\ AsRead(q) /\ classes[c] \in Class
    BY <1>1, <2>4 DEF StaffingInv, ReadInv, TimetableInv, TimetableTypeOK, Booked, WriteSchedule
  <2>6. q.row = c /\ q.row # 0 /\ classes'[c] = Stored(q, classes[c])
    <3>1. classes \in Seq(Class)
      BY <1>1 DEF StaffingInv, TimetableInv, TimetableTypeOK
    <3>2. CASE q.row = 0 /\ classes' = Append(classes, q.class)
      <4>1. classes'[c] = classes[c]
        BY <2>5, <3>1, <3>2
      <4> QED BY <2>0, <4>1
    <3>3. CASE /\ q.row # 0
               /\ classes' = [classes EXCEPT ![q.row] = Stored(q, classes[q.row])]
      <4>1. q.row = c
        BY <2>0, <3>3
      <4>2. classes'[c] = Stored(q, classes[c])
        BY <3>3, <4>1, Zenon
      <4> QED BY <3>3, <4>1, <4>2
    <3>4. \/ q.row = 0 /\ classes' = Append(classes, q.class)
          \/ /\ q.row # 0
             /\ classes' = [classes EXCEPT ![q.row] = Stored(q, classes[q.row])]
      BY <2>4, Zenon DEF WriteSchedule
    <3> QED BY <3>2, <3>3, <3>4
  <2>7. booking'[b] = Idle
    BY <2>4 DEF WriteSchedule, Overtakes
  <2>8. f \in q.asked \/ (q.stale /\ f # "active")
    <3>1. CASE "active" \in q.asked
      <4>1. classes'[c][f] = q.class[f]
        BY <2>6, <3>1 DEF Stored
      <4> QED BY <1>1, <2>1, <2>5, <2>6, <3>1, <4>1 DEF AsRead, Fields
    <3>2. CASE "active" \notin q.asked
      <4>1. classes'[c] = [q.class EXCEPT !.active = classes[c].active]
        BY <2>6, <3>2 DEF Stored
      <4>2. f # "active" /\ classes'[c][f] = q.class[f]
        BY <2>1, <2>5, <4>1 DEF Class, Fields
      <4> QED BY <2>1, <2>5, <2>6, <4>2 DEF AsRead
    <3> QED BY <3>1, <3>2
  <2> QED BY <2>6, <2>7, <2>8
<1>2. Spec => [][Holds]_vars
  BY <1>1, ReadInvariant, PTL DEF Spec
<1> QED BY <1>2 DEF EditsKept
=============================================================================
