----------------------------- MODULE Timetable -----------------------------
(***************************************************************************)
(* The timetable of one school: its rooms and periods, and the classes its *)
(* administrators book (rooms, periods and schedules of                    *)
(* school-admin-extra.controller.ts).                                      *)
(*                                                                         *)
(* A booking is checked and written in separate calls, and a class names   *)
(* its teacher, room and period without a foreign key.  Rows of other      *)
(* schools match none of these queries.                                    *)
(***************************************************************************)
EXTENDS Naturals, Sequences

CONSTANTS
    Teachers, Rooms, Periods, Days,
    Bookers,             \* slots for bookings in flight
    None,
    MaxClasses, MaxStarted

ASSUME TimetableBounds ==
    /\ {MaxClasses, MaxStarted} \subseteq Nat
    /\ None \notin Teachers \cup Rooms \cup Periods \cup Days

VARIABLES
    stock,      \* of each room and period: not yet created, there or deleted
    classes,    \* ClassSchedule rows
    booking,    \* bookings in flight
    started     \* handlers started

timetableVars == <<stock, classes, booking>>

Fields == {"day", "period", "teacher", "room", "active"}

\* raced, history: another booking was written after this one's conflict check.
Class == [day : Days, period : Periods, teacher : Teachers \cup {None},
          room : Rooms \cup {None}, active : BOOLEAN, gone : BOOLEAN,
          raced : BOOLEAN]

NoClass == [day |-> None, period |-> None, teacher |-> None, room |-> None,
            active |-> TRUE, gone |-> FALSE, raced |-> FALSE]

\* row: the class edited, 0 for a new one; asked: the fields the request gives.
\* stale, history: a booking was written after this one read its row.
Booking == [at : {"idle", "period", "room", "check", "write"},
            row : 0..MaxClasses, asked : SUBSET Fields, class : Class \cup {NoClass},
            stale : BOOLEAN]

Idle == [at |-> "idle", row |-> 0, asked |-> {}, class |-> NoClass, stale |-> FALSE]

TimetableTypeOK ==
    /\ stock \in [Rooms \cup Periods -> {"new", "there", "deleted"}]
    /\ classes \in Seq(Class) /\ Len(classes) <= MaxClasses
    /\ booking \in [Bookers -> Booking]
    /\ started \in 0..MaxStarted

TimetableInit ==
    /\ stock \in [Rooms \cup Periods -> {"new", "there"}]
    /\ classes = <<>>
    /\ booking = [b \in Bookers |-> Idle]
    /\ started = 0

Counts == started < MaxStarted /\ started' = started + 1

There(x) == stock[x] = "there"
Live(c) == c \in DOMAIN classes /\ ~classes[c].gone

-----------------------------------------------------------------------------
\* Rooms and periods are deleted without a look at the classes that name them.
CreateStock(x) ==
    /\ Counts
    /\ stock[x] = "new"
    /\ stock' = [stock EXCEPT ![x] = "there"]
    /\ UNCHANGED <<classes, booking>>

DeleteStock(x) ==
    /\ Counts
    /\ There(x)
    /\ stock' = [stock EXCEPT ![x] = "deleted"]
    /\ UNCHANGED <<classes, booking>>

-----------------------------------------------------------------------------
\* Where a booking goes on once its period is settled, and once its room is: a
\* class without teacher and room conflicts with none and is not checked.
AfterRoom(q) ==
    [q EXCEPT !.at = IF q.class.teacher = None /\ q.class.room = None
                     THEN "write" ELSE "check",
              !.class.raced = FALSE]

AfterPeriod(q) == IF q.class.room = None THEN AfterRoom(q) ELSE [q EXCEPT !.at = "room"]

Goes(b, q) == booking' = [booking EXCEPT ![b] = q]

Refuse(b) == Goes(b, Idle) /\ UNCHANGED <<stock, classes, started>>

\* What a request can ask for.
Given == {c \in Class : ~c.gone /\ ~c.raced}

\* createSchedule(): a class with everything the request gives.
CreateSchedule(b) ==
    /\ Counts
    /\ booking[b] = Idle
    /\ \E given \in Given :
         Goes(b, [Idle EXCEPT !.at = "period", !.asked = Fields, !.class = given])
    /\ UNCHANGED <<stock, classes>>

\* updateSchedule() reads the row and takes from it what the request leaves out,
\* which is everything here when the request gives only texts.  Only a period
\* that changes is looked up.
UpdateSchedule(b) ==
    /\ Counts
    /\ booking[b] = Idle
    /\ \E c \in DOMAIN classes, given \in Given :
         LET asked == {f \in Fields : given[f] # classes[c][f]}
             q == [Idle EXCEPT !.row = c, !.asked = asked, !.class = given]
         IN /\ Live(c)
            /\ Goes(b, IF given.period # classes[c].period
                       THEN [q EXCEPT !.at = "period"] ELSE AfterPeriod(q))
    /\ UNCHANGED <<stock, classes>>

FindPeriod(b) ==
    LET q == booking[b]
    IN  /\ q.at = "period"
        /\ Goes(b, IF There(q.class.period) THEN AfterPeriod(q) ELSE Idle)
        /\ UNCHANGED <<stock, classes, started>>

\* A room is looked up whenever the class has one, changed or not.
FindRoom(b) ==
    LET q == booking[b]
    IN  /\ q.at = "room"
        /\ Goes(b, IF There(q.class.room) THEN AfterRoom(q) ELSE Idle)
        /\ UNCHANGED <<stock, classes, started>>

\* Two classes that cannot both be held.  Inactive ones conflict too.
SamePlace(x, y) ==
    /\ x.day = y.day /\ x.period = y.period
    /\ \/ x.teacher # None /\ x.teacher = y.teacher
       \/ x.room # None /\ x.room = y.room

\* Faulty variant of Conflicts: only the room is compared when there is one.
ConflictsOfRoom(c, q) ==
    /\ Live(c) /\ c # q.row /\ SamePlace(classes[c], q.class)
    /\ q.class.room # None => classes[c].room = q.class.room

Conflicts(c, q) == Live(c) /\ c # q.row /\ SamePlace(classes[c], q.class)

CheckConflict(b) ==
    LET q == booking[b]
    IN  /\ q.at = "check"
        /\ Goes(b, IF \E c \in DOMAIN classes : Conflicts(c, q) THEN Idle
                   ELSE [q EXCEPT !.at = "write"])
        /\ UNCHANGED <<stock, classes, started>>

\* Others in flight learn nothing of the write: it makes what they read old.
Overtakes(b) ==
    booking' = [o \in Bookers |->
        IF o = b THEN Idle
        ELSE LET q == booking[o]
             IN  IF q.at = "idle" THEN q
                 ELSE [q EXCEPT !.stale = TRUE, !.class.raced = (q.at = "write")]]

\* Faulty variant of Stored: the active flag is written back as it was read.
StoredWhole(q, row) == q.class

\* The edit writes every column but the active flag, which only a request that
\* gives it changes.
Stored(q, row) ==
    IF "active" \in q.asked THEN q.class ELSE [q.class EXCEPT !.active = row.active]

WriteSchedule(b) ==
    LET q == booking[b]
    IN  /\ q.at = "write"
        /\ \/ /\ q.row = 0
              /\ Len(classes) < MaxClasses
              /\ classes' = Append(classes, q.class)
           \/ /\ q.row # 0
              /\ Live(q.row)
              /\ classes' = [classes EXCEPT ![q.row] = Stored(q, @)]
        /\ Overtakes(b)
        /\ UNCHANGED <<stock, started>>

\* The row was deleted meanwhile, and the database refuses the update.
WriteFails(b) ==
    /\ booking[b].at = "write"
    /\ booking[b].row # 0 /\ ~Live(booking[b].row)
    /\ Refuse(b)

DeleteSchedule(c) ==
    /\ Counts
    /\ Live(c)
    /\ classes' = [classes EXCEPT ![c].gone = TRUE]
    /\ UNCHANGED <<stock, booking>>

TimetableNext ==
    \/ \E x \in Rooms \cup Periods : CreateStock(x) \/ DeleteStock(x)
    \/ \E b \in Bookers :
         \/ CreateSchedule(b) \/ UpdateSchedule(b)
         \/ FindPeriod(b) \/ FindRoom(b) \/ CheckConflict(b)
         \/ WriteSchedule(b) \/ WriteFails(b)
    \/ \E c \in DOMAIN classes : DeleteSchedule(c)
=============================================================================
