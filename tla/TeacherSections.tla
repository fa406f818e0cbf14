-------------------------- MODULE TeacherSections --------------------------
(***************************************************************************)
(* The schools and sections of teachers (admin/teachers), beside the       *)
(* timetable that names the same teachers.                                 *)
(*                                                                         *)
(* A new teacher is stored in one transaction, whose duplicate check runs  *)
(* on another connection.  An edit is a chain of calls: the schools it     *)
(* drops, then each school it keeps or adds, and it stops at the first     *)
(* section another teacher has.                                            *)
(***************************************************************************)
EXTENDS Timetable, FiniteSets

CONSTANTS
    Schools, Names,
    Editors              \* slots for requests about teachers in flight

\* A section belongs to a school.
Sections == Schools \X Names
SchoolOf(x) == x[1]

ASSUME SectionsBounds == IsFiniteSet(Schools) /\ None \notin Schools

VARIABLES
    staff,      \* User rows of teachers
    linked,     \* TeacherSchool rows, pairs of a teacher and a school
    assigned,   \* TeacherSectionAssignment rows, pairs of a teacher and a section
    raced,      \* history: assignments written past another's
    edit        \* requests in flight

sectionsVars == <<staff, linked, assigned, raced, edit>>
vars == <<timetableVars, started, sectionsVars>>

\* History: named, the tenant is one a request gave by itself; excused, an edit
\* of the teacher stopped half way or overlapped another since the last complete
\* one; mixed, two edits ever overlapped.
Teacher == [there : {"new", "there", "deleted"}, tenant : Schools \cup {None},
            named : BOOLEAN, excused : BOOLEAN, mixed : BOOLEAN]

\* Lists of schools without a repetition.
Orders == UNION {{o \in [1..n -> Schools] : \A i, j \in 1..n : o[i] = o[j] => i = j} :
                 n \in 0..Cardinality(Schools)}

\* order: the schools of the request's assignments, next the one at hand; wants:
\* the sections it gives; tenant: the one a new teacher is given; drops: the
\* schools still to drop, dropping the one at hand; left: the sections of the
\* school at hand still to assign.  History:
\* checked, the sections the duplicate check let through; passed, those others
\* were given since; alone, no other edit of the teacher meanwhile.
Edit == [at : {"idle", "newCheck", "dropSections", "dropLink", "link", "check",
               "clear", "assign", "tenant"},
         teacher : Teachers \cup {None}, order : Orders,
         next : 1..(Cardinality(Schools) + 1), wants : SUBSET Sections,
         tenant : Schools \cup {None}, drops : SUBSET Schools, dropping : Schools \cup {None},
         left : SUBSET Sections, checked : SUBSET Sections,
         passed : SUBSET Sections, alone : BOOLEAN]

NoEdit == [at |-> "idle", teacher |-> None, order |-> <<>>, next |-> 1,
           wants |-> {}, tenant |-> None, drops |-> {}, dropping |-> None, left |-> {},
           checked |-> {}, passed |-> {}, alone |-> TRUE]

TypeOK ==
    /\ TimetableTypeOK
    /\ staff \in [Teachers -> Teacher]
    /\ linked \subseteq Teachers \X Schools
    /\ assigned \subseteq Teachers \X Sections
    /\ raced \subseteq assigned
    /\ edit \in [Editors -> Edit]

Init ==
    /\ TimetableInit
    /\ staff = [t \in Teachers |->
                  [there |-> "new", tenant |-> None, named |-> FALSE,
                   excused |-> FALSE, mixed |-> FALSE]]
    /\ linked = {} /\ assigned = {} /\ raced = {}
    /\ edit = [e \in Editors |-> NoEdit]

Present(t) == staff[t].there = "there"
SectionsAt(t, s) == {a \in assigned : a[1] = t /\ SchoolOf(a[2]) = s}
SchoolsOf(t) == {s \in Schools : <<t, s>> \in linked}
Listed(q) == {q.order[i] : i \in DOMAIN q.order}
Done(q) == q.next > Len(q.order)
AtHand(q) == q.order[q.next]
Wanted(q) == {x \in q.wants : SchoolOf(x) = AtHand(q)}
EditsOf(t) == {e \in Editors : edit[e].teacher = t}

Becomes(e, q) == edit' = [edit EXCEPT ![e] = q]

\* The rows of assignments are what is left of them.
Assigned(rows) == assigned' = rows /\ raced' = raced \cap rows

\* The school assignments of a request, and the sections it gives in them.
Requested(order, sections) == \A x \in sections : \E i \in DOMAIN order : order[i] = SchoolOf(x)

-----------------------------------------------------------------------------
(***************************************************************************)
(* A new teacher: the duplicate checks see what others have committed, and *)
(* the transaction stores everything at its end or nothing.                *)
(***************************************************************************)
\* checkDuplicateSectionAssignments()
Taken(t, sections) == \E a \in assigned : a[2] \in sections /\ a[1] # t

CreateTeacher(e, t) ==
    /\ Counts
    /\ edit[e] = NoEdit
    /\ staff[t].there = "new" /\ EditsOf(t) = {}
    /\ \E order \in Orders, sections \in SUBSET Sections, tenant \in Schools \cup {None} :
         /\ Requested(order, sections)
         /\ Becomes(e, [NoEdit EXCEPT !.at = "newCheck", !.teacher = t, !.order = order,
                                      !.wants = sections, !.tenant = tenant])
    /\ UNCHANGED <<timetableVars, staff, linked, assigned, raced>>

\* Others past their check of these sections do not see them assigned.
Tell(e, q, sections) ==
    edit' = [o \in Editors |->
        IF o = e THEN q
        ELSE [edit[o] EXCEPT !.passed = @ \cup (sections \cap edit[o].checked)]]

\* Faulty variant of CheckNew: only the first school is checked.
CheckNewOnce(e) ==
    LET q == edit[e]
    IN  /\ q.at = "newCheck" /\ ~Done(q)
        /\ Becomes(e, IF q.next = 1 /\ Taken(q.teacher, Wanted(q)) THEN NoEdit
                      ELSE [q EXCEPT !.next = @ + 1, !.checked = @ \cup Wanted(q)])
        /\ UNCHANGED <<timetableVars, started, staff, linked, assigned, raced>>

CheckNew(e) ==
    LET q == edit[e]
    IN  /\ q.at = "newCheck" /\ ~Done(q)
        /\ Becomes(e, IF Taken(q.teacher, Wanted(q)) THEN NoEdit
                      ELSE [q EXCEPT !.next = @ + 1, !.checked = @ \cup Wanted(q)])
        /\ UNCHANGED <<timetableVars, started, staff, linked, assigned, raced>>

\* The account is at the school given for it, else at the first of the list.
CommitNew(e) ==
    LET q == edit[e]
        t == q.teacher
        first == IF q.order = <<>> THEN None ELSE q.order[1]
    IN  /\ q.at = "newCheck" /\ Done(q)
        /\ staff' = [staff EXCEPT
              ![t].there = "there",
              ![t].tenant = IF q.tenant # None THEN q.tenant ELSE first,
              ![t].named = (q.tenant # None)]
        /\ linked' = linked \cup ({t} \X Listed(q))
        /\ assigned' = assigned \cup ({t} \X q.wants)
        /\ raced' = raced \cup ({t} \X q.passed)
        /\ Tell(e, NoEdit, q.wants)
        /\ UNCHANGED <<timetableVars, started>>

-----------------------------------------------------------------------------
(***************************************************************************)
(* An edit of a teacher, call by call.                                     *)
(***************************************************************************)
\* The request stops where a call fails: what it has stored stays.
Stop(e) ==
    /\ staff' = [staff EXCEPT ![edit[e].teacher].excused = TRUE]
    /\ Becomes(e, NoEdit)
    /\ UNCHANGED <<timetableVars, started, linked, assigned, raced>>

\* Where an edit goes on when nothing is left to drop, and after each school.
Onward(q) ==
    IF q.drops # {} THEN [q EXCEPT !.at = "dropSections"]
    ELSE IF ~Done(q) THEN [q EXCEPT !.at = "link"]
    ELSE [q EXCEPT !.at = "tenant"]

\* The user row x with the tenant a request gives, or the one it has.
AtTenant(x, tenant) == [x EXCEPT !.tenant = tenant, !.named = @ \/ tenant # x.tenant]

\* An update without school assignments writes the user row and no more.
UpdateAccount(t) ==
    /\ Counts
    /\ Present(t)
    /\ \E tenant \in Schools \cup {None} :
         staff' = [staff EXCEPT ![t] = AtTenant(@, tenant)]
    /\ UNCHANGED <<timetableVars, linked, assigned, raced, edit>>

\* The user row is written and the teacher's schools are read; a request that
\* another gets between the two is UpdateAccount and then this.
UpdateTeacher(e, t) ==
    /\ Counts
    /\ edit[e] = NoEdit
    /\ Present(t)
    /\ \E order \in Orders, sections \in SUBSET Sections, tenant \in Schools \cup {None} :
         LET others == EditsOf(t)
             row == AtTenant(staff[t], tenant)
             q == [NoEdit EXCEPT !.teacher = t, !.order = order, !.wants = sections,
                                 !.alone = (others = {})]
         IN  /\ Requested(order, sections)
             /\ edit' = [o \in Editors |->
                   IF o = e THEN Onward([q EXCEPT !.drops = SchoolsOf(t) \ Listed(q)])
                   ELSE IF o \in others THEN [edit[o] EXCEPT !.alone = FALSE]
                   ELSE edit[o]]
             /\ staff' = [staff EXCEPT ![t] =
                   [row EXCEPT !.excused = @ \/ others # {},
                               !.mixed = @ \/ others # {}]]
    /\ UNCHANGED <<timetableVars, linked, assigned, raced>>

DropSections(e) ==
    LET q == edit[e]
    IN  /\ q.at = "dropSections"
        /\ \E s \in q.drops :
             /\ Assigned(assigned \ SectionsAt(q.teacher, s))
             /\ Becomes(e, [q EXCEPT !.at = "dropLink", !.drops = @ \ {s},
                                     !.dropping = s])
        /\ UNCHANGED <<timetableVars, started, staff, linked>>

\* Deleting a link that is gone fails.
DropLink(e) ==
    LET q == edit[e]
        link == <<q.teacher, q.dropping>>
    IN  /\ q.at = "dropLink"
        /\ \/ link \notin linked /\ Stop(e)
           \/ /\ link \in linked
              /\ linked' = linked \ {link}
              /\ Becomes(e, Onward([q EXCEPT !.dropping = None]))
              /\ UNCHANGED <<timetableVars, started, staff, assigned, raced>>

\* The foreign keys refuse rows of a deleted teacher.
Link(e) ==
    LET q == edit[e]
    IN  /\ q.at = "link"
        /\ \/ ~Present(q.teacher) /\ Stop(e)
           \/ /\ Present(q.teacher)
              /\ linked' = linked \cup {<<q.teacher, AtHand(q)>>}
              /\ Becomes(e, [q EXCEPT !.at = "check"])
              /\ UNCHANGED <<timetableVars, started, staff, assigned, raced>>

Check(e) ==
    LET q == edit[e]
    IN  /\ q.at = "check"
        /\ \/ Taken(q.teacher, Wanted(q)) /\ Stop(e)
           \/ /\ ~Taken(q.teacher, Wanted(q))
              /\ Becomes(e, [q EXCEPT !.at = "clear", !.checked = Wanted(q)])
              /\ UNCHANGED <<timetableVars, started, staff, linked, assigned, raced>>

NextSchool(q) == Onward([q EXCEPT !.next = @ + 1, !.checked = {}, !.passed = {}])

Clear(e) ==
    LET q == edit[e]
        given == [q EXCEPT !.at = "assign", !.left = Wanted(q)]
    IN  /\ q.at = "clear"
        /\ Assigned(assigned \ SectionsAt(q.teacher, AtHand(q)))
        /\ Becomes(e, IF given.left = {} THEN NextSchool(q) ELSE given)
        /\ UNCHANGED <<timetableVars, started, staff, linked>>

\* A teacher has a section once: what another edit gave meanwhile is refused.
Assign(e) ==
    LET q == edit[e]
    IN  /\ q.at = "assign"
        /\ \E x \in q.left :
             LET row == <<q.teacher, x>>
                 rest == [q EXCEPT !.left = @ \ {x}]
             IN  \/ (~Present(q.teacher) \/ row \in assigned) /\ Stop(e)
                 \/ /\ Present(q.teacher) /\ row \notin assigned
                    /\ assigned' = assigned \cup {row}
                    /\ raced' = raced \cup ({row} \cap ({q.teacher} \X q.passed))
                    /\ Tell(e, IF rest.left = {} THEN NextSchool(rest) ELSE rest, {x})
                    /\ UNCHANGED <<timetableVars, started, staff, linked>>

\* Faulty variant of SetTenant: the account keeps the school it had.
KeepTenant(e) ==
    LET q == edit[e]
    IN  /\ q.at = "tenant"
        /\ staff' = [staff EXCEPT ![q.teacher].excused = @ /\ ~q.alone]
        /\ Becomes(e, NoEdit)
        /\ UNCHANGED <<timetableVars, started, linked, assigned, raced>>

\* The account follows the first school of the request; an empty list leaves it
\* where it was.
SetTenant(e) ==
    LET q == edit[e]
        t == q.teacher
    IN  /\ q.at = "tenant"
        /\ \/ /\ q.order # <<>> /\ ~Present(t)
              /\ Stop(e)
           \/ /\ q.order = <<>> \/ Present(t)
              /\ staff' = [staff EXCEPT
                    ![t].tenant = IF q.order = <<>> THEN @ ELSE q.order[1],
                    ![t].named = @ /\ q.order = <<>>,
                    ![t].excused = @ /\ ~q.alone]
              /\ Becomes(e, NoEdit)
              /\ UNCHANGED <<timetableVars, started, linked, assigned, raced>>

\* The database fails or the process stops: an edit ends half way, a
\* transaction is rolled back.
Fail(e) ==
    /\ edit[e].at # "idle"
    /\ \/ edit[e].at # "newCheck" /\ Stop(e)
       \/ /\ edit[e].at = "newCheck"
          /\ Becomes(e, NoEdit)
          /\ UNCHANGED <<timetableVars, started, staff, linked, assigned, raced>>

\* Deleting the account cascades to its links and assignments; the timetable
\* keeps the teacher's classes.
DeleteTeacher(t) ==
    /\ Counts
    /\ Present(t)
    /\ staff' = [staff EXCEPT ![t].there = "deleted", ![t].tenant = None]
    /\ linked' = {l \in linked : l[1] # t}
    /\ Assigned({a \in assigned : a[1] # t})
    /\ UNCHANGED <<timetableVars, edit>>

SectionsNext ==
    \/ \E e \in Editors, t \in Teachers : CreateTeacher(e, t) \/ UpdateTeacher(e, t)
    \/ \E e \in Editors :
         \/ CheckNew(e) \/ CommitNew(e)
         \/ DropSections(e) \/ DropLink(e) \/ Link(e) \/ Check(e) \/ Clear(e)
         \/ Assign(e) \/ SetTenant(e) \/ Fail(e)
    \/ \E t \in Teachers : UpdateAccount(t) \/ DeleteTeacher(t)

Next == SectionsNext \/ (TimetableNext /\ UNCHANGED sectionsVars)

Spec == Init /\ [][Next]_vars

-----------------------------------------------------------------------------
\* Two classes of the school have a teacher or a room at the same time only if
\* one of them was written past the other: createSchedule() and updateSchedule()
\* look for a conflict and write in separate calls.
DoubleBookingsOverlapped ==
    \A c, d \in DOMAIN classes :
        c # d /\ Live(c) /\ Live(d) /\ SamePlace(classes[c], classes[d])
            => classes[c].raced \/ classes[d].raced

\* An edit of a class changes what its request gives.  Another column it takes
\* back only when someone wrote the timetable since it read the row, and the
\* active flag never.
EditsKept ==
    [][\A c \in DOMAIN classes, f \in Fields :
         classes'[c][f] # classes[c][f] =>
            \E b \in Bookers :
               /\ booking[b].row = c /\ booking'[b] = Idle
               /\ f \in booking[b].asked \/ (booking[b].stale /\ f # "active")]_vars

\* A section has two teachers only if one of them was given it past the other:
\* the duplicate check of create() and update() and the writes are separate calls.
OneTeacherPerSection ==
    \A a, b \in assigned : a[2] = b[2] /\ a # b => a \in raced \/ b \in raced

\* A teacher has sections only in schools the teacher belongs to, unless two
\* edits of the teacher overlapped; and the account of a teacher with schools is
\* at one of them ("Keep teacher's tenantId in sync with first assigned school"),
\* unless an edit is under way, stopped half way or overlapped another since the
\* last complete one, or the tenant is one that the creation or a later update
\* named by itself: nothing compares that one with the schools, and only the next
\* list of schools takes it back.
TeachersWhole ==
    \A t \in Teachers :
        /\ staff[t].mixed \/ \A x \in Sections :
              <<t, x>> \in assigned => <<t, SchoolOf(x)>> \in linked
        /\ \/ staff[t].excused \/ staff[t].named \/ EditsOf(t) # {} \/ SchoolsOf(t) = {}
           \/ <<t, staff[t].tenant>> \in linked
=============================================================================
