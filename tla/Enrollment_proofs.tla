------------------------- MODULE Enrollment_proofs -------------------------
(***************************************************************************)
(* The properties of Enrollment, proved for any students, courses, grades  *)
(* and handlers.                                                           *)
(*                                                                         *)
(* Reads says what a request has read is so, but for the courses or the    *)
(* students that another handler has changed since.  It is what makes an   *)
(* import know which courses it missed (ImportRead), and an enrolment that *)
(* nobody overtook one of a pair that was eligible (CourseRead,            *)
(* StudentRead).  Covering is Covers made firm: a request that has read    *)
(* the grades of a course goes on to enrol a student who is due in it,     *)
(* whatever grade the student has by then.                                 *)
(*                                                                         *)
(* The predicates are about one request q and the tables given to them.    *)
(***************************************************************************)
EXTENDS Enrollment, TLAPS

AtCourse == {"findAccess", "findGrades", "findStudents", "enrolAll"}
AtStudent == {"findCourses", "findCourseGrades", "enrolMine", "commit"}

Flagging == [at : {"flag"}, course : Courses, publish : BOOLEAN,
             access : Access \cup {Keep}, enrols : BOOLEAN]
Clearing == [at : {"clear"}, course : Courses, publish : BOOLEAN \cup {Keep},
             access : Access, enrols : BOOLEAN]
Granting == [at : {"grant"}, course : Courses, publish : BOOLEAN \cup {Keep},
             access : SUBSET Grades, enrols : BOOLEAN]
Importing == {q \in StudentEnrolment : q.at = "commit" => q.new # "no"}

\* What a request remembers, more closely than Request says.
Shape == {Idle} \cup Flagging \cup Clearing \cup Granting \cup StudentRequest
           \cup CourseEnrolment \cup Importing

Typed == TypeOK /\ req \in [Requests -> Shape]

IsEligible(s, c, cs, ms) ==
    cs[c].state = "published" /\ ms[s].state = "member" /\ Admits(cs[c].access, ms[s].grade)

IsDue(s, c, cs, ms) == IsEligible(s, c, cs, ms) /\ ms[s].active /\ ms[s].account

-----------------------------------------------------------------------------
\* What q has read of its course is so, unless q is late.
CourseRead(q, cs, rights) ==
    q.at \in AtCourse =>
        /\ q.gone => q.late
        /\ q.at = "findGrades" => q.gone \/ cs[q.course].access # None
        /\ ~q.late =>
             /\ q.at # "enrolAll" => cs[q.course].state = "published"
             /\ q.at = "findStudents" => q.admits = cs[q.course].access
             /\ q.at = "enrolAll" => \A s \in q.who : <<s, q.course>> \in rights

\* What q has read for its student is so, but of the courses for which it is late.
StudentRead(q, cs, ms, rights) ==
    q.at \in AtStudent =>
        /\ q.gone \subseteq q.late
        /\ \A c \in Courses \ q.late :
             /\ q.new = "no" /\ q.at \in {"findCourses", "findCourseGrades"} =>
                  ms[q.student].state = "member" /\ ms[q.student].grade = q.grade
             /\ c \in q.found =>
                  /\ q.at = "findCourseGrades" =>
                       cs[c].state = "published" /\ cs[c].access # None
                  /\ q.at = "enrolMine" /\ q.new = "no" => <<q.student, c>> \in rights
                  /\ q.at \in {"enrolMine", "commit"} /\ q.new # "no" =>
                       cs[c].state = "published" /\ Admits(cs[c].access, q.grade)

IsImport(q) == q.at \in AtStudent /\ q.new # "no"

\* An import misses only courses for which it is late.
ImportRead(q, cs, rows) ==
    IsImport(q) =>
        \A c \in Courses \ q.late : cs[c].state = "published" =>
            /\ q.at = "findCourseGrades" /\ cs[c].access # None => c \in q.found
            /\ Admits(cs[c].access, q.grade) =>
                 /\ q.at = "enrolMine" => c \in q.found
                 /\ q.at = "commit" => <<q.student, c>> \in rows

Read(q, cs, ms, rights, rows) ==
    CourseRead(q, cs, rights) /\ StudentRead(q, cs, ms, rights) /\ ImportRead(q, cs, rows)

Reads == \A r \in Requests : Read(req[r], course, member, entitled, enrolled)

\* A student being imported belongs to one import.
ImportsOwn ==
    \A r \in Requests : IsImport(req[r]) =>
        /\ member[req[r].student].state = "importing"
        /\ \A q \in Requests \ {r} : IsImport(req[q]) => req[q].student # req[r].student

Covering(q, s, c, cs) ==
    \/ /\ q.at \in AtCourse /\ q.course = c
       /\ q.at = "findStudents" => q.admits = {} \/ q.admits = cs[c].access
       /\ q.at = "enrolAll" => s \in q.who
    \/ /\ q.at \in AtStudent \ {"commit"} /\ q.student = s
       /\ q.at # "findCourses" => c \in q.found
       /\ q.at # "enrolMine" => Admits(cs[c].access, q.grade)

Covered(s, c) ==
    \/ <<s, c>> \in enrolled \cup excused
    \/ \E r \in Requests : Covering(req[r], s, c, course)

NoneMissed ==
    \A s \in Students, c \in Courses : IsDue(s, c, course, member) => Covered(s, c)

EligibleEntitled ==
    \A s \in Students, c \in Courses :
        IsEligible(s, c, course, member) => <<s, c>> \in entitled

\* A pair enrolled by an import that is about to commit was found by it.
Justified ==
    \A s \in Students, c \in Courses : <<s, c>> \in enrolled =>
        \/ <<s, c>> \in entitled \cup stray
        \/ \E r \in Requests : /\ req[r].at = "commit" /\ req[r].student = s
                               /\ c \in req[r].found

Inv == Typed /\ Reads /\ ImportsOwn /\ NoneMissed /\ EligibleEntitled /\ Justified

-----------------------------------------------------------------------------
LEMMA ShapeAt ==
  ASSUME NEW q \in Shape
  PROVE  /\ q.at \in AtCourse => q \in CourseEnrolment
         /\ q.at \in AtStudent => q \in Importing
         /\ q.at = "flag" => q \in Flagging
         /\ q.at = "clear" => q \in Clearing
         /\ q.at = "grant" => q \in Granting
         /\ q.at \in {"edit", "upsert", "disable"} => q \in StudentRequest
         /\ q.at = "idle" => q = Idle
BY DEF Shape, AtCourse, AtStudent, Flagging, Clearing, Granting, StudentRequest,
       CourseEnrolment, Importing, StudentEnrolment, Idle

LEMMA ShapeIsRequest == Shape \subseteq Request
BY DEF Shape, Request, Flagging, Clearing, Granting, CourseRequest, Importing, Access

LEMMA IdleShape == Idle \in Shape /\ Idle.at = "idle"
BY DEF Shape, Idle

LEMMA IdleReads ==
  ASSUME NEW cs, NEW ms, NEW rights, NEW rows
  PROVE  /\ Read(Idle, cs, ms, rights, rows) /\ ~IsImport(Idle)
         /\ \A s, c : ~Covering(Idle, s, c, cs)
<1>1. Idle.at \notin AtCourse \cup AtStudent
  BY DEF Idle, AtCourse, AtStudent
<1>2. Read(Idle, cs, ms, rights, rows) /\ ~IsImport(Idle)
  BY <1>1 DEF Read, CourseRead, StudentRead, ImportRead, IsImport
<1>3. \A s, c : ~Covering(Idle, s, c, cs)
  BY <1>1 DEF Covering
<1> QED BY <1>2, <1>3

\* The sets of pairs of the module, pair by pair.
LEMMA EligiblePairs ==
  ASSUME NEW cs, NEW ms, NEW s \in Students, NEW c \in Courses
  PROVE  /\ <<s, c>> \in EligibleIn(cs, ms) <=> IsEligible(s, c, cs, ms)
         /\ <<s, c>> \in DueIn(cs, ms) <=> IsDue(s, c, cs, ms)
BY DEF EligibleIn, DueIn, IsEligible, IsDue, Pairs

LEMMA PairSets ==
  ASSUME NEW cs, NEW ms
  PROVE  EligibleIn(cs, ms) \subseteq Pairs /\ DueIn(cs, ms) \subseteq Pairs
BY DEF EligibleIn, DueIn

LEMMA NoneIsNoRule == None \notin SUBSET Grades /\ {} # None
BY EnrollmentOK

\* What the requests at their reads have in common before and after another's write.
Alike(q, o) ==
    /\ o.at = q.at
    /\ q.at \notin AtCourse \cup AtStudent => o = q
    /\ q.at \in AtCourse => o.course = q.course /\ o.who = q.who /\ o.admits = q.admits
    /\ q.at \in AtStudent =>
         o.student = q.student /\ o.grade = q.grade /\ o.found = q.found /\ o.new = q.new

LEMMA OvertakenAlike ==
  ASSUME Typed, NEW q \in Requests, NEW c \in Courses, NEW dropped \in BOOLEAN
  PROVE  /\ Overtaken(q, c, dropped) \in Shape
         /\ Alike(req[q], Overtaken(q, c, dropped))
<1> DEFINE p == req[q]
           o == Overtaken(q, c, dropped)
<1>1. p \in Shape
  BY DEF Typed
<1>2. CASE p.at \in AtCourse
  <2>1. p \in CourseEnrolment
    BY <1>1, <1>2, ShapeAt
  <2>2. ~(EnrolsOne(q)) /\ p.at # "findCourseGrades" /\ EnrolsAll(q)
    BY <1>2 DEF EnrolsOne, EnrolsAll, AtCourse
  <2>3. CASE p.course = c
    <3>1. o = [p EXCEPT !.late = @ \/ p.at # "enrolAll",
                        !.gone = @ \/ (dropped /\ p.at = "findGrades")]
      BY <2>2, <2>3 DEF Overtaken
    <3>2. o \in CourseEnrolment
      BY <2>1, <3>1 DEF CourseEnrolment
    <3>3. o.at = p.at /\ o.course = p.course /\ o.who = p.who /\ o.admits = p.admits
      BY <2>1, <3>1 DEF CourseEnrolment
    <3> QED BY <3>2, <3>3, <1>2 DEF Shape, Alike, AtCourse, AtStudent
  <2>4. CASE p.course # c
    BY <1>1, <2>2, <2>4 DEF Overtaken, Alike
  <2> QED BY <2>3, <2>4
<1>3. CASE p.at \in AtStudent
  <2>1. p \in Importing
    BY <1>1, <1>3, ShapeAt
  <2>2. ~EnrolsAll(q) /\ EnrolsOne(q)
    BY <1>3 DEF EnrolsAll, EnrolsOne, AtStudent
  <2>3. CASE p.at = "findCourseGrades" \/ (p.at # "findCourses" /\ p.new # "no")
    <3>1. o = [p EXCEPT !.late = @ \cup {c},
                        !.gone = @ \cup IF dropped /\ p.at = "findCourseGrades"
                                        THEN {c} ELSE {}]
      BY <2>2, <2>3 DEF Overtaken
    <3> DEFINE late == p.late \cup {c}
               gone == p.gone \cup IF dropped /\ p.at = "findCourseGrades" THEN {c} ELSE {}
    <3>5. late \in SUBSET Courses /\ gone \in SUBSET Courses
      BY <2>1 DEF Importing, StudentEnrolment
    <3>6. o = [p EXCEPT !.late = late, !.gone = gone] /\ p \in StudentEnrolment
      BY <2>1, <3>1 DEF Importing, StudentEnrolment
    <3> HIDE DEF late, gone
    <3>2. o \in StudentEnrolment /\ o.at = p.at /\ o.new = p.new
      BY <3>5, <3>6 DEF StudentEnrolment
    <3>4. o \in Importing
      BY <2>1, <3>2 DEF Importing
    <3>3. o.at = p.at /\ o.student = p.student /\ o.grade = p.grade /\ o.found = p.found
          /\ o.new = p.new
      BY <2>1, <3>1 DEF Importing, StudentEnrolment
    <3> QED BY <3>4, <3>3, <1>3 DEF Shape, Alike, AtCourse, AtStudent
  <2>4. CASE ~(p.at = "findCourseGrades" \/ (p.at # "findCourses" /\ p.new # "no"))
    BY <1>1, <2>2, <2>4 DEF Overtaken, Alike
  <2> QED BY <2>3, <2>4
<1>4. CASE p.at \notin AtCourse \cup AtStudent
  BY <1>1, <1>4 DEF Overtaken, EnrolsAll, EnrolsOne, AtCourse, AtStudent, Alike
<1> QED BY <1>2, <1>3, <1>4

\* A write to a course keeps what the other requests know.
LEMMA OvertakenReads ==
  ASSUME Typed, Reads, NEW q \in Requests, NEW c \in Courses, NEW row \in CourseRow,
         NEW rights, entitled \subseteq rights
  PROVE  LET cs == [course EXCEPT ![c] = row]
             o == Overtaken(q, c, row.access = None /\ course[c].access # None)
         IN  Read(o, cs, member, rights, enrolled)
<1> DEFINE p == req[q]
           cs == [course EXCEPT ![c] = row]
           dropped == row.access = None /\ course[c].access # None
           o == Overtaken(q, c, dropped)
<1>0. dropped \in BOOLEAN /\ course \in [Courses -> CourseRow]
  BY DEF Typed, TypeOK
<1>1. o \in Shape /\ Alike(p, o) /\ p \in Shape
  BY <1>0, OvertakenAlike DEF Typed
<1>2. cs[c] = row /\ \A d \in Courses \ {c} : cs[d] = course[d]
  BY <1>0
<1>3. Read(p, course, member, entitled, enrolled)
  BY DEF Reads
<1>4. CASE p.at \in AtCourse
  <2>1. p \in CourseEnrolment
    BY <1>1, <1>4, ShapeAt
  <2>2. EnrolsAll(q) /\ p.course \in Courses
    BY <1>4, <2>1 DEF EnrolsAll, AtCourse, CourseEnrolment
  <2>3. CASE p.course = c
    <3>1. o = [p EXCEPT !.late = @ \/ p.at # "enrolAll",
                        !.gone = @ \/ (dropped /\ p.at = "findGrades")]
      BY <2>2, <2>3 DEF Overtaken
    <3>2. /\ o.late <=> (p.late \/ p.at # "enrolAll")
          /\ o.gone <=> (p.gone \/ (dropped /\ p.at = "findGrades"))
          /\ o.course = c /\ o.at = p.at /\ o.who = p.who
      BY <2>1, <2>3, <3>1 DEF CourseEnrolment
    <3>3. CourseRead(o, cs, rights)
      BY <1>2, <1>3, <1>4, <2>3, <3>2 DEF Read, CourseRead
    <3> QED BY <3>2, <3>3, <1>4 DEF Read, StudentRead, ImportRead, IsImport, AtCourse, AtStudent
  <2>4. CASE p.course # c
    <3>1. o = p
      BY <1>4, <2>2, <2>4 DEF Overtaken, EnrolsOne, AtCourse
    <3>2. CourseRead(p, cs, rights)
      BY <1>2, <1>3, <2>2, <2>4 DEF Read, CourseRead
    <3> QED BY <3>1, <3>2, <1>4 DEF Read, StudentRead, ImportRead, IsImport, AtCourse, AtStudent
  <2> QED BY <2>3, <2>4
<1>5. CASE p.at \in AtStudent
  <2>1. p \in Importing
    BY <1>1, <1>5, ShapeAt
  <2>2. ~EnrolsAll(q) /\ EnrolsOne(q)
    BY <1>5 DEF EnrolsAll, EnrolsOne, AtStudent
  <2>3. /\ p.late \subseteq o.late /\ o.gone \subseteq p.gone \cup (o.late \cap {c})
        /\ p.at = "findCourseGrades" \/ (p.at # "findCourses" /\ p.new # "no") =>
             c \in o.late
    <3>1. CASE p.at = "findCourseGrades" \/ (p.at # "findCourses" /\ p.new # "no")
      <4>1. o = [p EXCEPT !.late = @ \cup {c},
                          !.gone = @ \cup IF dropped /\ p.at = "findCourseGrades"
                                          THEN {c} ELSE {}]
        BY <2>2, <3>1 DEF Overtaken
      <4>2. /\ o.late = p.late \cup {c}
            /\ o.gone = p.gone \cup IF dropped /\ p.at = "findCourseGrades" THEN {c} ELSE {}
        BY <2>1, <4>1 DEF Importing, StudentEnrolment
      <4> QED BY <4>2
    <3>2. CASE ~(p.at = "findCourseGrades" \/ (p.at # "findCourses" /\ p.new # "no"))
      <4>1. o = p
        BY <2>2, <3>2 DEF Overtaken
      <4> QED BY <4>1, <3>2
    <3> QED BY <3>1, <3>2
  <2>4. o.at = p.at /\ o.student = p.student /\ o.grade = p.grade /\ o.found = p.found
        /\ o.new = p.new
    BY <1>1, <1>5 DEF Alike
  <2>7. StudentRead(p, course, member, entitled)
    BY <1>3 DEF Read
  <2>8. \A d \in Courses \ o.late : d \notin p.late /\ (o.at = "findCourses" \/ cs[d] = course[d]
                                      \/ (o.new = "no" /\ o.at # "findCourseGrades"))
    BY <1>2, <2>3, <2>4
  <2>9. o.gone \subseteq o.late
    BY <1>5, <2>3, <2>7 DEF StudentRead
  <2> HIDE DEF o, p, cs
  <2>5. StudentRead(o, cs, member, rights)
    BY <1>5, <2>4, <2>7, <2>8, <2>9 DEF StudentRead
  <2> USE DEF o, p, cs
  <2>6. ImportRead(o, cs, enrolled)
    BY <1>2, <1>3, <2>3, <2>4 DEF Read, ImportRead, IsImport, AtStudent
  <2> QED BY <2>4, <2>5, <2>6, <1>5 DEF Read, CourseRead, AtCourse, AtStudent
<1>6. CASE p.at \notin AtCourse \cup AtStudent
  BY <1>1, <1>6 DEF Alike, Read, CourseRead, StudentRead, ImportRead, IsImport
<1> QED BY <1>4, <1>5, <1>6

\* A write to a student keeps what the other requests know.
LEMMA MemberReads ==
  ASSUME Typed, Reads, NEW q \in Requests, NEW s \in Students, NEW row,
         NEW rights, entitled \subseteq rights
  PROVE  LET ms == [member EXCEPT ![s] = row]
             o == IF req[q].at \in {"findCourses", "findCourseGrades"} /\ req[q].student = s
                  THEN [req[q] EXCEPT !.late = Courses] ELSE req[q]
         IN  o \in Shape /\ Alike(req[q], o) /\ Read(o, course, ms, rights, enrolled)
<1> DEFINE p == req[q]
           ms == [member EXCEPT ![s] = row]
           o == IF p.at \in {"findCourses", "findCourseGrades"} /\ p.student = s
                THEN [p EXCEPT !.late = Courses] ELSE p
<1>0. member \in [Students -> MemberRow] /\ p \in Shape
  BY DEF Typed, TypeOK
<1>1. \A x \in Students \ {s} : ms[x] = member[x]
  BY <1>0
<1>2. Read(p, course, member, entitled, enrolled)
  BY DEF Reads
<1>3. CASE p.at \in {"findCourses", "findCourseGrades"} /\ p.student = s
  <2>1. p \in Importing /\ p.at \in AtStudent /\ p.at \notin AtCourse
    BY <1>0, <1>3, ShapeAt DEF AtStudent, AtCourse
  <2>2. o = [p EXCEPT !.late = Courses] /\ p \in StudentEnrolment /\ p.at # "commit"
    BY <1>3, <2>1 DEF Importing
  <2>3. o \in StudentEnrolment /\ o.at = p.at /\ o.student = p.student
        /\ o.grade = p.grade /\ o.found = p.found /\ o.new = p.new
        /\ o.late = Courses /\ o.gone = p.gone /\ p.gone \in SUBSET Courses
    BY <2>2 DEF StudentEnrolment
  <2>4. o \in Shape /\ Alike(p, o)
    BY <2>1, <2>2, <2>3 DEF Shape, Importing, Alike
  <2>5. StudentRead(o, course, ms, rights) /\ ImportRead(o, course, enrolled)
    BY <2>3 DEF StudentRead, ImportRead
  <2> QED BY <2>1, <2>3, <2>4, <2>5 DEF Read, CourseRead
<1>4. CASE ~(p.at \in {"findCourses", "findCourseGrades"} /\ p.student = s)
  <2>1. o = p /\ Alike(p, o)
    BY <1>4 DEF Alike
  <2>2. CourseRead(p, course, rights) /\ ImportRead(p, course, enrolled)
    BY <1>2 DEF Read, CourseRead
  <2>3. p.at \in AtStudent => p.student \in Students
    BY <1>0, ShapeAt DEF Importing, StudentEnrolment
  <2>4. StudentRead(p, course, ms, rights)
    BY <1>1, <1>2, <1>4, <2>3 DEF Read, StudentRead
  <2> QED BY <1>0, <2>1, <2>2, <2>4 DEF Read
<1> QED BY <1>3, <1>4

-----------------------------------------------------------------------------
\* What a step of request r does to the requests of others, to imports, to the
\* rows, and to the pairs that are due.
Others(r) ==
    \A q \in Requests \ {r} :
        /\ Alike(req[q], req'[q])
        /\ Read(req'[q], course', member', entitled', enrolled')

ImportStep(r) ==
    /\ IsImport(req'[r]) => IsImport(req[r]) /\ req'[r].student = req[r].student
    /\ \A s \in Students : member[s].state = "importing" =>
         \/ member'[s].state = "importing"
         \/ IsImport(req[r]) /\ req[r].student = s /\ ~IsImport(req'[r])

Commits(q, s, c) == q.at = "commit" /\ q.student = s /\ c \in q.found

RowStep(r) ==
    /\ enrolled \subseteq enrolled' /\ entitled \subseteq entitled' /\ stray \subseteq stray'
    /\ \A s \in Students, c \in Courses :
         <<s, c>> \in enrolled' /\ (<<s, c>> \notin enrolled \/ Commits(req[r], s, c)) =>
            <<s, c>> \in entitled' \cup stray' \/ Commits(req'[r], s, c)

DueStep(r) ==
    \A s \in Students, c \in Courses : IsDue(s, c, course', member') =>
        \/ Covering(req'[r], s, c, course') \/ <<s, c>> \in enrolled' \cup excused'
        \/ /\ IsDue(s, c, course, member)
           /\ course'[c].access = course[c].access
           /\ ~Covering(req[r], s, c, course)
           /\ <<s, c>> \in excused => <<s, c>> \in excused'

LEMMA AlikeCovers ==
  ASSUME NEW q, NEW o, Alike(q, o), NEW s, NEW c, NEW cs, NEW ds,
         ds[c].access = cs[c].access, Covering(q, s, c, cs)
  PROVE  Covering(o, s, c, ds)
BY DEF Alike, Covering, AtCourse, AtStudent

LEMMA AlikeImports ==
  ASSUME NEW q, NEW o, Alike(q, o)
  PROVE  /\ IsImport(o) <=> IsImport(q)
         /\ IsImport(q) => o.student = q.student
         /\ \A s, c : Commits(q, s, c) => Commits(o, s, c)
BY DEF Alike, IsImport, Commits, AtStudent, AtCourse

LEMMA ImportsKept ==
  ASSUME Typed, ImportsOwn, NEW r \in Requests, Others(r), ImportStep(r)
  PROVE  ImportsOwn'
<1> SUFFICES ASSUME NEW q \in Requests, IsImport(req'[q])
             PROVE  /\ member'[req'[q].student].state = "importing"
                    /\ \A o \in Requests \ {q} :
                         IsImport(req'[o]) => req'[o].student # req'[q].student
  BY DEF ImportsOwn
<1>1. \A o \in Requests : IsImport(req'[o]) =>
        IsImport(req[o]) /\ req'[o].student = req[o].student
  BY AlikeImports DEF Others, ImportStep
<1>2. req[q].student \in Students
  BY <1>1, ShapeAt DEF Typed, IsImport, Importing, StudentEnrolment
<1>3. member'[req[q].student].state = "importing"
  BY <1>1, <1>2 DEF ImportStep, ImportsOwn
<1> QED BY <1>1, <1>3 DEF ImportsOwn

LEMMA JustifiedKept ==
  ASSUME Justified, NEW r \in Requests, Others(r), RowStep(r)
  PROVE  Justified'
<1> SUFFICES ASSUME NEW s \in Students, NEW c \in Courses, <<s, c>> \in enrolled'
             PROVE  \/ <<s, c>> \in entitled' \cup stray'
                    \/ \E q \in Requests : Commits(req'[q], s, c)
  BY DEF Justified, Commits
<1>1. CASE <<s, c>> \notin enrolled \/ Commits(req[r], s, c)
  BY <1>1 DEF RowStep
<1>2. CASE <<s, c>> \in enrolled /\ ~Commits(req[r], s, c)
  <2>1. CASE <<s, c>> \in entitled \cup stray
    BY <2>1 DEF RowStep
  <2>2. ASSUME NEW q \in Requests, Commits(req[q], s, c)
        PROVE  Commits(req'[q], s, c)
    BY <1>2, <2>2, AlikeImports DEF Others
  <2> QED BY <1>2, <2>1, <2>2 DEF Justified, Commits
<1> QED BY <1>1, <1>2

LEMMA CoveredKept ==
  ASSUME NoneMissed, NEW r \in Requests, Others(r), RowStep(r), DueStep(r)
  PROVE  NoneMissed'
<1> SUFFICES ASSUME NEW s \in Students, NEW c \in Courses,
                    IsDue(s, c, course', member')
             PROVE  \/ <<s, c>> \in enrolled' \cup excused'
                    \/ \E q \in Requests : Covering(req'[q], s, c, course')
  BY DEF NoneMissed, Covered, IsDue, IsEligible
<1>1. ASSUME IsDue(s, c, course, member), course'[c].access = course[c].access,
             ~Covering(req[r], s, c, course),
             <<s, c>> \in excused => <<s, c>> \in excused'
      PROVE  \/ <<s, c>> \in enrolled' \cup excused'
             \/ \E q \in Requests : Covering(req'[q], s, c, course')
  <2>1. Covered(s, c)
    BY <1>1 DEF NoneMissed
  <2>2. ASSUME NEW q \in Requests, Covering(req[q], s, c, course)
        PROVE  Covering(req'[q], s, c, course')
    <3>1. q # r /\ Alike(req[q], req'[q])
      BY <1>1, <2>2 DEF Others
    <3> QED BY <1>1, <2>2, <3>1, AlikeCovers
  <2> QED BY <1>1, <2>1, <2>2 DEF Covered, RowStep
<1> QED BY <1>1 DEF DueStep

LEMMA StepKeeps ==
  ASSUME Inv, NEW r \in Requests, Typed', Others(r), EligibleEntitled',
         Read(req'[r], course', member', entitled', enrolled'),
         ImportStep(r) \/ ImportsOwn', RowStep(r), DueStep(r)
  PROVE  Inv'
<1>1. Reads'
  BY DEF Others, Reads, Read, CourseRead, StudentRead, ImportRead, IsImport
<1>2. ImportsOwn' /\ NoneMissed' /\ Justified'
  BY ImportsKept, CoveredKept, JustifiedKept DEF Inv
<1> QED BY <1>1, <1>2 DEF Inv

-----------------------------------------------------------------------------
\* The three kinds of writes.
LEMMA CourseWritten ==
  ASSUME Inv, NEW r \in Requests, NEW c \in Courses, NEW row \in CourseRow,
         NEW mine \in Shape, WriteCourse(r, c, row, mine), UNCHANGED <<member, enrolled>>
  PROVE  /\ req'[r] = mine /\ req' \in [Requests -> Shape]
         /\ course' \in [Courses -> CourseRow] /\ course'[c] = row
         /\ \A d \in Courses \ {c} : course'[d] = course[d]
         /\ entitled' \subseteq Pairs /\ entitled \subseteq entitled'
         /\ EligibleEntitled' /\ Others(r)
<1>1. course' = [course EXCEPT ![c] = row] /\ course \in [Courses -> CourseRow]
  BY DEF WriteCourse, Inv, Typed, TypeOK
<1> DEFINE dropped == row.access = None /\ course[c].access # None
<1>2. \A q \in Requests : req'[q] = IF q = r THEN mine ELSE Overtaken(q, c, dropped)
  BY DEF WriteCourse
<1>3. \A q \in Requests : Overtaken(q, c, dropped) \in Shape
                          /\ Alike(req[q], Overtaken(q, c, dropped))
  BY OvertakenAlike DEF Inv
<1>4. req' \in [Requests -> Shape] /\ req'[r] = mine
  BY <1>2, <1>3 DEF WriteCourse
<1>5. entitled' = entitled \cup EligibleIn(course', member')
  BY DEF WriteCourse
<1>6. EligibleEntitled' /\ entitled' \subseteq Pairs /\ entitled \subseteq entitled'
  BY <1>5, EligiblePairs, PairSets DEF EligibleEntitled, Inv, Typed, TypeOK, IsEligible
<1>7. \A q \in Requests :
        Read(Overtaken(q, c, dropped), course', member', entitled', enrolled')
  BY <1>1, <1>6, OvertakenReads DEF Inv
<1>8. Others(r)
  BY <1>2, <1>3, <1>7 DEF Others
<1> QED BY <1>1, <1>4, <1>6, <1>8

LEMMA MemberWritten ==
  ASSUME Inv, NEW r \in Requests, NEW s \in Students, NEW row \in MemberRow,
         NEW mine \in Shape, WriteMember(r, s, row, mine), UNCHANGED <<course, enrolled>>
  PROVE  /\ req'[r] = mine /\ req' \in [Requests -> Shape]
         /\ member' \in [Students -> MemberRow] /\ member'[s] = row
         /\ \A x \in Students \ {s} : member'[x] = member[x]
         /\ entitled' \subseteq Pairs /\ entitled \subseteq entitled'
         /\ EligibleEntitled' /\ Others(r)
<1>1. member' = [member EXCEPT ![s] = row] /\ member \in [Students -> MemberRow]
  BY DEF WriteMember, Inv, Typed, TypeOK
<1> DEFINE other(q) == IF req[q].at \in {"findCourses", "findCourseGrades"}
                             /\ req[q].student = s
                       THEN [req[q] EXCEPT !.late = Courses] ELSE req[q]
<1>2. \A q \in Requests : req'[q] = IF q = r THEN mine ELSE other(q)
  BY DEF WriteMember
<1>5. entitled' = entitled \cup EligibleIn(course', member')
  BY DEF WriteMember
<1>6. EligibleEntitled' /\ entitled' \subseteq Pairs /\ entitled \subseteq entitled'
  BY <1>5, EligiblePairs, PairSets DEF EligibleEntitled, Inv, Typed, TypeOK, IsEligible
<1>3. \A q \in Requests : /\ other(q) \in Shape /\ Alike(req[q], other(q))
                          /\ Read(other(q), course', member', entitled', enrolled')
  BY <1>1, <1>6, MemberReads DEF Inv
<1>4. req' \in [Requests -> Shape] /\ req'[r] = mine
  BY <1>2, <1>3 DEF WriteMember
<1>8. Others(r)
  BY <1>2, <1>3 DEF Others
<1> QED BY <1>1, <1>4, <1>6, <1>8

LEMMA RequestMoved ==
  ASSUME Inv, NEW r \in Requests, NEW mine \in Shape, req' = [req EXCEPT ![r] = mine],
         UNCHANGED <<course, member, entitled>>, enrolled \subseteq enrolled'
  PROVE  /\ req'[r] = mine /\ req' \in [Requests -> Shape]
         /\ EligibleEntitled' /\ Others(r)
<1>1. req'[r] = mine /\ req' \in [Requests -> Shape]
      /\ \A q \in Requests \ {r} : req'[q] = req[q]
  BY DEF Inv, Typed
<1>2. \A q \in Requests \ {r} : Read(req[q], course', member', entitled', enrolled')
  BY DEF Inv, Reads, Read, CourseRead, StudentRead, ImportRead
<1>3. Others(r)
  BY <1>1, <1>2 DEF Others, Alike
<1> QED BY <1>1, <1>3 DEF EligibleEntitled, IsEligible, Inv

-----------------------------------------------------------------------------
\* What is left to show of a handler that writes a course, of one that writes a
\* student, and of one that only reads, before it comes to its enrolments.
Outside(q) == q.at \notin AtCourse \cup AtStudent

LEMMA OutsideCovers ==
  ASSUME NEW q, Outside(q)
  PROVE  ~IsImport(q) /\ \A s, c, cs : ~Covering(q, s, c, cs) /\ ~Commits(q, s, c)
BY DEF Outside, IsImport, Covering, Commits, AtStudent

LEMMA CourseAction ==
  ASSUME Inv, NEW r \in Requests, NEW c \in Courses, NEW row \in CourseRow,
         NEW mine \in Shape, WriteCourse(r, c, row, mine),
         UNCHANGED <<member, enrolled, stray>>, started' \in 0..MaxRequests,
         excused' \subseteq Pairs, Outside(req[r]), mine.at \notin AtStudent,
         Read(mine, course', member', entitled', enrolled'),
         \A s \in Students, d \in Courses \ {c} : <<s, d>> \in excused => <<s, d>> \in excused',
         \A s \in Students : IsDue(s, c, course', member) =>
            \/ Covering(mine, s, c, course') \/ <<s, c>> \in excused'
            \/ /\ IsDue(s, c, course, member) /\ row.access = course[c].access
               /\ <<s, c>> \in excused => <<s, c>> \in excused'
  PROVE  Inv'
<1>1. /\ req'[r] = mine /\ req' \in [Requests -> Shape]
      /\ course' \in [Courses -> CourseRow] /\ course'[c] = row
      /\ \A d \in Courses \ {c} : course'[d] = course[d]
      /\ entitled' \subseteq Pairs /\ entitled \subseteq entitled'
      /\ EligibleEntitled' /\ Others(r)
  BY CourseWritten
<1>2. Typed'
  BY <1>1, ShapeIsRequest DEF Inv, Typed, TypeOK
<1>3. ~IsImport(mine) /\ \A s, d : ~Commits(mine, s, d)
  BY DEF IsImport, Commits, AtStudent
<1>4. ImportStep(r)
  BY <1>1, <1>3 DEF ImportStep
<1>5. RowStep(r)
  BY <1>1, OutsideCovers DEF RowStep
<1>6. DueStep(r)
  BY <1>1, OutsideCovers DEF DueStep, IsDue, IsEligible
<1> QED BY <1>1, <1>2, <1>4, <1>5, <1>6, StepKeeps

LEMMA MemberAction ==
  ASSUME Inv, NEW r \in Requests, NEW s \in Students, NEW row \in MemberRow,
         NEW mine \in Shape, WriteMember(r, s, row, mine),
         UNCHANGED <<course, enrolled, stray>>, started' \in 0..MaxRequests,
         excused' \subseteq Pairs, Outside(req[r]), ~IsImport(mine), mine.at # "commit",
         Read(mine, course', member', entitled', enrolled'),
         member[s].state = "importing" => row.state = "importing",
         \A x \in Students \ {s}, c \in Courses : <<x, c>> \in excused => <<x, c>> \in excused',
         \A c \in Courses : IsDue(s, c, course, member') =>
            \/ Covering(mine, s, c, course) \/ <<s, c>> \in excused'
            \/ IsDue(s, c, course, member) /\ (<<s, c>> \in excused => <<s, c>> \in excused')
  PROVE  Inv'
<1>1. /\ req'[r] = mine /\ req' \in [Requests -> Shape]
      /\ member' \in [Students -> MemberRow] /\ member'[s] = row
      /\ \A x \in Students \ {s} : member'[x] = member[x]
      /\ entitled' \subseteq Pairs /\ entitled \subseteq entitled'
      /\ EligibleEntitled' /\ Others(r)
  BY MemberWritten
<1>2. Typed'
  BY <1>1, ShapeIsRequest DEF Inv, Typed, TypeOK
<1>3. \A x, d : ~Commits(mine, x, d)
  BY DEF Commits
<1>4. ImportStep(r)
  BY <1>1, <1>3 DEF ImportStep
<1>5. RowStep(r)
  BY <1>1, OutsideCovers DEF RowStep
<1>6. DueStep(r)
  BY <1>1, OutsideCovers DEF DueStep, IsDue, IsEligible
<1> QED BY <1>1, <1>2, <1>4, <1>5, <1>6, StepKeeps

LEMMA ReadAction ==
  ASSUME Inv, NEW r \in Requests, NEW mine \in Shape, req' = [req EXCEPT ![r] = mine],
         UNCHANGED <<course, member, enrolled, stray, entitled>>,
         started' \in 0..MaxRequests, excused' \subseteq Pairs,
         Outside(req[r]), Read(mine, course, member, entitled, enrolled),
         ~IsImport(mine), mine.at # "commit",
         \A s \in Students, c \in Courses : IsDue(s, c, course, member) =>
            Covering(mine, s, c, course) \/ (<<s, c>> \in excused => <<s, c>> \in excused')
  PROVE  Inv'
<1>1. /\ req'[r] = mine /\ req' \in [Requests -> Shape]
      /\ EligibleEntitled' /\ Others(r)
  BY RequestMoved
<1>2. Typed'
  BY <1>1, ShapeIsRequest DEF Inv, Typed, TypeOK
<1>3. Read(mine, course', member', entitled', enrolled')
  OBVIOUS
<1>4. ImportStep(r)
  BY <1>1 DEF ImportStep
<1>5. RowStep(r)
  BY <1>1, OutsideCovers DEF RowStep
<1>6. DueStep(r)
  BY <1>1, OutsideCovers DEF DueStep
<1> QED BY <1>1, <1>2, <1>3, <1>4, <1>5, <1>6, StepKeeps

LEMMA Fresh ==
  ASSUME Inv, NEW r \in Requests, NEW endpoint, Starts(r, endpoint)
  PROVE  Outside(req[r]) /\ started' \in 0..MaxRequests
<1>1. Outside(req[r])
  BY DEF Starts, Idle, Outside, AtCourse, AtStudent
<1>2. started' \in 0..MaxRequests
  BY EnrollmentOK DEF Starts, Inv, Typed, TypeOK
<1> QED BY <1>1, <1>2

\* A request that starts its enrolments covers all that is due to it.
LEMMA EnrolCourseStarts ==
  ASSUME NEW c \in Courses, NEW late \in BOOLEAN, NEW cs, NEW ms, NEW rights, NEW rows,
         late \/ cs[c].state = "published"
  PROVE  LET q == EnrolCourse(c, late) IN
         /\ q \in Shape /\ q.at \notin AtStudent /\ Read(q, cs, ms, rights, rows)
         /\ \A s : Covering(q, s, c, cs)
<1> DEFINE q == EnrolCourse(c, late)
<1>1. q \in Shape
  BY DEF EnrolCourse, Shape, CourseEnrolment
<1>2. q.at = "findAccess" /\ q.course = c /\ q.late = late /\ q.gone = FALSE
  BY DEF EnrolCourse
<1>3. q.at \in AtCourse /\ q.at \notin AtStudent
  BY <1>2 DEF AtCourse, AtStudent
<1>4. Read(q, cs, ms, rights, rows)
  BY <1>2, <1>3 DEF Read, CourseRead, StudentRead, ImportRead, IsImport
<1> QED BY <1>1, <1>2, <1>3, <1>4 DEF Covering

LEMMA EnrolStudentStarts ==
  ASSUME NEW s \in Students, NEW grade \in StudentGrade,
         NEW new \in {"no", "active", "inactive"}, NEW cs, NEW ms, NEW rights, NEW rows,
         new = "no" => ms[s].state = "member" /\ ms[s].grade = grade
  PROVE  LET q == EnrolStudent(s, grade, new) IN
         /\ q \in Shape /\ Read(q, cs, ms, rights, rows)
         /\ q.at = "findCourses" /\ q.student = s /\ (new = "no" => ~IsImport(q))
         /\ \A c : Admits(cs[c].access, grade) => Covering(q, s, c, cs)
<1> DEFINE q == EnrolStudent(s, grade, new)
<1>1. q \in StudentEnrolment
  BY DEF EnrolStudent, StudentEnrolment
<1>2. /\ q.at = "findCourses" /\ q.student = s /\ q.grade = grade /\ q.new = new
      /\ q.late = {} /\ q.gone = {} /\ q.found = {}
  BY DEF EnrolStudent
<1>3. q \in Shape /\ q.at \in AtStudent /\ q.at \notin AtCourse
  BY <1>1, <1>2 DEF Shape, Importing, AtStudent, AtCourse
<1>4. Read(q, cs, ms, rights, rows)
  BY <1>2, <1>3 DEF Read, CourseRead, StudentRead, ImportRead, IsImport
<1> QED BY <1>2, <1>3, <1>4 DEF Covering, IsImport, AtStudent

LEMMA EnrolsAgain ==
  ASSUME NEW s \in Students, NEW grade \in StudentGrade, NEW q,
         q = EnrolStudent(s, grade, "no"), NEW cs, NEW ms, NEW rights, NEW rows,
         ms[s].state = "member", ms[s].grade = grade
  PROVE  /\ q \in Shape /\ Read(q, cs, ms, rights, rows)
         /\ q.at = "findCourses" /\ ~IsImport(q)
         /\ \A c : Admits(cs[c].access, grade) => Covering(q, s, c, cs)
<1>1. "no" \in {"no", "active", "inactive"}
  OBVIOUS
<1> QED BY <1>1, EnrolStudentStarts

LEMMA OutsideReads ==
  ASSUME NEW q, Outside(q), NEW cs, NEW ms, NEW rights, NEW rows
  PROVE  /\ Read(q, cs, ms, rights, rows) /\ ~IsImport(q)
         /\ q.at \notin AtStudent /\ q.at # "commit"
BY DEF Outside, Read, CourseRead, StudentRead, ImportRead, IsImport, AtStudent

-----------------------------------------------------------------------------
\* The handlers of courses.
LEMMA CreateStep ==
  ASSUME Inv, NEW r \in Requests, NEW c \in Courses, NEW publish \in BOOLEAN,
         NEW access \in Access, Create(r, c, publish, access)
  PROVE  Inv'
<1> DEFINE row == [state |-> IF publish THEN "published" ELSE "draft", access |-> None]
           mine == IF access = None THEN Idle
                   ELSE [at |-> "grant", course |-> c, publish |-> Keep,
                         access |-> access, enrols |-> publish]
<1>1. WriteCourse(r, c, row, mine) /\ UNCHANGED <<member, enrolled, excused, stray>>
  BY DEF Create
<1>2. Outside(req[r]) /\ started' \in 0..MaxRequests
  BY Fresh DEF Create
<1>3. row \in CourseRow
  BY DEF CourseRow, Access
<1>4. mine \in Shape /\ Outside(mine)
  BY DEF Shape, Granting, Access, Outside, AtCourse, AtStudent, Idle
<1>5. course'[c].access = None
  BY <1>1 DEF WriteCourse, Inv, Typed, TypeOK
<1> HIDE DEF row, mine
<1>6. \A s \in Students : ~IsDue(s, c, course', member)
  BY <1>5 DEF IsDue, IsEligible, Admits
<1> QED BY <1>1, <1>2, <1>3, <1>4, <1>6, OutsideReads, CourseAction DEF Inv, Typed, TypeOK

LEMMA ExcusedLess ==
  ASSUME Inv, NEW c \in Courses, NEW s \in Students
  PROVE  /\ excused \ (Students \X {c}) \subseteq Pairs
         /\ excused \ ({s} \X Courses) \subseteq Pairs
         /\ \A x \in Students, d \in Courses \ {c} :
              <<x, d>> \in excused => <<x, d>> \in excused \ (Students \X {c})
         /\ \A x \in Students \ {s}, d \in Courses :
              <<x, d>> \in excused => <<x, d>> \in excused \ ({s} \X Courses)
BY DEF Inv, Typed, TypeOK

LEMMA PublishStep ==
  ASSUME Inv, NEW r \in Requests, NEW c \in Courses, NEW publish \in BOOLEAN,
         Publish(r, c, publish)
  PROVE  Inv'
<1> DEFINE row == [course[c] EXCEPT !.state = IF publish THEN "published" ELSE "draft"]
           mine == IF publish THEN EnrolCourse(c, FALSE) ELSE Idle
<1>1. WriteCourse(r, c, row, mine) /\ UNCHANGED <<member, enrolled, stray>>
      /\ excused' = excused \ (IF publish THEN Students \X {c} ELSE {})
  BY DEF Publish
<1>2. Outside(req[r]) /\ started' \in 0..MaxRequests
  BY Fresh DEF Publish
<1>3. row \in CourseRow /\ row.access = course[c].access
      /\ row.state = IF publish THEN "published" ELSE "draft"
  BY DEF CourseRow, Inv, Typed, TypeOK
<1>4. course'[c] = row
  BY <1>1 DEF WriteCourse, Inv, Typed, TypeOK
<1>5. excused' \subseteq Pairs /\
      \A s \in Students, d \in Courses \ {c} : <<s, d>> \in excused => <<s, d>> \in excused'
  BY <1>1, ExcusedLess DEF Inv, Typed, TypeOK
<1>6. CASE publish
  <2>1. mine = EnrolCourse(c, FALSE) /\ course'[c].state = "published"
    BY <1>3, <1>4, <1>6
  <2>2. /\ mine \in Shape /\ mine.at \notin AtStudent
        /\ Read(mine, course', member', entitled', enrolled')
        /\ \A s : Covering(mine, s, c, course')
    BY <2>1, EnrolCourseStarts
  <2> HIDE DEF mine, row
  <2> QED BY <1>1, <1>2, <1>3, <1>5, <2>2, CourseAction
<1>7. CASE ~publish
  <2>1. mine = Idle /\ course'[c].state = "draft"
    BY <1>3, <1>4, <1>7
  <2>2. \A s \in Students : ~IsDue(s, c, course', member)
    BY <2>1 DEF IsDue, IsEligible
  <2>3. mine \in Shape /\ mine.at \notin AtStudent
        /\ Read(mine, course', member', entitled', enrolled')
    BY <2>1, IdleShape, IdleReads DEF AtStudent
  <2> HIDE DEF mine, row
  <2> QED BY <1>1, <1>2, <1>3, <1>5, <2>2, <2>3, CourseAction
<1> QED BY <1>6, <1>7

LEMMA UpdateReadStep ==
  ASSUME Inv, NEW r \in Requests, NEW c \in Courses, NEW publish \in BOOLEAN \cup {Keep},
         NEW access \in Access \cup {Keep}, UpdateRead(r, c, publish, access)
  PROVE  Inv'
<1> DEFINE mine == [at |-> IF publish = Keep THEN "clear" ELSE "flag", course |-> c,
                    publish |-> publish, access |-> access,
                    enrols |-> course[c].state = "published"]
<1>1. /\ req' = [req EXCEPT ![r] = mine]
      /\ publish # Keep \/ access # Keep
      /\ UNCHANGED <<course, member, enrolled, excused, entitled, stray>>
  BY DEF UpdateRead
<1>2. Outside(req[r]) /\ started' \in 0..MaxRequests
  BY Fresh DEF UpdateRead
<1>3. mine \in Shape /\ Outside(mine)
  BY <1>1 DEF Shape, Flagging, Clearing, Outside, AtCourse, AtStudent
<1> HIDE DEF mine
<1> QED BY <1>1, <1>2, <1>3, OutsideReads, ReadAction DEF Inv, Typed, TypeOK

LEMMA AccessStartStep ==
  ASSUME Inv, NEW r \in Requests, NEW c \in Courses, NEW access \in Access,
         AccessStart(r, c, access)
  PROVE  Inv'
<1> DEFINE mine == [at |-> "clear", course |-> c, publish |-> Keep, access |-> access,
                    enrols |-> FALSE]
<1>1. /\ req' = [req EXCEPT ![r] = mine]
      /\ UNCHANGED <<course, member, enrolled, excused, entitled, stray>>
  BY DEF AccessStart
<1>2. Outside(req[r]) /\ started' \in 0..MaxRequests
  BY Fresh DEF AccessStart
<1>3. mine \in Shape /\ Outside(mine)
  BY DEF Shape, Clearing, Outside, AtCourse, AtStudent
<1> HIDE DEF mine
<1> QED BY <1>1, <1>2, <1>3, OutsideReads, ReadAction DEF Inv, Typed, TypeOK

\* A write that enrols nobody excuses what becomes due by it.
LEMMA SilentExcuses ==
  ASSUME Inv, NEW cs, NEW ms, Silent(cs, ms)
  PROVE  /\ excused' \subseteq Pairs /\ excused \subseteq excused'
         /\ \A s \in Students, c \in Courses :
              IsDue(s, c, cs, ms) /\ ~IsDue(s, c, course, member) => <<s, c>> \in excused'
<1>1. excused' = excused \cup (DueIn(cs, ms) \ DueIn(course, member))
  BY DEF Silent, Due
<1> QED BY <1>1, PairSets, EligiblePairs DEF Inv, Typed, TypeOK

LEMMA UpdateFlagStep ==
  ASSUME Inv, NEW r \in Requests, UpdateFlag(r)
  PROVE  Inv'
<1> DEFINE p == req[r]
           c == p.course
           row == [course[c] EXCEPT !.state = IF p.publish THEN "published" ELSE "draft"]
           mine == IF p.access = Keep THEN Idle ELSE [p EXCEPT !.at = "clear"]
<1>1. p \in Flagging /\ c \in Courses
  BY ShapeAt DEF UpdateFlag, Flagging, Inv, Typed
<1>2. /\ UNCHANGED <<member, enrolled, started, stray>> /\ Silent(course', member)
      /\ \/ WriteCourse(r, c, row, mine)
         \/ req' = [req EXCEPT ![r] = Idle] /\ UNCHANGED <<course, entitled>>
  BY DEF UpdateFlag
<1>3. Outside(p) /\ started' \in 0..MaxRequests
  BY <1>2 DEF UpdateFlag, Outside, AtCourse, AtStudent, Inv, Typed, TypeOK
<1>4. /\ excused' \subseteq Pairs /\ excused \subseteq excused'
      /\ \A s \in Students, d \in Courses :
           IsDue(s, d, course', member) /\ ~IsDue(s, d, course, member) => <<s, d>> \in excused'
  BY <1>2, SilentExcuses
<1>5. CASE WriteCourse(r, c, row, mine)
  <2>1. row \in CourseRow /\ row.access = course[c].access
    BY <1>1 DEF CourseRow, Inv, Typed, TypeOK
  <2>2. p.access # Keep => mine \in Clearing /\ mine.at = "clear"
    BY <1>1 DEF Flagging, Clearing
  <2>3. mine \in Shape /\ Outside(mine)
    BY <2>2, IdleShape DEF Shape, Outside, AtCourse, AtStudent
  <2> HIDE DEF row, mine
  <2> QED BY <1>1, <1>2, <1>3, <1>4, <1>5, <2>1, <2>3, OutsideReads, CourseAction
<1>6. CASE req' = [req EXCEPT ![r] = Idle] /\ UNCHANGED <<course, entitled>>
  <2>1. Outside(Idle)
    BY IdleShape DEF Outside, AtCourse, AtStudent
  <2> QED BY <1>2, <1>3, <1>4, <1>6, <2>1, IdleShape, OutsideReads, ReadAction
<1> QED BY <1>2, <1>5, <1>6

LEMMA GrantedGoes ==
  ASSUME NEW p, p.course \in Courses, p.enrols \in BOOLEAN, NEW cs, NEW ms,
         NEW rights, NEW rows, cs[p.course].state = course[p.course].state
  PROVE  LET q == Granted(p) IN
         /\ q \in Shape /\ q.at \notin AtStudent /\ Read(q, cs, ms, rights, rows)
         /\ p.enrols => \A s : Covering(q, s, p.course, cs)
<1>1. CASE p.enrols
  BY <1>1, EnrolCourseStarts DEF Granted
<1>2. CASE ~p.enrols
  BY <1>2, IdleShape, IdleReads DEF Granted, AtStudent
<1> QED BY <1>1, <1>2

LEMMA ClearStep ==
  ASSUME Inv, NEW r \in Requests, Clear(r)
  PROVE  Inv'
<1> DEFINE p == req[r]
           c == p.course
           row == [course[c] EXCEPT !.access = None]
           mine == IF p.access = None THEN Granted(p) ELSE [p EXCEPT !.at = "grant"]
<1>1. p \in Clearing /\ c \in Courses
  BY ShapeAt DEF Clear, Clearing, Inv, Typed
<1>2. WriteCourse(r, c, row, mine) /\ UNCHANGED <<member, enrolled, started, excused, stray>>
  BY DEF Clear
<1>3. Outside(p) /\ started' \in 0..MaxRequests
  BY <1>2 DEF Clear, Outside, AtCourse, AtStudent, Inv, Typed, TypeOK
<1>4. row \in CourseRow /\ row.access = None /\ row.state = course[c].state
  BY <1>1 DEF CourseRow, Access, Inv, Typed, TypeOK
<1>5. course'[c] = row
  BY <1>1, <1>2 DEF WriteCourse, Inv, Typed, TypeOK
<1>6. \A s \in Students : ~IsDue(s, c, course', member)
  BY <1>4, <1>5 DEF IsDue, IsEligible, Admits
<1>7. /\ mine \in Shape /\ mine.at \notin AtStudent
      /\ Read(mine, course', member', entitled', enrolled')
  <2>1. CASE p.access = None
    <3>1. mine = Granted(p) /\ p.enrols \in BOOLEAN /\ course'[c].state = course[c].state
      BY <1>1, <1>4, <1>5, <2>1 DEF Clearing
    <3> HIDE DEF mine
    <3> QED BY <1>1, <3>1, GrantedGoes
  <2>2. CASE p.access # None
    <3>1. mine \in Granting /\ mine.at = "grant"
      BY <1>1, <2>2 DEF Clearing, Granting, Access
    <3> HIDE DEF mine
    <3> QED BY <3>1, OutsideReads DEF Shape, Outside, AtCourse, AtStudent
  <2> QED BY <2>1, <2>2
<1> HIDE DEF row, mine
<1> QED BY <1>1, <1>2, <1>3, <1>4, <1>6, <1>7, CourseAction DEF Inv, Typed, TypeOK

LEMMA GrantStep ==
  ASSUME Inv, NEW r \in Requests, Grant(r)
  PROVE  Inv'
<1> DEFINE p == req[r]
           c == p.course
           row == [course[c] EXCEPT !.access = p.access]
           mine == Granted(p)
<1>1. p \in Granting /\ c \in Courses /\ p.access \in Access /\ p.enrols \in BOOLEAN
  BY ShapeAt DEF Grant, Granting, Access, Inv, Typed
<1>2. UNCHANGED <<member, enrolled, started, stray>>
  BY DEF Grant
<1>3. Outside(p) /\ started' \in 0..MaxRequests
  BY <1>2 DEF Grant, Outside, AtCourse, AtStudent, Inv, Typed, TypeOK
<1>4. CASE Exists(c) /\ course[c].access = None
  <2>1. WriteCourse(r, c, row, mine)
        /\ IF p.enrols THEN excused' = excused \ (Students \X {c}) ELSE Silent(course', member')
    BY <1>4 DEF Grant
  <2>2. row \in CourseRow /\ row.state = course[c].state
    BY <1>1 DEF CourseRow, Inv, Typed, TypeOK
  <2>3. course'[c] = row
    BY <1>1, <2>1 DEF WriteCourse, Inv, Typed, TypeOK
  <2>4. /\ mine \in Shape /\ mine.at \notin AtStudent
        /\ Read(mine, course', member', entitled', enrolled')
        /\ p.enrols => \A s : Covering(mine, s, c, course')
    BY <1>1, <2>2, <2>3, GrantedGoes
  <2>5. \A s \in Students : ~IsDue(s, c, course, member)
    BY <1>4 DEF IsDue, IsEligible, Admits
  <2>6. /\ excused' \subseteq Pairs
        /\ \A s \in Students, d \in Courses \ {c} : <<s, d>> \in excused => <<s, d>> \in excused'
        /\ ~p.enrols => \A s \in Students : IsDue(s, c, course', member) => <<s, c>> \in excused'
    <3>1. CASE p.enrols
      <4>1. excused' = excused \ (Students \X {c}) /\ excused \subseteq Pairs
        BY <2>1, <3>1 DEF Inv, Typed, TypeOK
      <4> QED BY <1>1, <3>1, <4>1
    <3>2. CASE ~p.enrols
      <4>1. Silent(course', member)
        BY <1>2, <2>1, <3>2
      <4> QED BY <1>1, <2>5, <3>2, <4>1, SilentExcuses
    <3> QED BY <1>1, <3>1, <3>2
  <2> HIDE DEF row, mine
  <2> QED BY <1>1, <1>2, <1>3, <2>1, <2>2, <2>4, <2>6, CourseAction
<1>5. CASE ~(Exists(c) /\ course[c].access = None)
  <2>1. req' = [req EXCEPT ![r] = Idle] /\ UNCHANGED <<course, excused, entitled>>
    BY <1>5 DEF Grant
  <2>2. Outside(Idle)
    BY IdleShape DEF Outside, AtCourse, AtStudent
  <2> QED BY <1>2, <1>3, <2>1, <2>2, IdleShape, OutsideReads, ReadAction
          DEF Inv, Typed, TypeOK
<1> QED BY <1>4, <1>5

LEMMA DeleteCourseStep ==
  ASSUME Inv, NEW r \in Requests, NEW c \in Courses, DeleteCourse(r, c)
  PROVE  Inv'
<1> DEFINE row == [state |-> "deleted", access |-> None]
<1>1. WriteCourse(r, c, row, Idle) /\ UNCHANGED <<member, enrolled, excused, stray>>
  BY DEF DeleteCourse
<1>2. Outside(req[r]) /\ started' \in 0..MaxRequests
  BY Fresh DEF DeleteCourse
<1>3. row \in CourseRow
  BY DEF CourseRow, Access
<1>4. course'[c].access = None
  BY <1>1 DEF WriteCourse, Inv, Typed, TypeOK
<1> HIDE DEF row
<1>5. \A s \in Students : ~IsDue(s, c, course', member)
  BY <1>4 DEF IsDue, IsEligible, Admits
<1>6. Outside(Idle)
  BY IdleShape DEF Outside, AtCourse, AtStudent
<1> QED BY <1>1, <1>2, <1>3, <1>5, <1>6, IdleShape, OutsideReads, CourseAction
        DEF Inv, Typed, TypeOK

-----------------------------------------------------------------------------
\* The handlers of students.
LEMMA RegisterStep ==
  ASSUME Inv, NEW r \in Requests, NEW s \in Students, NEW grade \in StudentGrade,
         Register(r, s, grade)
  PROVE  Inv'
<1> DEFINE row == [state |-> "member", grade |-> grade, active |-> TRUE, account |-> TRUE]
           mine == EnrolStudent(s, grade, "no")
<1>1. /\ WriteMember(r, s, row, mine) /\ member[s].state = "none"
      /\ UNCHANGED <<course, enrolled, excused, stray>>
  BY DEF Register
<1>2. Outside(req[r]) /\ started' \in 0..MaxRequests
  BY Fresh DEF Register
<1>3. row \in MemberRow
  BY DEF MemberRow
<1>4. member'[s] = row
  BY <1>1 DEF WriteMember, Inv, Typed, TypeOK
<1>7. course' = course /\ member'[s].state = "member" /\ member'[s].grade = grade
  BY <1>1, <1>4
<1>5. /\ mine \in Shape /\ Read(mine, course', member', entitled', enrolled')
      /\ mine.at = "findCourses" /\ ~IsImport(mine)
      /\ \A c : Admits(course'[c].access, grade) => Covering(mine, s, c, course')
  <2>1. "no" \in {"no", "active", "inactive"}
    OBVIOUS
  <2> QED BY <1>7, <2>1, EnrolStudentStarts
<1>6. \A c \in Courses : IsDue(s, c, course, member') => Covering(mine, s, c, course)
  BY <1>5, <1>7 DEF IsDue, IsEligible
<1> HIDE DEF row, mine
<1> QED BY <1>1, <1>2, <1>3, <1>5, <1>6, MemberAction DEF Inv, Typed, TypeOK

LEMMA ImportStarts ==
  ASSUME Inv, NEW r \in Requests, NEW s \in Students, NEW grade \in StudentGrade,
         NEW new \in {"active", "inactive"}, Import(r, s, grade, new)
  PROVE  Inv'
<1> DEFINE row == [member[s] EXCEPT !.state = "importing"]
           mine == EnrolStudent(s, grade, new)
<1>1. /\ WriteMember(r, s, row, mine) /\ member[s].state = "none"
      /\ UNCHANGED <<course, enrolled, excused, stray>>
  BY DEF Import
<1>2. Outside(req[r]) /\ started' \in 0..MaxRequests
  BY Fresh DEF Import
<1>3. row \in MemberRow /\ row.state = "importing"
  BY DEF MemberRow, Inv, Typed, TypeOK
<1>4. /\ mine \in Shape /\ Read(mine, course', member', entitled', enrolled')
      /\ mine.at = "findCourses" /\ mine.student = s
  <2>1. new \in {"no", "active", "inactive"} /\ new # "no"
    OBVIOUS
  <2> QED BY <2>1, EnrolStudentStarts
<1> HIDE DEF row, mine
<1>5. /\ req'[r] = mine /\ req' \in [Requests -> Shape]
      /\ member' \in [Students -> MemberRow] /\ member'[s] = row
      /\ \A x \in Students \ {s} : member'[x] = member[x]
      /\ entitled' \subseteq Pairs /\ entitled \subseteq entitled'
      /\ EligibleEntitled' /\ Others(r)
  BY <1>1, <1>3, <1>4, MemberWritten
<1>6. Typed'
  BY <1>1, <1>2, <1>5, ShapeIsRequest DEF Inv, Typed, TypeOK
<1>7. ImportsOwn'
  <2>3. \A q \in Requests \ {r} : IsImport(req'[q]) =>
          IsImport(req[q]) /\ req'[q].student = req[q].student
    BY <1>5, AlikeImports DEF Others
  <2>4. \A q \in Requests : IsImport(req[q]) => req[q].student \in Students
    BY ShapeAt DEF Inv, Typed, IsImport, Importing, StudentEnrolment
  <2>1. \A q \in Requests \ {r} : IsImport(req'[q]) =>
          /\ IsImport(req[q]) /\ req'[q].student = req[q].student
          /\ req[q].student \in Students
    BY <2>3, <2>4
  <2>2. \A q \in Requests \ {r} : IsImport(req'[q]) =>
          req[q].student # s /\ member'[req[q].student].state = "importing"
    BY <1>1, <1>5, <2>1 DEF Inv, ImportsOwn
  <2> QED BY <1>3, <1>4, <1>5, <2>1, <2>2 DEF Inv, ImportsOwn
<1>8. RowStep(r)
  BY <1>1, <1>2, <1>5, OutsideCovers DEF RowStep
<1>9. DueStep(r)
  BY <1>1, <1>2, <1>3, <1>5, OutsideCovers DEF DueStep, IsDue, IsEligible
<1> QED BY <1>4, <1>5, <1>6, <1>7, <1>8, <1>9, StepKeeps

LEMMA EditReadStep ==
  ASSUME Inv, NEW r \in Requests, NEW s \in Students, NEW grade \in StudentGrade \cup {Keep},
         NEW active \in BOOLEAN \cup {Keep}, EditRead(r, s, grade, active)
  PROVE  Inv'
<1> DEFINE mine == [at |-> "edit", student |-> s, was |-> member[s].grade,
                    grade |-> grade, active |-> active]
<1>1. /\ req' = [req EXCEPT ![r] = mine]
      /\ UNCHANGED <<course, member, enrolled, excused, entitled, stray>>
  BY DEF EditRead
<1>2. Outside(req[r]) /\ started' \in 0..MaxRequests
  BY Fresh DEF EditRead
<1>3. mine \in Shape /\ Outside(mine)
  BY DEF Shape, StudentRequest, Outside, AtCourse, AtStudent, Inv, Typed, TypeOK, MemberRow
<1> HIDE DEF mine
<1> QED BY <1>1, <1>2, <1>3, OutsideReads, ReadAction DEF Inv, Typed, TypeOK

LEMMA EditWriteStep ==
  ASSUME Inv, NEW r \in Requests, EditWrite(r)
  PROVE  Inv'
<1> DEFINE p == req[r]
           s == p.student
           row == [member[s] EXCEPT !.grade = IF p.grade = Keep THEN @ ELSE p.grade,
                                    !.active = IF p.active = Keep THEN @ ELSE p.active]
           enrols == p.grade \notin {Keep, p.was}
           mine == IF enrols THEN EnrolStudent(s, p.grade, "no") ELSE Idle
<1>1. /\ s \in Students /\ p.grade \in StudentGrade \cup {Keep}
      /\ p.active \in BOOLEAN \cup {Keep}
  BY ShapeAt DEF EditWrite, StudentRequest, Inv, Typed
<1>2. /\ UNCHANGED <<course, enrolled, started, stray>>
      /\ IF enrols THEN excused' = excused \ ({s} \X Courses) ELSE Silent(course, member')
  BY DEF EditWrite
<1>3. Outside(p) /\ started' \in 0..MaxRequests
  BY <1>2 DEF EditWrite, Outside, AtCourse, AtStudent, Inv, Typed, TypeOK
<1>4. excused' \subseteq Pairs
      /\ \A x \in Students \ {s}, c \in Courses : <<x, c>> \in excused => <<x, c>> \in excused'
  <2>1. CASE enrols
    <3>1. excused' = excused \ ({s} \X Courses) /\ excused \subseteq Pairs
      BY <1>2, <2>1 DEF Inv, Typed, TypeOK
    <3> QED BY <3>1
  <2>2. CASE ~enrols
    BY <1>2, <2>2, SilentExcuses
  <2> QED BY <2>1, <2>2
<1>5. CASE member[s].state = "member"
  <2>1. WriteMember(r, s, row, mine)
    BY <1>5 DEF EditWrite
  <2>2. row \in MemberRow /\ row.state = "member"
        /\ (p.grade # Keep => row.grade = p.grade)
    <3> DEFINE grade == IF p.grade = Keep THEN member[s].grade ELSE p.grade
               active == IF p.active = Keep THEN member[s].active ELSE p.active
    <3>1. member[s] \in MemberRow
      BY <1>1 DEF Inv, Typed, TypeOK
    <3>2. grade \in StudentGrade /\ active \in BOOLEAN
      BY <1>1, <3>1 DEF MemberRow
    <3>3. row = [member[s] EXCEPT !.grade = grade, !.active = active]
      BY <3>1 DEF MemberRow
    <3> HIDE DEF grade, active
    <3>4. row \in MemberRow /\ row.state = "member" /\ row.grade = grade
      BY <1>5, <3>1, <3>2, <3>3 DEF MemberRow
    <3> QED BY <3>4 DEF grade
  <2>3. member'[s] = row /\ course' = course
    BY <1>1, <1>2, <2>1 DEF WriteMember, Inv, Typed, TypeOK
  <2>4. CASE enrols
    <3>1. p.grade \in StudentGrade /\ row.grade = p.grade
      BY <1>1, <2>2, <2>4
    <3>2. "no" \in {"no", "active", "inactive"} /\ mine = EnrolStudent(s, p.grade, "no")
      BY <2>4
    <3>5. member'[s].state = "member" /\ member'[s].grade = p.grade
      BY <2>2, <2>3, <3>1
    <3> HIDE DEF row, mine
    <3>3. /\ mine \in Shape /\ Read(mine, course', member', entitled', enrolled')
          /\ mine.at = "findCourses" /\ ~IsImport(mine)
          /\ \A c : Admits(course'[c].access, p.grade) => Covering(mine, s, c, course')
      BY <1>1, <3>1, <3>2, <3>5, EnrolsAgain
    <3>4. \A c \in Courses : IsDue(s, c, course, member') => Covering(mine, s, c, course)
      BY <2>3, <3>1, <3>3 DEF IsDue, IsEligible
    <3> QED BY <1>1, <1>2, <1>3, <1>4, <1>5, <2>1, <2>2, <3>3, <3>4, MemberAction
  <2>5. CASE ~enrols
    <3>1. mine = Idle /\ Outside(mine)
      BY <2>5, IdleShape DEF Outside, AtCourse, AtStudent
    <3>2. Silent(course, member')
      BY <1>2, <2>5
    <3>3. excused \subseteq excused' /\ \A c \in Courses :
            IsDue(s, c, course, member') /\ ~IsDue(s, c, course, member) => <<s, c>> \in excused'
      BY <1>1, <3>2, SilentExcuses
    <3> HIDE DEF row, mine
    <3> QED BY <1>1, <1>2, <1>3, <1>4, <1>5, <2>1, <2>2, <3>1, <3>3, IdleShape,
               OutsideReads, MemberAction
  <2> QED BY <2>4, <2>5
<1>6. CASE member[s].state # "member"
  <2>1. req' = [req EXCEPT ![r] = Idle] /\ UNCHANGED <<member, entitled>>
    BY <1>6 DEF EditWrite
  <2>2. Outside(Idle)
    BY IdleShape DEF Outside, AtCourse, AtStudent
  <2>3. \A c \in Courses : ~IsDue(s, c, course, member)
    BY <1>6 DEF IsDue, IsEligible
  <2> HIDE DEF row, mine
  <2> QED BY <1>1, <1>2, <1>3, <1>4, <2>1, <2>2, <2>3, IdleShape, OutsideReads, ReadAction
<1> QED BY <1>5, <1>6

LEMMA AdminAccountStep ==
  ASSUME Inv, NEW r \in Requests, NEW s \in Students, NEW account \in BOOLEAN,
         NEW grade \in StudentGrade, AdminAccount(r, s, account, grade)
  PROVE  Inv'
<1> DEFINE row == [member[s] EXCEPT !.account = account]
           mine == [at |-> "upsert", student |-> s, grade |-> grade]
<1>1. /\ WriteMember(r, s, row, mine) /\ member[s].state = "member"
      /\ Silent(course, member') /\ UNCHANGED <<course, enrolled, stray>>
  BY DEF AdminAccount
<1>2. Outside(req[r]) /\ started' \in 0..MaxRequests
  BY Fresh DEF AdminAccount
<1>3. row \in MemberRow
  BY DEF MemberRow, Inv, Typed, TypeOK
<1>4. mine \in Shape /\ Outside(mine)
  BY DEF Shape, StudentRequest, Outside, AtCourse, AtStudent
<1> HIDE DEF row, mine
<1> QED BY <1>1, <1>2, <1>3, <1>4, OutsideReads, SilentExcuses, MemberAction

LEMMA AdminUpsertStep ==
  ASSUME Inv, NEW r \in Requests, AdminUpsert(r)
  PROVE  Inv'
<1> DEFINE p == req[r]
           s == p.student
           row == [member[s] EXCEPT !.grade = p.grade, !.active = TRUE]
<1>1. s \in Students /\ p.grade \in StudentGrade
  BY ShapeAt DEF AdminUpsert, StudentRequest, Inv, Typed
<1>2. UNCHANGED <<course, enrolled, started, stray>> /\ Silent(course, member')
  BY DEF AdminUpsert
<1>3. Outside(p) /\ started' \in 0..MaxRequests
  BY <1>2 DEF AdminUpsert, Outside, AtCourse, AtStudent, Inv, Typed, TypeOK
<1>4. Outside(Idle)
  BY IdleShape DEF Outside, AtCourse, AtStudent
<1>5. row \in MemberRow
  BY <1>1 DEF MemberRow, Inv, Typed, TypeOK
<1>6. CASE member[s].state = "member"
  <2>1. WriteMember(r, s, row, Idle)
    BY <1>6 DEF AdminUpsert
  <2> HIDE DEF row
  <2> QED BY <1>1, <1>2, <1>3, <1>4, <1>5, <1>6, <2>1, IdleShape, OutsideReads,
             SilentExcuses, MemberAction
<1>7. CASE member[s].state # "member"
  <2>1. req' = [req EXCEPT ![r] = Idle] /\ UNCHANGED <<member, entitled>>
    BY <1>7 DEF AdminUpsert
  <2>2. excused' \subseteq Pairs /\ excused \subseteq excused'
    BY <1>2, SilentExcuses
  <2> QED BY <1>2, <1>3, <1>4, <2>1, <2>2, IdleShape, OutsideReads, ReadAction
<1> QED BY <1>6, <1>7

LEMMA DisableMemberStep ==
  ASSUME Inv, NEW r \in Requests, NEW s \in Students, DisableMember(r, s)
  PROVE  Inv'
<1> DEFINE row == [member[s] EXCEPT !.active = FALSE]
           mine == [at |-> "disable", student |-> s]
<1>1. /\ WriteMember(r, s, row, mine) /\ member[s].state = "member"
      /\ UNCHANGED <<course, enrolled, excused, stray>>
  BY DEF DisableMember
<1>2. Outside(req[r]) /\ started' \in 0..MaxRequests
  BY Fresh DEF DisableMember
<1>3. row \in MemberRow /\ ~row.active /\ member'[s] = row
  BY <1>1 DEF MemberRow, WriteMember, Inv, Typed, TypeOK
<1>4. mine \in Shape /\ Outside(mine)
  BY DEF Shape, StudentRequest, Outside, AtCourse, AtStudent
<1>5. \A c \in Courses : ~IsDue(s, c, course, member')
  BY <1>3 DEF IsDue
<1> HIDE DEF row, mine
<1> QED BY <1>1, <1>2, <1>3, <1>4, <1>5, OutsideReads, MemberAction DEF Inv, Typed, TypeOK

LEMMA DisableAccountStep ==
  ASSUME Inv, NEW r \in Requests, DisableAccount(r)
  PROVE  Inv'
<1> DEFINE s == req[r].student
           row == [member[s] EXCEPT !.account = FALSE]
<1>1. /\ WriteMember(r, s, row, Idle) /\ req[r].at = "disable"
      /\ UNCHANGED <<course, enrolled, started, excused, stray>>
  BY DEF DisableAccount
<1>2. s \in Students /\ Outside(req[r]) /\ Outside(Idle)
  BY <1>1, ShapeAt, IdleShape
     DEF StudentRequest, Inv, Typed, Outside, AtCourse, AtStudent
<1>5. member \in [Students -> MemberRow] /\ member' = [member EXCEPT ![s] = row]
  BY <1>1 DEF WriteMember, Inv, Typed, TypeOK
<1>6. member[s] \in MemberRow /\ member'[s] = row
  BY <1>2, <1>5
<1>3. row \in MemberRow /\ ~row.account /\ row.state = member[s].state /\ member'[s] = row
  BY <1>6 DEF MemberRow
<1>4. \A c \in Courses : ~IsDue(s, c, course, member')
  BY <1>3 DEF IsDue
<1> HIDE DEF row
<1> QED BY <1>1, <1>2, <1>3, <1>4, IdleShape, OutsideReads, MemberAction
        DEF Inv, Typed, TypeOK

LEMMA DeleteMemberStep ==
  ASSUME Inv, NEW r \in Requests, NEW s \in Students, DeleteMember(r, s)
  PROVE  Inv'
<1> DEFINE row == [state |-> "deleted", grade |-> Null, active |-> FALSE, account |-> FALSE]
<1>1. /\ WriteMember(r, s, row, Idle) /\ member[s].state = "member"
      /\ UNCHANGED <<course, enrolled, excused, stray>>
  BY DEF DeleteMember
<1>2. Outside(req[r]) /\ started' \in 0..MaxRequests /\ Outside(Idle)
  BY Fresh, IdleShape DEF DeleteMember, Outside, AtCourse, AtStudent
<1>3. row \in MemberRow /\ ~row.active /\ member'[s] = row
  BY <1>1 DEF MemberRow, StudentGrade, WriteMember, Inv, Typed, TypeOK
<1>4. \A c \in Courses : ~IsDue(s, c, course, member')
  BY <1>3 DEF IsDue
<1> HIDE DEF row
<1> QED BY <1>1, <1>2, <1>3, <1>4, IdleShape, OutsideReads, MemberAction
        DEF Inv, Typed, TypeOK

LEMMA EnrolAgainStep ==
  ASSUME Inv, NEW r \in Requests, NEW s \in Students, EnrolAgain(r, s)
  PROVE  Inv'
<1> DEFINE mine == EnrolStudent(s, member[s].grade, "no")
<1>1. /\ req' = [req EXCEPT ![r] = mine] /\ member[s].state = "member"
      /\ excused' = excused \ ({s} \X Courses)
      /\ UNCHANGED <<course, member, enrolled, entitled, stray>>
  BY DEF EnrolAgain
<1>2. Outside(req[r]) /\ started' \in 0..MaxRequests
  BY Fresh DEF EnrolAgain
<1>3. member[s].grade \in StudentGrade /\ "no" \in {"no", "active", "inactive"}
  BY DEF Inv, Typed, TypeOK, MemberRow
<1>4. /\ mine \in Shape /\ Read(mine, course, member, entitled, enrolled)
      /\ mine.at = "findCourses" /\ ~IsImport(mine)
      /\ \A c : Admits(course[c].access, member[s].grade) => Covering(mine, s, c, course)
  BY <1>1, <1>3, EnrolStudentStarts
<1>5. \A c \in Courses : IsDue(s, c, course, member) => Covering(mine, s, c, course)
  BY <1>4 DEF IsDue, IsEligible
<1>6. excused' \subseteq Pairs
      /\ \A x \in Students \ {s}, c \in Courses : <<x, c>> \in excused => <<x, c>> \in excused'
  BY <1>1 DEF Inv, Typed, TypeOK
<1>7. \A x \in Students, c \in Courses : IsDue(x, c, course, member) =>
        Covering(mine, x, c, course) \/ (<<x, c>> \in excused => <<x, c>> \in excused')
  BY <1>5, <1>6
<1> HIDE DEF mine
<1>8. mine.at # "commit" /\ UNCHANGED <<course, member, enrolled, stray, entitled>>
  BY <1>1, <1>4
<1> QED BY <1>1, <1>2, <1>4, <1>6, <1>7, <1>8, ReadAction

LEMMA SyncStep ==
  ASSUME Inv, NEW r \in Requests, Sync(r)
  PROVE  Inv'
<1>1. /\ enrolled' = enrolled \cup DueIn(course, member) /\ req[r] = Idle
      /\ UNCHANGED <<course, member, req, excused, entitled, stray>>
  BY DEF Sync, Starts, Due
<1>2. Outside(Idle) /\ started' \in 0..MaxRequests
  BY <1>1, Fresh DEF Sync
<1>3. req' = [req EXCEPT ![r] = Idle]
  BY <1>1 DEF Inv, Typed
<1>4. req'[r] = Idle /\ req' \in [Requests -> Shape] /\ EligibleEntitled' /\ Others(r)
  BY <1>1, <1>3, IdleShape, RequestMoved
<1>5. Typed'
  BY <1>1, <1>2, <1>4, PairSets, ShapeIsRequest DEF Inv, Typed, TypeOK
<1>6. Read(Idle, course', member', entitled', enrolled') /\ ~IsImport(Idle)
  BY IdleReads
<1>7. ImportStep(r)
  BY <1>1, <1>4, <1>6 DEF ImportStep
<1>8. RowStep(r)
  BY <1>1, <1>2, EligiblePairs, OutsideCovers DEF RowStep, IsDue, Inv, EligibleEntitled
<1>9. DueStep(r)
  BY <1>1, EligiblePairs DEF DueStep
<1> QED BY <1>4, <1>5, <1>6, <1>7, <1>8, <1>9, StepKeeps

-----------------------------------------------------------------------------
\* A step of the enrolments themselves, but for the end of an import.
LEMMA EnrolAction ==
  ASSUME Inv, NEW r \in Requests, NEW mine \in Shape, req' = [req EXCEPT ![r] = mine],
         UNCHANGED <<course, member, started, excused, entitled>>,
         enrolled \subseteq enrolled', enrolled' \subseteq Pairs,
         stray \subseteq stray', stray' \subseteq Pairs,
         Read(mine, course, member, entitled, enrolled'),
         IsImport(mine) => IsImport(req[r]) /\ mine.student = req[r].student,
         \A s \in Students, c \in Courses :
            <<s, c>> \in enrolled' /\ (<<s, c>> \notin enrolled \/ Commits(req[r], s, c)) =>
               <<s, c>> \in entitled \cup stray' \/ Commits(mine, s, c),
         \A s \in Students, c \in Courses :
            IsDue(s, c, course, member) /\ Covering(req[r], s, c, course) =>
               Covering(mine, s, c, course) \/ <<s, c>> \in enrolled'
  PROVE  Inv'
<1>1. /\ req'[r] = mine /\ req' \in [Requests -> Shape]
      /\ EligibleEntitled' /\ Others(r)
  BY RequestMoved
<1>2. Typed'
  BY <1>1, ShapeIsRequest DEF Inv, Typed, TypeOK
<1>3. Read(mine, course', member', entitled', enrolled')
  OBVIOUS
<1>4. ImportStep(r)
  BY <1>1 DEF ImportStep
<1>5. RowStep(r)
  BY <1>1 DEF RowStep
<1>6. DueStep(r)
  BY <1>1 DEF DueStep
<1> QED BY <1>1, <1>2, <1>3, <1>4, <1>5, <1>6, StepKeeps

LEMMA AtCourseKnows ==
  ASSUME Inv, NEW r \in Requests, req[r].at \in AtCourse
  PROVE  /\ req[r] \in CourseEnrolment /\ req[r].course \in Courses
         /\ req[r].at \notin AtStudent /\ ~IsImport(req[r])
         /\ course[req[r].course] \in CourseRow
         /\ CourseRead(req[r], course, entitled)
         /\ \A s, c : ~Commits(req[r], s, c)
<1>1. req[r] \in CourseEnrolment /\ course \in [Courses -> CourseRow]
  BY ShapeAt DEF Inv, Typed, TypeOK
<1>2. req[r].course \in Courses
  BY <1>1 DEF CourseEnrolment
<1> QED BY <1>1, <1>2 DEF Inv, Reads, Read, IsImport, Commits, AtCourse, AtStudent

LEMMA AtStudentKnows ==
  ASSUME Inv, NEW r \in Requests, req[r].at \in AtStudent
  PROVE  /\ req[r] \in Importing /\ req[r] \in StudentEnrolment
         /\ req[r].student \in Students /\ req[r].found \subseteq Courses
         /\ req[r].late \subseteq Courses /\ req[r].grade \in StudentGrade
         /\ req[r].at \notin AtCourse
         /\ StudentRead(req[r], course, member, entitled)
         /\ ImportRead(req[r], course, enrolled)
         /\ IsImport(req[r]) <=> req[r].new # "no"
<1>1. req[r] \in Importing
  BY ShapeAt DEF Inv, Typed
<1>2. req[r] \in StudentEnrolment
  BY <1>1 DEF Importing
<1>3. /\ req[r].student \in Students /\ req[r].found \subseteq Courses
      /\ req[r].late \subseteq Courses /\ req[r].grade \in StudentGrade
  BY <1>2 DEF StudentEnrolment
<1> QED BY <1>1, <1>2, <1>3 DEF Inv, Reads, Read, IsImport, AtCourse, AtStudent

LEMMA CourseGoesOn ==
  ASSUME NEW mine \in CourseEnrolment, NEW cs, NEW ms, NEW rights, NEW rows,
         CourseRead(mine, cs, rights)
  PROVE  mine \in Shape /\ ~IsImport(mine) /\ Read(mine, cs, ms, rights, rows)
<1>1. mine.at \in AtCourse /\ mine.at \notin AtStudent
  BY DEF CourseEnrolment, AtCourse, AtStudent
<1> QED BY <1>1 DEF Shape, IsImport, Read, StudentRead, ImportRead

LEMMA FindAccessStep ==
  ASSUME Inv, NEW r \in Requests, FindAccess(r)
  PROVE  Inv'
<1> DEFINE p == req[r]
           mine == IF course[p.course].access = None THEN Idle ELSE [p EXCEPT !.at = "findGrades"]
<1>1. /\ p.at = "findAccess" /\ req' = [req EXCEPT ![r] = mine]
      /\ UNCHANGED <<course, member, enrolled, started, excused, entitled, stray>>
  BY DEF FindAccess
<1>2. /\ p \in CourseEnrolment /\ p.course \in Courses /\ CourseRead(p, course, entitled)
      /\ \A s, c : ~Commits(p, s, c)
  BY <1>1, AtCourseKnows DEF AtCourse
<1>3. CASE course[p.course].access = None
  <2>1. mine = Idle
    BY <1>3
  <2>2. \A s \in Students : ~IsDue(s, p.course, course, member)
    BY <1>3 DEF IsDue, IsEligible, Admits
  <2>3. \A s \in Students, c \in Courses :
          IsDue(s, c, course, member) => ~Covering(p, s, c, course)
    BY <1>1, <2>2 DEF Covering, AtCourse, AtStudent
  <2> HIDE DEF mine
  <2> QED BY <1>1, <1>2, <2>1, <2>3, IdleShape, IdleReads, EnrolAction DEF Inv, Typed, TypeOK
<1>4. CASE course[p.course].access # None
  <2>1. mine = [p EXCEPT !.at = "findGrades"]
    BY <1>4
  <2>2. mine \in CourseEnrolment /\ mine.at = "findGrades" /\ mine.course = p.course
        /\ mine.gone = p.gone /\ mine.late = p.late
    BY <1>2, <2>1 DEF CourseEnrolment
  <2> HIDE DEF mine
  <2>3. CourseRead(mine, course, entitled)
    BY <1>1, <1>2, <1>4, <2>2 DEF CourseRead, AtCourse
  <2>4. \A s \in Students, c \in Courses :
          Covering(p, s, c, course) => Covering(mine, s, c, course)
    BY <1>1, <2>2 DEF Covering, AtCourse, AtStudent
  <2>5. mine \in Shape /\ ~IsImport(mine) /\ Read(mine, course, member, entitled, enrolled')
    BY <2>2, <2>3, CourseGoesOn
  <2> QED BY <1>1, <1>2, <2>4, <2>5, EnrolAction DEF Inv, Typed, TypeOK
<1> QED BY <1>3, <1>4

LEMMA FindGradesStep ==
  ASSUME Inv, NEW r \in Requests, FindGrades(r)
  PROVE  Inv'
<1> DEFINE p == req[r]
           admits == IF p.gone THEN {} ELSE course[p.course].access
           mine == [p EXCEPT !.at = "findStudents", !.gone = FALSE, !.admits = admits]
<1>1. /\ p.at = "findGrades"
      /\ UNCHANGED <<course, member, enrolled, started, excused, entitled, stray>>
  BY DEF FindGrades
<1>2. /\ p \in CourseEnrolment /\ p.course \in Courses /\ CourseRead(p, course, entitled)
      /\ course[p.course] \in CourseRow /\ \A s, c : ~Commits(p, s, c)
  BY <1>1, AtCourseKnows DEF AtCourse
<1>3. p.gone => p.late
  BY <1>1, <1>2 DEF CourseRead, AtCourse
<1>4. admits \in SUBSET Grades /\ admits \in {{}, course[p.course].access}
      /\ (~p.late => admits = course[p.course].access)
  BY <1>1, <1>2, <1>3 DEF CourseRead, CourseRow, Access, AtCourse
<1>5. req' = [req EXCEPT ![r] = mine]
  BY DEF FindGrades, Inv, Typed
<1> HIDE DEF admits
<1>6. /\ mine \in CourseEnrolment /\ mine.at = "findStudents" /\ mine.course = p.course
      /\ mine.gone = FALSE /\ mine.late = p.late /\ mine.admits = admits
  BY <1>2, <1>4 DEF CourseEnrolment
<1> HIDE DEF mine
<1>7. CourseRead(mine, course, entitled)
  BY <1>1, <1>2, <1>4, <1>6 DEF CourseRead, AtCourse
<1>8. \A s \in Students, c \in Courses :
        Covering(p, s, c, course) => Covering(mine, s, c, course)
  BY <1>1, <1>4, <1>6 DEF Covering, AtCourse, AtStudent
<1>9. mine \in Shape /\ ~IsImport(mine) /\ Read(mine, course, member, entitled, enrolled')
  BY <1>6, <1>7, CourseGoesOn
<1> QED BY <1>1, <1>2, <1>5, <1>8, <1>9, EnrolAction DEF Inv, Typed, TypeOK

LEMMA FindStudentsStep ==
  ASSUME Inv, NEW r \in Requests, FindStudents(r)
  PROVE  Inv'
<1> DEFINE p == req[r]
           found == {s \in Students : /\ member[s].state = "member"
                                      /\ member[s].active /\ member[s].account
                                      /\ Admits(p.admits, member[s].grade)}
           mine == IF found = {} THEN Idle ELSE [p EXCEPT !.at = "enrolAll", !.who = found]
<1>1. /\ p.at = "findStudents" /\ req' = [req EXCEPT ![r] = mine]
      /\ UNCHANGED <<course, member, enrolled, started, excused, entitled, stray>>
  BY DEF FindStudents
<1>2. /\ p \in CourseEnrolment /\ p.course \in Courses /\ CourseRead(p, course, entitled)
      /\ \A s, c : ~Commits(p, s, c)
  BY <1>1, AtCourseKnows DEF AtCourse
<1>3. \A s \in Students, c \in Courses :
        IsDue(s, c, course, member) /\ Covering(p, s, c, course) => s \in found /\ c = p.course
  BY <1>1, NoneIsNoRule DEF Covering, IsDue, IsEligible, Admits, AtCourse, AtStudent
<1>4. \A s \in found : ~p.late => <<s, p.course>> \in entitled
  BY <1>1, <1>2 DEF CourseRead, AtCourse, Inv, EligibleEntitled, IsEligible
<1>5. CASE found = {}
  <2>1. mine = Idle
    BY <1>5
  <2>2. \A s \in Students, c \in Courses :
          IsDue(s, c, course, member) => ~Covering(p, s, c, course)
    BY <1>3, <1>5
  <2> HIDE DEF mine, found
  <2> QED BY <1>1, <1>2, <2>1, <2>2, IdleShape, IdleReads, EnrolAction DEF Inv, Typed, TypeOK
<1>6. CASE found # {}
  <2>1. mine = [p EXCEPT !.at = "enrolAll", !.who = found] /\ found \in SUBSET Students
    BY <1>6
  <2> HIDE DEF mine, found
  <2>2. /\ mine \in CourseEnrolment /\ mine.at = "enrolAll" /\ mine.course = p.course
        /\ mine.gone = p.gone /\ mine.late = p.late /\ mine.who = found
    BY <1>2, <2>1 DEF CourseEnrolment
  <2>3. CourseRead(mine, course, entitled)
    BY <1>1, <1>2, <1>4, <2>2 DEF CourseRead, AtCourse
  <2>4. \A s \in Students, c \in Courses :
          IsDue(s, c, course, member) /\ Covering(p, s, c, course)
            => Covering(mine, s, c, course)
    BY <1>3, <2>2 DEF Covering, AtCourse, AtStudent
  <2>5. mine \in Shape /\ ~IsImport(mine) /\ Read(mine, course, member, entitled, enrolled')
    BY <2>2, <2>3, CourseGoesOn
  <2> QED BY <1>1, <1>2, <2>4, <2>5, EnrolAction DEF Inv, Typed, TypeOK
<1> QED BY <1>5, <1>6

LEMMA EnrolAllStep ==
  ASSUME Inv, NEW r \in Requests, EnrolAll(r)
  PROVE  Inv'
<1> DEFINE p == req[r]
           rows == p.who \X {p.course}
<1>1. /\ p.at = "enrolAll" /\ req' = [req EXCEPT ![r] = Idle]
      /\ UNCHANGED <<course, member, started, excused, entitled>>
      /\ enrolled' = enrolled \cup rows
      /\ stray' = IF p.late THEN stray \cup rows ELSE stray
  BY DEF EnrolAll
<1>2. /\ p \in CourseEnrolment /\ p.course \in Courses /\ CourseRead(p, course, entitled)
      /\ \A s, c : ~Commits(p, s, c)
  BY <1>1, AtCourseKnows DEF AtCourse
<1>3. rows \subseteq Pairs
  BY <1>2 DEF CourseEnrolment, Pairs
<1>4. enrolled \subseteq Pairs /\ stray \subseteq Pairs
  BY DEF Inv, Typed, TypeOK
<1>5. ~p.late => \A s \in p.who : <<s, p.course>> \in entitled
  BY <1>1, <1>2 DEF CourseRead, AtCourse
<1>6. \A s \in Students, c \in Courses :
        <<s, c>> \in enrolled' /\ <<s, c>> \notin enrolled => <<s, c>> \in entitled \cup stray'
  BY <1>1, <1>5
<1>7. \A s \in Students, c \in Courses : Covering(p, s, c, course) => <<s, c>> \in enrolled'
  BY <1>1 DEF Covering, AtCourse, AtStudent
<1> HIDE DEF rows
<1>8. /\ enrolled \subseteq enrolled' /\ enrolled' \subseteq Pairs
      /\ stray \subseteq stray' /\ stray' \subseteq Pairs
  BY <1>1, <1>3, <1>4
<1> QED BY <1>1, <1>2, <1>6, <1>7, <1>8, IdleShape, IdleReads, EnrolAction

\* What a request for one student is after its reads: still of that student.
LEMMA StudentGoesOn ==
  ASSUME NEW p \in StudentEnrolment, NEW mine \in StudentEnrolment,
         mine.at = "commit" => mine.new # "no", p.at \in AtStudent,
         mine.new = p.new, mine.student = p.student, NEW cs, NEW ms, NEW rights, NEW rows,
         StudentRead(mine, cs, ms, rights), ImportRead(mine, cs, rows)
  PROVE  /\ mine \in Shape /\ Read(mine, cs, ms, rights, rows)
         /\ IsImport(mine) => IsImport(p) /\ mine.student = p.student
<1>1. mine.at \notin AtCourse
  BY DEF StudentEnrolment, AtCourse
<1> QED BY <1>1 DEF Shape, Importing, IsImport, Read, CourseRead

\* The end of an enrolment that found nothing more to do.
LEMMA NothingFound ==
  ASSUME Inv, NEW r \in Requests, req[r].at \in AtStudent, NEW gone \in SUBSET Courses,
         gone \subseteq req[r].late,
         \A c \in Courses \ req[r].late :
            ~(course[c].state = "published" /\ Admits(course[c].access, req[r].grade)),
         NEW mine, mine = Enrolled([req[r] EXCEPT !.found = {}, !.gone = gone])
  PROVE  /\ mine \in Shape /\ Read(mine, course, member, entitled, enrolled)
         /\ IsImport(mine) => IsImport(req[r]) /\ mine.student = req[r].student
<1> DEFINE p == req[r]
<1>1. p \in StudentEnrolment
  BY AtStudentKnows
<1>2. CASE p.new = "no"
  <2>1. mine = Idle
    BY <1>1, <1>2 DEF Enrolled, StudentEnrolment
  <2> QED BY <2>1, IdleShape, IdleReads
<1>3. CASE p.new # "no"
  <2>1. mine = [[p EXCEPT !.found = {}, !.gone = gone] EXCEPT !.at = "commit"]
    BY <1>1, <1>3 DEF Enrolled, StudentEnrolment
  <2>2. /\ mine \in StudentEnrolment /\ mine.at = "commit" /\ mine.new = p.new
        /\ mine.student = p.student /\ mine.found = {} /\ mine.late = p.late
        /\ mine.gone = gone /\ mine.grade = p.grade
    BY <1>1, <2>1 DEF StudentEnrolment
  <2>3. StudentRead(mine, course, member, entitled)
    BY <2>2 DEF StudentRead
  <2>4. ImportRead(mine, course, enrolled)
    BY <2>2 DEF ImportRead
  <2> QED BY <1>1, <1>3, <2>2, <2>3, <2>4, StudentGoesOn
<1> QED BY <1>2, <1>3

LEMMA FindCoursesStep ==
  ASSUME Inv, NEW r \in Requests, FindCourses(r)
  PROVE  Inv'
<1> DEFINE p == req[r]
           found == {c \in Courses : course[c].state = "published" /\ course[c].access # None}
           request == [p EXCEPT !.found = found]
           mine == IF found = {} THEN Enrolled(request)
                   ELSE [request EXCEPT !.at = "findCourseGrades"]
<1>1. /\ p.at = "findCourses" /\ req' = [req EXCEPT ![r] = mine]
      /\ UNCHANGED <<course, member, enrolled, started, excused, entitled, stray>>
  BY DEF FindCourses
<1>2. p.at \in AtStudent /\ \A s, c : ~Commits(p, s, c)
  BY <1>1 DEF AtStudent, Commits
<1>3. /\ p \in StudentEnrolment /\ p.gone \subseteq p.late /\ p.gone \in SUBSET Courses
      /\ StudentRead(p, course, member, entitled) /\ ImportRead(p, course, enrolled)
  BY <1>2, AtStudentKnows DEF StudentRead, StudentEnrolment
<1>4. \A s \in Students, c \in Courses :
        IsDue(s, c, course, member) /\ Covering(p, s, c, course) =>
           c \in found /\ p.student = s /\ Admits(course[c].access, p.grade)
  BY <1>1 DEF Covering, IsDue, IsEligible, Admits, AtCourse, AtStudent
<1>5. CASE found = {}
  <2>1. mine = Enrolled([p EXCEPT !.found = {}, !.gone = p.gone])
    BY <1>3, <1>5 DEF StudentEnrolment
  <2>2. \A c \in Courses : ~(course[c].state = "published" /\ Admits(course[c].access, p.grade))
    BY <1>5 DEF Admits
  <2>3. \A s \in Students, c \in Courses :
          IsDue(s, c, course, member) => ~Covering(p, s, c, course)
    BY <1>4, <1>5
  <2> HIDE DEF mine, found
  <2>4. /\ mine \in Shape /\ Read(mine, course, member, entitled, enrolled)
        /\ IsImport(mine) => IsImport(p) /\ mine.student = p.student
    BY <1>2, <1>3, <2>1, <2>2, NothingFound
  <2> QED BY <1>1, <1>2, <2>3, <2>4, EnrolAction DEF Inv, Typed, TypeOK
<1>6. CASE found # {}
  <2>1. mine = [[p EXCEPT !.found = found] EXCEPT !.at = "findCourseGrades"]
        /\ found \in SUBSET Courses
    BY <1>6
  <2>2. \A c \in Courses : c \in found <=> course[c].state = "published" /\ course[c].access # None
    OBVIOUS
  <2> HIDE DEF mine, found
  <2>3. /\ mine \in StudentEnrolment /\ mine.at = "findCourseGrades" /\ mine.new = p.new
        /\ mine.student = p.student /\ mine.found = found /\ mine.late = p.late
        /\ mine.gone = p.gone /\ mine.grade = p.grade
    BY <1>3, <2>1 DEF StudentEnrolment
  <2>4. StudentRead(mine, course, member, entitled)
    BY <1>1, <1>2, <1>3, <2>2, <2>3 DEF StudentRead
  <2>5. ImportRead(mine, course, enrolled)
    BY <2>2, <2>3 DEF ImportRead
  <2>6. \A s \in Students, c \in Courses :
          IsDue(s, c, course, member) /\ Covering(p, s, c, course)
            => Covering(mine, s, c, course)
    BY <1>4, <2>3 DEF Covering, AtStudent
  <2>7. /\ mine \in Shape /\ Read(mine, course, member, entitled, enrolled)
        /\ IsImport(mine) => IsImport(p) /\ mine.student = p.student
    BY <1>2, <1>3, <2>3, <2>4, <2>5, StudentGoesOn
  <2> QED BY <1>1, <1>2, <2>6, <2>7, EnrolAction DEF Inv, Typed, TypeOK
<1> QED BY <1>5, <1>6

LEMMA FindCourseGradesStep ==
  ASSUME Inv, NEW r \in Requests, FindCourseGrades(r)
  PROVE  Inv'
<1> DEFINE p == req[r]
           found == {c \in p.found : c \in p.gone \/ Admits(course[c].access, p.grade)}
           request == [p EXCEPT !.found = found, !.gone = {}]
           mine == IF found = {} THEN Enrolled(request) ELSE [request EXCEPT !.at = "enrolMine"]
<1>1. /\ p.at = "findCourseGrades" /\ req' = [req EXCEPT ![r] = mine]
      /\ UNCHANGED <<course, member, enrolled, started, excused, entitled, stray>>
  BY DEF FindCourseGrades
<1>2. p.at \in AtStudent /\ \A s, c : ~Commits(p, s, c)
  BY <1>1 DEF AtStudent, Commits
<1>3. /\ p \in StudentEnrolment /\ p.student \in Students /\ p.found \subseteq Courses
      /\ StudentRead(p, course, member, entitled) /\ ImportRead(p, course, enrolled)
      /\ IsImport(p) <=> p.new # "no"
  BY <1>2, AtStudentKnows
<1>4. \A s \in Students, c \in Courses :
        Covering(p, s, c, course) => c \in found /\ p.student = s
  BY <1>1 DEF Covering, AtCourse, AtStudent
<1>7. \A c \in Courses \ p.late : c \in found =>
        /\ course[c].state = "published" /\ Admits(course[c].access, p.grade)
        /\ p.new = "no" => <<p.student, c>> \in entitled
  BY <1>1, <1>2, <1>3 DEF StudentRead, Inv, EligibleEntitled, IsEligible
<1>8. p.new # "no" => \A c \in Courses \ p.late :
        course[c].state = "published" /\ Admits(course[c].access, p.grade) => c \in found
  BY <1>1, <1>3 DEF ImportRead, Admits
<1>5. CASE found = {}
  <2>1. \A s \in Students, c \in Courses : ~Covering(p, s, c, course)
    BY <1>4, <1>5
  <2>2. mine = Enrolled([p EXCEPT !.found = {}, !.gone = {}])
    BY <1>5
  <2> HIDE DEF mine, found
  <2>4. /\ mine \in Shape /\ Read(mine, course, member, entitled, enrolled)
        /\ IsImport(mine) => IsImport(p) /\ mine.student = p.student
    <3>1. CASE p.new = "no"
      <4>1. mine = Idle
        BY <1>3, <2>2, <3>1 DEF Enrolled, StudentEnrolment
      <4> QED BY <4>1, IdleShape, IdleReads
    <3>2. CASE p.new # "no"
      <4>1. \A c \in Courses \ p.late :
              ~(course[c].state = "published" /\ Admits(course[c].access, p.grade))
        BY <1>5, <1>8, <3>2
      <4>2. {} \in SUBSET Courses /\ {} \subseteq p.late
        OBVIOUS
      <4> QED BY <1>2, <2>2, <4>1, <4>2, NothingFound
    <3> QED BY <3>1, <3>2
  <2> QED BY <1>1, <1>2, <2>1, <2>4, EnrolAction DEF Inv, Typed, TypeOK
<1>6. CASE found # {}
  <2>1. mine = [[p EXCEPT !.found = found, !.gone = {}] EXCEPT !.at = "enrolMine"]
        /\ found \in SUBSET Courses
    BY <1>3, <1>6
  <2> HIDE DEF mine, found
  <2>3. /\ mine \in StudentEnrolment /\ mine.at = "enrolMine" /\ mine.new = p.new
        /\ mine.student = p.student /\ mine.found = found /\ mine.late = p.late
        /\ mine.gone = {} /\ mine.grade = p.grade
    BY <1>3, <2>1 DEF StudentEnrolment
  <2>4. StudentRead(mine, course, member, entitled)
    BY <1>7, <2>3 DEF StudentRead
  <2>5. ImportRead(mine, course, enrolled)
    BY <1>8, <2>3 DEF ImportRead, IsImport
  <2>6. \A s \in Students, c \in Courses :
          Covering(p, s, c, course) => Covering(mine, s, c, course)
    BY <1>4, <2>3 DEF Covering, AtStudent
  <2>7. /\ mine \in Shape /\ Read(mine, course, member, entitled, enrolled)
        /\ IsImport(mine) => IsImport(p) /\ mine.student = p.student
    BY <1>2, <1>3, <2>3, <2>4, <2>5, StudentGoesOn
  <2> QED BY <1>1, <1>2, <2>6, <2>7, EnrolAction DEF Inv, Typed, TypeOK
<1> QED BY <1>5, <1>6

LEMMA EnrolMineStep ==
  ASSUME Inv, NEW r \in Requests, EnrolMine(r)
  PROVE  Inv'
<1> DEFINE p == req[r]
           rows == {p.student} \X p.found
           lost == Strays(p)
           mine == Enrolled(p)
<1>1. /\ p.at = "enrolMine" /\ req' = [req EXCEPT ![r] = mine]
      /\ enrolled' = enrolled \cup rows /\ stray' = stray \cup lost
      /\ UNCHANGED <<course, member, started, excused, entitled>>
  BY DEF EnrolMine
<1>2. p.at \in AtStudent /\ \A s, c : ~Commits(p, s, c)
  BY <1>1 DEF AtStudent, Commits
<1>3. /\ p \in StudentEnrolment /\ p.student \in Students /\ p.found \subseteq Courses
      /\ StudentRead(p, course, member, entitled) /\ ImportRead(p, course, enrolled)
      /\ IsImport(p) <=> p.new # "no"
  BY <1>2, AtStudentKnows
<1>4. rows \subseteq Pairs /\ lost \subseteq Pairs
  BY <1>3 DEF Pairs, Strays
<1>5. \A s \in Students, c \in Courses : Covering(p, s, c, course) => <<s, c>> \in enrolled'
  BY <1>1 DEF Covering, AtCourse, AtStudent
<1>6. \A s \in Students, c \in Courses :
        <<s, c>> \in enrolled' /\ <<s, c>> \notin enrolled =>
           /\ s = p.student /\ c \in p.found
           /\ p.new = "no" => <<s, c>> \in entitled \cup stray'
  BY <1>1, <1>2, <1>3 DEF StudentRead, Strays
<1>7. /\ enrolled \subseteq enrolled' /\ enrolled' \subseteq Pairs
      /\ stray \subseteq stray' /\ stray' \subseteq Pairs
  BY <1>1, <1>4 DEF Inv, Typed, TypeOK
<1>8. CASE p.new = "no"
  <2>1. mine = Idle
    BY <1>8 DEF Enrolled
  <2> HIDE DEF mine, rows, lost
  <2> QED BY <1>1, <1>2, <1>5, <1>6, <1>7, <1>8, <2>1, IdleShape, IdleReads, EnrolAction
<1>9. CASE p.new # "no"
  <2>1. mine = [p EXCEPT !.at = "commit"]
    BY <1>9 DEF Enrolled
  <2>2. /\ mine \in StudentEnrolment /\ mine.at = "commit" /\ mine.new = p.new
        /\ mine.student = p.student /\ mine.found = p.found /\ mine.late = p.late
        /\ mine.gone = p.gone /\ mine.grade = p.grade
    BY <1>3, <2>1 DEF StudentEnrolment
  <2> HIDE DEF mine
  <2>3. StudentRead(mine, course, member, entitled)
    BY <1>1, <1>2, <1>3, <1>9, <2>2 DEF StudentRead
  <2>4. \A c \in Courses : c \in p.found => <<p.student, c>> \in enrolled'
    BY <1>1
  <2>5. ImportRead(mine, course, enrolled')
    BY <1>1, <1>3, <1>9, <2>2, <2>4 DEF ImportRead
  <2>6. \A s \in Students, c \in Courses :
          <<s, c>> \in enrolled' /\ <<s, c>> \notin enrolled => Commits(mine, s, c)
    BY <1>6, <2>2 DEF Commits
  <2>7. /\ mine \in Shape /\ Read(mine, course, member, entitled, enrolled')
        /\ IsImport(mine) => IsImport(p) /\ mine.student = p.student
    BY <1>2, <1>3, <1>9, <2>2, <2>3, <2>5, StudentGoesOn
  <2> HIDE DEF rows, lost
  <2> QED BY <1>1, <1>2, <1>5, <1>7, <2>6, <2>7, EnrolAction
<1> QED BY <1>8, <1>9

LEMMA CommitStep ==
  ASSUME Inv, NEW r \in Requests, Commit(r)
  PROVE  Inv'
<1> DEFINE p == req[r]
           s == p.student
           active == p.new = "active"
           row == [state |-> "member", grade |-> p.grade, active |-> active, account |-> active]
<1>1. /\ p.at = "commit" /\ WriteMember(r, s, row, Idle)
      /\ UNCHANGED <<course, enrolled, started>>
      /\ excused' = excused \cup (DueIn(course, member') \cap ({s} \X p.late))
      /\ stray' = stray \cup Strays(p)
  BY DEF Commit
<1>2. p.at \in AtStudent
  BY <1>1 DEF AtStudent
<1>3. /\ p \in Importing /\ s \in Students /\ p.found \subseteq Courses
      /\ p.late \subseteq Courses /\ p.grade \in StudentGrade
      /\ StudentRead(p, course, member, entitled) /\ ImportRead(p, course, enrolled)
      /\ IsImport(p) <=> p.new # "no"
  BY <1>2, AtStudentKnows
<1>4. p.new # "no" /\ IsImport(p)
  BY <1>1, <1>3 DEF Importing
<1>5. row \in MemberRow /\ row.state = "member" /\ row.grade = p.grade
  BY <1>3 DEF MemberRow
<1> HIDE DEF row
<1>6. /\ req'[r] = Idle /\ req' \in [Requests -> Shape]
      /\ member' \in [Students -> MemberRow] /\ member'[s] = row
      /\ \A x \in Students \ {s} : member'[x] = member[x]
      /\ entitled' \subseteq Pairs /\ entitled \subseteq entitled'
      /\ EligibleEntitled' /\ Others(r)
  BY <1>1, <1>3, <1>5, IdleShape, MemberWritten
<1>7. Strays(p) \subseteq Pairs
  BY <1>3 DEF Strays, Pairs
<1>8. Typed'
  <2>1. excused' \subseteq Pairs /\ stray' \subseteq Pairs
    BY <1>1, <1>7, PairSets DEF Inv, Typed, TypeOK
  <2> QED BY <1>1, <1>6, <2>1, ShapeIsRequest DEF Inv, Typed, TypeOK
<1>9. Read(Idle, course', member', entitled', enrolled') /\ ~IsImport(Idle)
  BY IdleReads
<1>10. ImportStep(r)
  BY <1>4, <1>6, <1>9 DEF ImportStep
<1>11. \A c \in Courses \ p.late : c \in p.found =>
         course[c].state = "published" /\ Admits(course[c].access, p.grade)
  BY <1>1, <1>2, <1>3, <1>4 DEF StudentRead
<1>12. RowStep(r)
  <2>1. \A c \in Courses \ p.late : c \in p.found => <<s, c>> \in entitled'
    BY <1>1, <1>3, <1>5, <1>6, <1>11 DEF EligibleEntitled, IsEligible
  <2>2. \A c \in p.late : c \in p.found => <<s, c>> \in stray'
    BY <1>1 DEF Strays
  <2> QED BY <1>1, <1>3, <1>6, <2>1, <2>2 DEF RowStep, Commits
<1>13. DueStep(r)
  <2>1. \A x \in Students, c \in Courses : ~Covering(p, x, c, course)
    BY <1>1 DEF Covering, AtCourse, AtStudent
  <2>2. ASSUME NEW c \in Courses, IsDue(s, c, course', member')
        PROVE  <<s, c>> \in enrolled' \cup excused'
    <3>1. CASE c \in p.late
      <4>1. <<s, c>> \in DueIn(course, member')
        BY <1>1, <1>3, <2>2, EligiblePairs
      <4> QED BY <1>1, <3>1, <4>1
    <3>2. CASE c \notin p.late
      <4>1. course[c].state = "published" /\ Admits(course[c].access, p.grade)
        BY <1>1, <1>5, <1>6, <2>2 DEF IsDue, IsEligible
      <4> QED BY <1>1, <1>3, <1>4, <3>2, <4>1 DEF ImportRead
    <3> QED BY <3>1, <3>2
  <2>3. ASSUME NEW x \in Students \ {s}, NEW c \in Courses, IsDue(x, c, course', member')
        PROVE  IsDue(x, c, course, member)
    BY <1>1, <1>6, <2>3 DEF IsDue, IsEligible
  <2> QED BY <1>1, <2>1, <2>2, <2>3 DEF DueStep
<1> QED BY <1>6, <1>8, <1>9, <1>10, <1>12, <1>13, StepKeeps

\* What Covering says of a pair that is due, Covers says too.
LEMMA CoveringCovers ==
  ASSUME NEW r \in Requests, NEW s \in Students, NEW c \in Courses,
         IsDue(s, c, course, member), Covering(req[r], s, c, course)
  PROVE  Covers(r, <<s, c>>)
<1>1. Admits(course[c].access, member[s].grade) /\ Admits({}, member[s].grade)
  BY NoneIsNoRule DEF IsDue, IsEligible, Admits
<1>2. CASE req[r].at \in AtCourse
  <2>1. EnrolsAll(r) /\ req[r].course = c
    BY <1>2 DEF EnrolsAll, Covering, AtCourse, AtStudent
  <2>2. CASE req[r].at = "findStudents"
    <3>1. Admits(req[r].admits, member[s].grade)
      BY <1>1, <1>2, <2>2 DEF Covering, AtCourse, AtStudent
    <3> QED BY <2>1, <2>2, <3>1 DEF Covers
  <2>3. CASE req[r].at = "enrolAll"
    <3>1. s \in req[r].who
      BY <2>3 DEF Covering, AtCourse, AtStudent
    <3> QED BY <2>1, <2>3, <3>1 DEF Covers
  <2>4. CASE req[r].at \notin {"findStudents", "enrolAll"}
    BY <2>1, <2>4 DEF Covers
  <2> QED BY <2>2, <2>3, <2>4
<1>3. CASE req[r].at \notin AtCourse
  BY <1>3 DEF Covering, Covers, EnrolsOne, AtStudent
<1> QED BY <1>2, <1>3

LEMMA FailStep ==
  ASSUME Inv, NEW r \in Requests, Fail(r)
  PROVE  Inv'
<1> DEFINE p == req[r]
           s == p.student
           lost == {x \in DueIn(course, member) : Covers(r, x)}
           left == IF p.at = "commit" THEN {s} \X p.found ELSE {}
<1>1. /\ req' = [req EXCEPT ![r] = Idle] /\ excused' = excused \cup lost
      /\ stray' = stray \cup left
      /\ UNCHANGED <<course, enrolled, started, entitled>>
      /\ IF IsImport(p) THEN member' = [member EXCEPT ![s].state = "deleted"]
         ELSE member' = member
  BY DEF Fail, Due, EnrolsOne, IsImport, AtStudent
<1>2. /\ req \in [Requests -> Shape] /\ member \in [Students -> MemberRow]
      /\ course \in [Courses -> CourseRow]
  BY DEF Inv, Typed, TypeOK
<1>3. IsImport(p) => s \in Students /\ member[s].state = "importing"
  BY AtStudentKnows DEF IsImport, Inv, ImportsOwn
<1>4. /\ req'[r] = Idle /\ req' \in [Requests -> Shape]
      /\ \A q \in Requests \ {r} : req'[q] = req[q]
  BY <1>1, <1>2, IdleShape
<1>5. /\ member' \in [Students -> MemberRow]
      /\ \A x \in Students : \/ member'[x] = member[x]
                             \/ /\ IsImport(p) /\ x = s
                                /\ member'[x].state = "deleted" /\ member[x].state = "importing"
  <2>1. CASE IsImport(p)
    <3>1. member' = [member EXCEPT ![s] = [member[s] EXCEPT !.state = "deleted"]]
      BY <1>1, <1>2, <1>3, <2>1
    <3> DEFINE row == [member[s] EXCEPT !.state = "deleted"]
    <3>2. member[s] \in MemberRow
      BY <1>2, <1>3, <2>1
    <3>3. row \in MemberRow /\ row.state = "deleted"
      BY <3>2 DEF MemberRow
    <3> HIDE DEF row
    <3> QED BY <1>2, <1>3, <2>1, <3>1, <3>3 DEF row
  <2>2. CASE ~IsImport(p)
    BY <1>1, <1>2, <2>2
  <2> QED BY <2>1, <2>2
<1>6. \A x \in Students, c \in Courses :
        /\ IsEligible(x, c, course', member') => IsEligible(x, c, course, member)
        /\ IsDue(x, c, course', member') => IsDue(x, c, course, member)
  BY <1>1, <1>5 DEF IsEligible, IsDue
<1>7. EligibleEntitled'
  BY <1>1, <1>6 DEF EligibleEntitled, Inv
<1>8. Others(r)
  <2> SUFFICES ASSUME NEW q \in Requests \ {r}
               PROVE  Alike(req[q], req'[q])
                      /\ Read(req'[q], course', member', entitled', enrolled')
    BY DEF Others
  <2>1. Read(req[q], course, member, entitled, enrolled)
    BY DEF Inv, Reads
  <2>2. req[q].at \in AtStudent => req[q].student \in Students
    BY AtStudentKnows
  <2>3. StudentRead(req[q], course, member', entitled)
    BY <1>5, <2>1, <2>2 DEF Read, StudentRead
  <2> QED BY <1>1, <1>4, <2>1, <2>3 DEF Read, Alike
<1>9. lost \subseteq Pairs /\ left \subseteq Pairs
  <2>1. p.at = "commit" => s \in Students /\ p.found \subseteq Courses
    BY AtStudentKnows DEF AtStudent
  <2> QED BY <2>1, PairSets DEF Pairs
<1>10. Typed'
  BY <1>1, <1>4, <1>5, <1>9, ShapeIsRequest DEF Inv, Typed, TypeOK
<1>11. Read(Idle, course', member', entitled', enrolled') /\ ~IsImport(Idle)
  BY IdleReads
<1>12. ImportStep(r)
  BY <1>4, <1>5, <1>11 DEF ImportStep
<1>13. RowStep(r)
  BY <1>1 DEF RowStep, Commits
<1>14. DueStep(r)
  <2> SUFFICES ASSUME NEW x \in Students, NEW c \in Courses, IsDue(x, c, course', member')
               PROVE  \/ <<x, c>> \in excused'
                      \/ /\ IsDue(x, c, course, member)
                         /\ ~Covering(p, x, c, course)
    BY <1>1 DEF DueStep
  <2>1. IsDue(x, c, course, member)
    BY <1>6
  <2>2. ASSUME Covering(p, x, c, course)
        PROVE  <<x, c>> \in excused'
    <3>1. Covers(r, <<x, c>>)
      BY <2>1, <2>2, CoveringCovers
    <3>2. <<x, c>> \in DueIn(course, member)
      BY <2>1, EligiblePairs
    <3> QED BY <1>1, <3>1, <3>2
  <2> QED BY <2>1, <2>2
<1> QED BY <1>4, <1>7, <1>8, <1>10, <1>11, <1>12, <1>13, <1>14, StepKeeps

-----------------------------------------------------------------------------
LEMMA InvInit ==
  ASSUME Init
  PROVE  Inv
<1>1. Typed
  <2>1. /\ course \in [Courses -> CourseRow] /\ member \in [Students -> MemberRow]
    BY DEF Init, CourseRow, MemberRow, Access, StudentGrade
  <2>2. started \in 0..MaxRequests
    BY EnrollmentOK DEF Init
  <2>3. req \in [Requests -> Shape]
    BY IdleShape DEF Init
  <2> QED BY <2>1, <2>2, <2>3, ShapeIsRequest DEF Init, Typed, TypeOK
<1>2. \A r \in Requests : req[r] = Idle
  BY DEF Init
<1>3. Reads /\ ImportsOwn
  BY <1>2, IdleReads DEF Reads, ImportsOwn
<1>4. \A s \in Students, c \in Courses : ~IsEligible(s, c, course, member)
  BY DEF Init, IsEligible
<1>5. NoneMissed /\ EligibleEntitled
  BY <1>4 DEF NoneMissed, EligibleEntitled, IsDue
<1>6. Justified
  BY DEF Init, Justified
<1> QED BY <1>1, <1>3, <1>5, <1>6 DEF Inv

LEMMA CourseStepKeeps ==
  ASSUME Inv, NEW r \in Requests, CourseStep(r)
  PROVE  Inv'
BY CreateStep, PublishStep, UpdateReadStep, UpdateFlagStep, AccessStartStep, ClearStep,
   GrantStep, DeleteCourseStep DEF CourseStep

LEMMA StudentStepKeeps ==
  ASSUME Inv, NEW r \in Requests, StudentStep(r)
  PROVE  Inv'
BY RegisterStep, ImportStarts, EditReadStep, EditWriteStep, AdminAccountStep,
   AdminUpsertStep, DisableMemberStep, DisableAccountStep, DeleteMemberStep,
   EnrolAgainStep, SyncStep DEF StudentStep

LEMMA EnrolStepKeeps ==
  ASSUME Inv, NEW r \in Requests, EnrolStep(r)
  PROVE  Inv'
BY FindAccessStep, FindGradesStep, FindStudentsStep, EnrolAllStep, FindCoursesStep,
   FindCourseGradesStep, EnrolMineStep, CommitStep DEF EnrolStep

LEMMA InvStep ==
  ASSUME Inv, [Next]_vars
  PROVE  Inv'
<1>1. CASE Next
  BY <1>1, CourseStepKeeps, StudentStepKeeps, EnrolStepKeeps, FailStep DEF Next
<1>2. CASE UNCHANGED vars
  <2>1. UNCHANGED <<course, member, enrolled, req, started, excused, entitled, stray>>
    BY <1>2 DEF vars
  <2>2. Typed'
    BY <2>1 DEF Inv, Typed, TypeOK
  <2>3. Reads'
    BY <2>1 DEF Inv, Reads, Read, CourseRead, StudentRead, ImportRead, IsImport
  <2>4. ImportsOwn'
    BY <2>1 DEF Inv, ImportsOwn, IsImport
  <2>5. NoneMissed'
    BY <2>1 DEF Inv, NoneMissed, Covered, Covering, IsDue, IsEligible
  <2>6. EligibleEntitled'
    BY <2>1 DEF Inv, EligibleEntitled, IsEligible
  <2>7. Justified'
    BY <2>1 DEF Inv, Justified
  <2> QED BY <2>2, <2>3, <2>4, <2>5, <2>6, <2>7 DEF Inv
<1> QED BY <1>1, <1>2

\* The invariant: every handler and every failure keeps what the requests in
\* flight have read, cover and owe.
THEOREM InvHolds == Spec => []Inv
<1>1. Init => Inv
  BY InvInit
<1>2. Inv /\ [Next]_vars => Inv'
  BY InvStep
<1> QED BY <1>1, <1>2, PTL DEF Spec

\* The rows, the requests in flight and the history keep their types.
THEOREM TypeCorrect == Spec => []TypeOK
<1>1. Inv => TypeOK
  BY DEF Inv, Typed
<1> QED BY <1>1, InvHolds, PTL

\* However the handlers of students and of courses interleave, and wherever one
\* stops, a student who is due in a course is enrolled, about to be, or excused.
THEOREM NoneIsMissed == Spec => []NoMissedEnrollment
<1>1. ASSUME Inv PROVE NoMissedEnrollment
  <2> SUFFICES ASSUME NEW p \in Due \ enrolled, p \notin excused
               PROVE  \E r \in Requests : Covers(r, p)
    BY DEF NoMissedEnrollment
  <2>1. PICK s \in Students, c \in Courses : p = <<s, c>>
    BY DEF Due, DueIn, EligibleIn, Pairs
  <2>2. IsDue(s, c, course, member)
    BY <2>1, EligiblePairs DEF Due
  <2>3. PICK r \in Requests : Covering(req[r], s, c, course)
    BY <1>1, <2>1, <2>2 DEF Inv, NoneMissed, Covered
  <2> QED BY <2>1, <2>2, <2>3, CoveringCovers
<1> QED BY <1>1, InvHolds, PTL

\* However they interleave, nobody is enrolled in a course that was never open
\* to them, but by reads that were overtaken or an import that did not finish.
THEOREM EnrolledIsJustified == Spec => []EnrollmentsJustified
<1>1. ASSUME Inv PROVE EnrollmentsJustified
  <2> SUFFICES ASSUME NEW p \in enrolled, p \notin entitled \cup stray
               PROVE  \E r \in Requests : req[r].at = "commit" /\ req[r].student = p[1]
    BY DEF EnrollmentsJustified
  <2>1. PICK s \in Students, c \in Courses : p = <<s, c>>
    BY <1>1 DEF Inv, Typed, TypeOK, Pairs
  <2> QED BY <1>1, <2>1 DEF Inv, Justified
<1> QED BY <1>1, InvHolds, PTL
=============================================================================
