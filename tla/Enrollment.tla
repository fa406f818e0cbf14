----------------------------- MODULE Enrollment -----------------------------
(***************************************************************************)
(* Automatic enrolment: the students of a school are enrolled in the       *)
(* published courses their grade has access to                             *)
(* (src/common/enrollment/enrollment.service.ts), by the handlers that     *)
(* create or change students and by those that publish courses.            *)
(*                                                                         *)
(* The two sides meet without a lock: a student handler writes its student *)
(* and then reads the courses, a course handler writes its course and then *)
(* reads the students, each query a step of its own.  A CourseAccess row   *)
(* and its grades are read by two queries.  An enrolment is never removed. *)
(*                                                                         *)
(* One school is modelled.  excused, entitled, stray and the field late    *)
(* are history: no handler reads them.                                     *)
(***************************************************************************)
EXTENDS Naturals

CONSTANTS
    Students, Courses,
    Grades,         \* grade names that an access rule may list
    Null,           \* a membership without a grade
    None,           \* no CourseAccess row
    Keep,           \* a body that leaves the field alone
    Requests,       \* request slots: how many handlers may run at once
    MaxRequests,    \* bound: handlers explored
    Endpoints       \* bound: which endpoints are explored

ASSUME EnrollmentOK ==
    /\ MaxRequests \in Nat
    /\ Null \notin Grades
    /\ \A access \in SUBSET Grades : access # None /\ access # Keep
    /\ Keep \notin Grades \cup {Null, None}
    /\ Keep \notin BOOLEAN
    /\ Endpoints \subseteq {"create", "publish", "update", "access", "register",
                            "import", "edit", "admin", "remove", "sync", "fail"}

VARIABLES
    course,     \* Course and CourseAccess: published, the grades admitted
    member,     \* User and StudentSchool: grade, membership and account active
    enrolled,   \* StudentCourse rows
    req,        \* what each request slot is doing
    started,    \* bound: handlers so far
    excused,    \* history: pairs that became due through a handler that enrols
                \* nobody, or one that failed or was overtaken
    entitled,   \* history: pairs that were ever eligible
    stray       \* history: pairs enrolled from reads that were overtaken

vars == <<course, member, enrolled, req, started, excused, entitled, stray>>

Pairs == Students \X Courses
Access == {None} \cup SUBSET Grades
StudentGrade == Grades \cup {Null}

CourseRow == [state : {"none", "draft", "published", "deleted"}, access : Access]
MemberRow == [state : {"none", "importing", "member", "deleted"}, grade : StudentGrade,
              active : BOOLEAN, account : BOOLEAN]

\* shouldEnrollForGrade(): an access rule that lists no grade admits everyone.
Admits(access, grade) == access # None /\ (access = {} \/ grade \in access)

EligibleIn(cs, ms) ==
    {p \in Pairs : /\ cs[p[2]].state = "published"
                   /\ ms[p[1]].state = "member"
                   /\ Admits(cs[p[2]].access, ms[p[1]].grade)}

DueIn(cs, ms) ==
    {p \in EligibleIn(cs, ms) : ms[p[1]].active /\ ms[p[1]].account}

Due == DueIn(course, member)

Idle == [at |-> "idle"]

CourseRequest ==
    [at : {"flag", "clear", "grant"}, course : Courses,
     publish : BOOLEAN \cup {Keep}, access : Access \cup {Keep}, enrols : BOOLEAN]

StudentRequest ==
    [at : {"edit"}, student : Students, was : StudentGrade,
     grade : StudentGrade \cup {Keep}, active : BOOLEAN \cup {Keep}]
      \cup [at : {"upsert"}, student : Students, grade : StudentGrade]
      \cup [at : {"disable"}, student : Students]

\* enrollRelevantStudentsInCourse() at its three reads and its createMany.
CourseEnrolment ==
    [at : {"findAccess", "findGrades", "findStudents", "enrolAll"},
     course : Courses, gone : BOOLEAN, admits : SUBSET Grades,
     who : SUBSET Students, late : BOOLEAN]

\* enrollStudentInRelevantCourses() at its two reads and its createMany, and
\* the commit of an import, which stores the student as new says.
StudentEnrolment ==
    [at : {"findCourses", "findCourseGrades", "enrolMine", "commit"},
     student : Students, grade : StudentGrade, found : SUBSET Courses,
     gone : SUBSET Courses, late : SUBSET Courses, new : {"no", "active", "inactive"}]

Request == {Idle} \cup CourseRequest \cup StudentRequest \cup CourseEnrolment
             \cup StudentEnrolment

\* Drafts and students that are there already are in no published course.
Init ==
    /\ course \in [Courses -> [state : {"none"}, access : {None}]
                                \cup [state : {"draft"}, access : Access]]
    /\ member \in [Students ->
         [state : {"none"}, grade : {Null}, active : {FALSE}, account : {FALSE}]
           \cup [state : {"member"}, grade : StudentGrade, active : {TRUE},
                 account : {TRUE}]]
    /\ enrolled = {}
    /\ req = [r \in Requests |-> Idle]
    /\ started = 0
    /\ excused = {}
    /\ entitled = {}
    /\ stray = {}

-----------------------------------------------------------------------------
\* What the writes share.

Starts(r, endpoint) ==
    /\ endpoint \in Endpoints
    /\ req[r] = Idle
    /\ started < MaxRequests
    /\ started' = started + 1

\* A request that has started to enrol students in course c, or student s.
EnrolCourse(c, late) ==
    [at |-> "findAccess", course |-> c, gone |-> FALSE, admits |-> {}, who |-> {},
     late |-> late]

EnrolStudent(s, grade, new) ==
    [at |-> "findCourses", student |-> s, grade |-> grade, found |-> {},
     gone |-> {}, late |-> {}, new |-> new]

EnrolsAll(r) == req[r].at \in {"findAccess", "findGrades", "findStudents", "enrolAll"}
EnrolsOne(r) == req[r].at \in {"findCourses", "findCourseGrades", "enrolMine", "commit"}

\* The grades of an access rule are deleted with it: a request that has read
\* the rule already will find none.
Overtaken(q, c, dropped) ==
    IF EnrolsAll(q) /\ req[q].course = c
    THEN [req[q] EXCEPT !.late = @ \/ req[q].at # "enrolAll",
                        !.gone = @ \/ (dropped /\ req[q].at = "findGrades")]
    ELSE IF \/ req[q].at = "findCourseGrades"
            \/ EnrolsOne(q) /\ req[q].at # "findCourses" /\ req[q].new # "no"
    THEN [req[q] EXCEPT
            !.late = @ \cup {c},
            !.gone = @ \cup IF dropped /\ req[q].at = "findCourseGrades" THEN {c} ELSE {}]
    ELSE req[q]

\* Request r writes course c and goes on as mine.
WriteCourse(r, c, row, mine) ==
    /\ course' = [course EXCEPT ![c] = row]
    /\ entitled' = entitled \cup EligibleIn(course', member)
    /\ req' = [q \in Requests |->
                 IF q = r THEN mine
                 ELSE Overtaken(q, c, row.access = None /\ course[c].access # None)]

\* Request r writes student s and goes on as mine.
WriteMember(r, s, row, mine) ==
    /\ member' = [member EXCEPT ![s] = row]
    /\ entitled' = entitled \cup EligibleIn(course, member')
    /\ req' = [q \in Requests |->
                 IF q = r THEN mine
                 ELSE IF req[q].at \in {"findCourses", "findCourseGrades"}
                           /\ req[q].student = s
                 THEN [req[q] EXCEPT !.late = Courses] ELSE req[q]]

\* Nobody is enrolled because of this write.
Silent(courses, members) == excused' = excused \cup (DueIn(courses, members) \ Due)

-----------------------------------------------------------------------------
\* Courses: AdminCoursesService and the access endpoint of AdminExtraController.

\* create(): the course, then its access rule, then the enrolment.
Create(r, c, publish, access) ==
    /\ Starts(r, "create")
    /\ course[c].state = "none"
    /\ WriteCourse(r, c, [state |-> IF publish THEN "published" ELSE "draft",
                          access |-> None],
                   IF access = None THEN Idle
                   ELSE [at |-> "grant", course |-> c, publish |-> Keep,
                         access |-> access, enrols |-> publish])
    /\ UNCHANGED <<member, enrolled, excused, stray>>

Exists(c) == course[c].state \in {"draft", "published"}

\* Faulty variant of Publish: the students are left for the next sync.
PublishSilently(r, c, publish) ==
    /\ Starts(r, "publish")
    /\ Exists(c)
    /\ WriteCourse(r, c, [course[c] EXCEPT
                            !.state = IF publish THEN "published" ELSE "draft"], Idle)
    /\ excused' = excused \ (IF publish THEN Students \X {c} ELSE {})
    /\ UNCHANGED <<member, enrolled, stray>>

\* publish(): the flag is written before the enrolment reads anything.
Publish(r, c, publish) ==
    /\ Starts(r, "publish")
    /\ Exists(c)
    /\ WriteCourse(r, c, [course[c] EXCEPT
                            !.state = IF publish THEN "published" ELSE "draft"],
                   IF publish THEN EnrolCourse(c, FALSE) ELSE Idle)
    /\ excused' = excused \ (IF publish THEN Students \X {c} ELSE {})
    /\ UNCHANGED <<member, enrolled, stray>>

\* update() reads the course first; whether it enrols depends on that read.
UpdateRead(r, c, publish, access) ==
    /\ Starts(r, "update")
    /\ Exists(c)
    /\ publish # Keep \/ access # Keep
    /\ req' = [req EXCEPT ![r] =
         [at |-> IF publish = Keep THEN "clear" ELSE "flag", course |-> c,
          publish |-> publish, access |-> access,
          enrols |-> course[c].state = "published"]]
    /\ UNCHANGED <<course, member, enrolled, excused, entitled, stray>>

UpdateFlag(r) ==
    LET c == req[r].course IN
    /\ req[r].at = "flag"
    /\ IF Exists(c)
       THEN WriteCourse(r, c, [course[c] EXCEPT
                                 !.state = IF req[r].publish THEN "published" ELSE "draft"],
                        IF req[r].access = Keep THEN Idle
                        ELSE [req[r] EXCEPT !.at = "clear"])
       ELSE req' = [req EXCEPT ![r] = Idle] /\ UNCHANGED <<course, entitled>>
    /\ Silent(course', member)
    /\ UNCHANGED <<member, enrolled, started, stray>>

\* createOrUpdateCourseAccess() replaces the access rule and enrols nobody.
AccessStart(r, c, access) ==
    /\ Starts(r, "access")
    /\ Exists(c)
    /\ req' = [req EXCEPT ![r] = [at |-> "clear", course |-> c, publish |-> Keep,
                                  access |-> access, enrols |-> FALSE]]
    /\ UNCHANGED <<course, member, enrolled, excused, entitled, stray>>

Granted(request) ==
    IF request.enrols
    THEN EnrolCourse(request.course, course[request.course].state # "published")
    ELSE Idle

\* courseAccess.deleteMany(); without schools in the body nothing follows it.
Clear(r) ==
    LET c == req[r].course IN
    /\ req[r].at = "clear"
    /\ WriteCourse(r, c, [course[c] EXCEPT !.access = None],
                   IF req[r].access = None THEN Granted(req[r])
                   ELSE [req[r] EXCEPT !.at = "grant"])
    /\ UNCHANGED <<member, enrolled, started, excused, stray>>

\* courseAccess.create(): the unique key refuses a second rule, the foreign key
\* one for a deleted course, and the handler ends there.
Grant(r) ==
    LET c == req[r].course IN
    /\ req[r].at = "grant"
    /\ IF Exists(c) /\ course[c].access = None
       THEN /\ WriteCourse(r, c, [course[c] EXCEPT !.access = req[r].access],
                           Granted(req[r]))
            /\ IF req[r].enrols THEN excused' = excused \ (Students \X {c})
               ELSE Silent(course', member)
       ELSE /\ req' = [req EXCEPT ![r] = Idle]
            /\ UNCHANGED <<course, excused, entitled>>
    /\ UNCHANGED <<member, enrolled, started, stray>>

\* delete(): the access rule goes with the course, the enrolments stay.
DeleteCourse(r, c) ==
    /\ Starts(r, "remove")
    /\ Exists(c)
    /\ WriteCourse(r, c, [state |-> "deleted", access |-> None], Idle)
    /\ UNCHANGED <<member, enrolled, excused, stray>>

-----------------------------------------------------------------------------
\* Students.

\* The account and the membership are stored, then the student is enrolled:
\* the forms of admin and school admin, and the joining code.
Register(r, s, grade) ==
    /\ Starts(r, "register")
    /\ member[s].state = "none"
    /\ WriteMember(r, s, [state |-> "member", grade |-> grade, active |-> TRUE,
                          account |-> TRUE], EnrolStudent(s, grade, "no"))
    /\ UNCHANGED <<course, enrolled, excused, stray>>

\* The imports enrol from inside the transaction that stores the student, by a
\* connection of its own: before anybody else can see the student.
Import(r, s, grade, new) ==
    /\ Starts(r, "import")
    /\ member[s].state = "none"
    /\ WriteMember(r, s, [member[s] EXCEPT !.state = "importing"],
                   EnrolStudent(s, grade, new))
    /\ UNCHANGED <<course, enrolled, excused, stray>>

\* updateStudent() reads the membership first; whether it enrols depends on
\* that read.
EditRead(r, s, grade, active) ==
    /\ Starts(r, "edit")
    /\ member[s].state = "member"
    /\ req' = [req EXCEPT ![r] = [at |-> "edit", student |-> s, was |-> member[s].grade,
                                  grade |-> grade, active |-> active]]
    /\ UNCHANGED <<course, member, enrolled, excused, entitled, stray>>

EditWrite(r) ==
    LET s == req[r].student
        row == [member[s] EXCEPT !.grade = IF req[r].grade = Keep THEN @ ELSE req[r].grade,
                                 !.active = IF req[r].active = Keep THEN @ ELSE req[r].active]
        enrols == req[r].grade \notin {Keep, req[r].was}
    IN
    /\ req[r].at = "edit"
    /\ IF member[s].state = "member"
       THEN WriteMember(r, s, row, IF enrols THEN EnrolStudent(s, req[r].grade, "no")
                                   ELSE Idle)
       ELSE req' = [req EXCEPT ![r] = Idle] /\ UNCHANGED <<member, entitled>>
    /\ IF enrols THEN excused' = excused \ ({s} \X Courses) ELSE Silent(course, member')
    /\ UNCHANGED <<course, enrolled, started, stray>>

\* AdminStudentsService.update(): the account, then the membership, which is
\* made active with the grade of the body, or none; nothing is enrolled.
AdminAccount(r, s, account, grade) ==
    /\ Starts(r, "admin")
    /\ member[s].state = "member"
    /\ WriteMember(r, s, [member[s] EXCEPT !.account = account],
                   [at |-> "upsert", student |-> s, grade |-> grade])
    /\ Silent(course, member')
    /\ UNCHANGED <<course, enrolled, stray>>

AdminUpsert(r) ==
    LET s == req[r].student IN
    /\ req[r].at = "upsert"
    /\ IF member[s].state = "member"
       THEN WriteMember(r, s, [member[s] EXCEPT !.grade = req[r].grade, !.active = TRUE],
                        Idle)
       ELSE req' = [req EXCEPT ![r] = Idle] /\ UNCHANGED <<member, entitled>>
    /\ Silent(course, member')
    /\ UNCHANGED <<course, enrolled, started, stray>>

\* deleteStudent(): soft, the membership and then the account; or hard, and
\* the membership goes with the account.
DisableMember(r, s) ==
    /\ Starts(r, "remove")
    /\ member[s].state = "member"
    /\ WriteMember(r, s, [member[s] EXCEPT !.active = FALSE],
                   [at |-> "disable", student |-> s])
    /\ UNCHANGED <<course, enrolled, excused, stray>>

DisableAccount(r) ==
    LET s == req[r].student IN
    /\ req[r].at = "disable"
    /\ WriteMember(r, s, [member[s] EXCEPT !.account = FALSE], Idle)
    /\ UNCHANGED <<course, enrolled, started, excused, stray>>

DeleteMember(r, s) ==
    /\ Starts(r, "remove")
    /\ member[s].state = "member"
    /\ WriteMember(r, s, [state |-> "deleted", grade |-> Null, active |-> FALSE,
                          account |-> FALSE], Idle)
    /\ UNCHANGED <<course, enrolled, excused, stray>>

\* enrollStudent(): the membership is read and its grade used.
EnrolAgain(r, s) ==
    /\ Starts(r, "sync")
    /\ member[s].state = "member"
    /\ member[s].active
    /\ req' = [req EXCEPT ![r] = EnrolStudent(s, member[s].grade, "no")]
    /\ excused' = excused \ ({s} \X Courses)
    /\ UNCHANGED <<course, member, enrolled, entitled, stray>>

\* bulkSyncPublishedEnrollments(): one INSERT ... SELECT.
Sync(r) ==
    /\ Starts(r, "sync")
    /\ enrolled' = enrolled \cup Due
    /\ UNCHANGED <<course, member, req, excused, entitled, stray>>

-----------------------------------------------------------------------------
\* enrollRelevantStudentsInCourse().

FindAccess(r) ==
    /\ req[r].at = "findAccess"
    /\ req' = [req EXCEPT ![r] = IF course[req[r].course].access = None THEN Idle
                                 ELSE [req[r] EXCEPT !.at = "findGrades"]]
    /\ UNCHANGED <<course, member, enrolled, started, excused, entitled, stray>>

\* The grades of a rule that is gone by now read as none listed.
FindGrades(r) ==
    /\ req[r].at = "findGrades"
    /\ req' = [req EXCEPT ![r].at = "findStudents", ![r].gone = FALSE,
         ![r].admits = IF req[r].gone THEN {} ELSE course[req[r].course].access]
    /\ UNCHANGED <<course, member, enrolled, started, excused, entitled, stray>>

FindStudents(r) ==
    /\ req[r].at = "findStudents"
    /\ LET found == {s \in Students : /\ member[s].state = "member"
                                      /\ member[s].active /\ member[s].account
                                      /\ Admits(req[r].admits, member[s].grade)} IN
       req' = [req EXCEPT ![r] = IF found = {} THEN Idle
                                 ELSE [req[r] EXCEPT !.at = "enrolAll", !.who = found]]
    /\ UNCHANGED <<course, member, enrolled, started, excused, entitled, stray>>

\* createMany() with skipDuplicates.
EnrolAll(r) ==
    /\ req[r].at = "enrolAll"
    /\ LET rows == req[r].who \X {req[r].course} IN
         /\ enrolled' = enrolled \cup rows
         /\ stray' = IF req[r].late THEN stray \cup rows ELSE stray
    /\ req' = [req EXCEPT ![r] = Idle]
    /\ UNCHANGED <<course, member, started, excused, entitled>>

-----------------------------------------------------------------------------
\* enrollStudentInRelevantCourses().

Enrolled(request) ==
    IF request.new = "no" THEN Idle ELSE [request EXCEPT !.at = "commit"]

\* Faulty variant of FindCourses: drafts are found too.
FindCoursesAll(r) ==
    /\ req[r].at = "findCourses"
    /\ LET found == {c \in Courses : course[c].access # None}
           request == [req[r] EXCEPT !.found = found] IN
       req' = [req EXCEPT ![r] = IF found = {} THEN Enrolled(request)
                                 ELSE [request EXCEPT !.at = "findCourseGrades"]]
    /\ UNCHANGED <<course, member, enrolled, started, excused, entitled, stray>>

FindCourses(r) ==
    /\ req[r].at = "findCourses"
    /\ LET found == {c \in Courses : /\ course[c].state = "published"
                                     /\ course[c].access # None}
           request == [req[r] EXCEPT !.found = found] IN
       req' = [req EXCEPT ![r] = IF found = {} THEN Enrolled(request)
                                 ELSE [request EXCEPT !.at = "findCourseGrades"]]
    /\ UNCHANGED <<course, member, enrolled, started, excused, entitled, stray>>

FindCourseGrades(r) ==
    /\ req[r].at = "findCourseGrades"
    /\ LET found == {c \in req[r].found :
                       c \in req[r].gone \/ Admits(course[c].access, req[r].grade)}
           request == [req[r] EXCEPT !.found = found, !.gone = {}] IN
       req' = [req EXCEPT ![r] = IF found = {} THEN Enrolled(request)
                                 ELSE [request EXCEPT !.at = "enrolMine"]]
    /\ UNCHANGED <<course, member, enrolled, started, excused, entitled, stray>>

Strays(request) == {request.student} \X (request.found \cap request.late)

EnrolMine(r) ==
    /\ req[r].at = "enrolMine"
    /\ enrolled' = enrolled \cup ({req[r].student} \X req[r].found)
    /\ stray' = stray \cup Strays(req[r])
    /\ req' = [req EXCEPT ![r] = Enrolled(req[r])]
    /\ UNCHANGED <<course, member, started, excused, entitled>>

\* The transaction of an import ends: the student is there for everybody.  The
\* courses that changed since they were found are missed.
Commit(r) ==
    LET s == req[r].student IN
    /\ req[r].at = "commit"
    /\ WriteMember(r, s, [state |-> "member", grade |-> req[r].grade,
                          active |-> req[r].new = "active", account |-> req[r].new = "active"],
                   Idle)
    /\ excused' = excused \cup (DueIn(course, member') \cap ({s} \X req[r].late))
    /\ stray' = stray \cup Strays(req[r])
    /\ UNCHANGED <<course, enrolled, started>>

-----------------------------------------------------------------------------
\* The pairs a request is still going to enrol.
Covers(r, p) ==
    \/ EnrolsAll(r) /\ req[r].course = p[2]
         /\ CASE req[r].at = "findStudents" -> Admits(req[r].admits, member[p[1]].grade)
              [] req[r].at = "enrolAll" -> p[1] \in req[r].who
              [] OTHER -> TRUE
    \/ EnrolsOne(r) /\ req[r].at # "commit" /\ req[r].student = p[1]
         /\ (req[r].at = "findCourses" \/ p[2] \in req[r].found)
         /\ (req[r].at = "enrolMine" \/ Admits(course[p[2]].access, req[r].grade))

\* The next database call of a handler rejects, or the process stops; an import
\* is rolled back, but not what it has enrolled.
Fail(r) ==
    LET imports == EnrolsOne(r) /\ req[r].new # "no" IN
    /\ "fail" \in Endpoints
    /\ req[r] # Idle
    /\ req' = [req EXCEPT ![r] = Idle]
    /\ excused' = excused \cup {p \in Due : Covers(r, p)}
    /\ member' = IF imports
                 THEN [member EXCEPT ![req[r].student].state = "deleted"] ELSE member
    /\ stray' = IF req[r].at = "commit"
                THEN stray \cup ({req[r].student} \X req[r].found) ELSE stray
    /\ UNCHANGED <<course, enrolled, started, entitled>>

CourseStep(r) ==
    \/ \E c \in Courses, publish \in BOOLEAN, access \in Access :
         Create(r, c, publish, access)
    \/ \E c \in Courses, publish \in BOOLEAN : Publish(r, c, publish)
    \/ \E c \in Courses, publish \in BOOLEAN \cup {Keep}, access \in Access \cup {Keep} :
         UpdateRead(r, c, publish, access)
    \/ UpdateFlag(r)
    \/ \E c \in Courses, access \in Access : AccessStart(r, c, access)
    \/ Clear(r)
    \/ Grant(r)
    \/ \E c \in Courses : DeleteCourse(r, c)

StudentStep(r) ==
    \/ \E s \in Students, grade \in StudentGrade : Register(r, s, grade)
    \/ \E s \in Students, grade \in StudentGrade, new \in {"active", "inactive"} :
         Import(r, s, grade, new)
    \/ \E s \in Students, grade \in StudentGrade \cup {Keep},
          active \in BOOLEAN \cup {Keep} : EditRead(r, s, grade, active)
    \/ EditWrite(r)
    \/ \E s \in Students, account \in BOOLEAN, grade \in StudentGrade :
         AdminAccount(r, s, account, grade)
    \/ AdminUpsert(r)
    \/ \E s \in Students : DisableMember(r, s)
    \/ DisableAccount(r)
    \/ \E s \in Students : DeleteMember(r, s)
    \/ \E s \in Students : EnrolAgain(r, s)
    \/ Sync(r)

EnrolStep(r) ==
    \/ FindAccess(r)
    \/ FindGrades(r)
    \/ FindStudents(r)
    \/ EnrolAll(r)
    \/ FindCourses(r)
    \/ FindCourseGrades(r)
    \/ EnrolMine(r)
    \/ Commit(r)

Next == \E r \in Requests : CourseStep(r) \/ StudentStep(r) \/ EnrolStep(r) \/ Fail(r)

Spec == Init /\ [][Next]_vars

-----------------------------------------------------------------------------
\* The rows, the requests in flight and the history have their types.
TypeOK ==
    /\ course \in [Courses -> CourseRow]
    /\ member \in [Students -> MemberRow]
    /\ enrolled \subseteq Pairs
    /\ req \in [Requests -> Request]
    /\ started \in 0..MaxRequests
    /\ excused \subseteq Pairs
    /\ entitled \subseteq Pairs
    /\ stray \subseteq Pairs

\* However student and course handlers interleave, a student who is due in a
\* course is enrolled, or about to be by one of them, unless the pair became due
\* through a handler that enrols nobody or did not get to it
\* (courses.service.ts:726-733 against students.service.ts:192-217).
NoMissedEnrollment ==
    \A p \in Due \ enrolled : p \in excused \/ \E r \in Requests : Covers(r, p)

\* Nobody is enrolled in a course that was never open to them, but by reads that
\* another handler overtook or a transaction that was rolled back
\* (enrollment.service.ts:38-59 and 71-117).
EnrollmentsJustified ==
    \A p \in enrolled :
        \/ p \in entitled \cup stray
        \/ \E r \in Requests : req[r].at = "commit" /\ req[r].student = p[1]
=============================================================================
