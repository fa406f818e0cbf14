--------------------------- MODULE CourseVersions ---------------------------
(***************************************************************************)
(* The content of one course and its saved versions: editors replace       *)
(* chapters, contents and school access, publish, revert and delete        *)
(* (src/admin/courses/courses.service.ts, and the access endpoint of       *)
(* src/admin/extra/admin-extra.controller.ts).                             *)
(*                                                                         *)
(* A handler is the set of the calls it has left, made in the order of     *)
(* their phases; within a phase the order is that of the request body,     *)
(* which is any.  Contents and assignments of a chapter are both items;    *)
(* the three deletes that empty a chapter are one step, and so are the two *)
(* queries by which an access rule and its grades are read (Enrollment     *)
(* takes those apart).  The published flag, and whom a rule enrols, are in *)
(* Enrollment.  goal and alone are history: the course the handler was      *)
(* asked for, and that no other handler wrote meanwhile.                   *)
(***************************************************************************)
EXTENDS Naturals, Sequences

CONSTANTS
    Requests,       \* request slots: how many handlers may run at once
    ChapterIds,     \* chapter ids, the database's or an editor's
    Titles,         \* items of a chapter, told apart by title
    Schools, Grades,
    Edits,          \* bound: the edits explored
    Rules,          \* bound: the access rules explored
    MaxRequests,    \* bound: requests explored
    Events          \* bound: which events of the environment are explored

Places == ChapterIds \X Titles

\* The rows of CourseAccess: the schools that have one, with their grades.
Access == UNION {[S -> SUBSET Grades] : S \in SUBSET Schools}

Course ==
    [access : Access, chapters : SUBSET ChapterIds, copies : [Places -> Nat]]

\* A request body or a snapshot: one list of grades for all its schools.
Body ==
    [schools : SUBSET Schools, grades : SUBSET Grades,
     chapters : SUBSET ChapterIds, copies : [Places -> Nat]]

Parts == {"access", "content"}

ASSUME VersionsOK ==
    /\ Edits \subseteq [parts : SUBSET Parts, body : Body]
    /\ Rules \subseteq Access
    /\ MaxRequests \in Nat
    /\ Events \subseteq {"fail", "delete"}

VARIABLES
    exists,         \* the Course row is there
    course,         \* its access rules, chapters and items
    versions,       \* the CourseVersion rows, as inserted
    req,            \* what each request slot is doing
    started         \* bound: requests so far

vars == <<exists, course, versions, req, started>>

NoCopies == [p \in Places |-> 0]
Blank == [access |-> <<>>, chapters |-> {}, copies |-> NoCopies]
NoBody == [schools |-> {}, grades |-> {}, chapters |-> {}, copies |-> NoCopies]

\* Faulty variant of Phases: the version is read before the items are written.
PhasesSaveFirst ==
    <<"clear", "grant", "find", "upsert", "drop", "wipe",
      "chapters", "contents", "access", "number", "insert", "item", "end">>

Phases ==
    <<"clear", "grant", "find", "upsert", "drop", "wipe", "item",
      "chapters", "contents", "access", "number", "insert", "end">>

Writing == {"clear", "grant", "find", "upsert", "drop", "wipe", "item"}

Rank == [p \in {Phases[i] : i \in DOMAIN Phases} |->
           CHOOSE i \in DOMAIN Phases : Phases[i] = p]

Calls ==
    {<<p>> : p \in {"clear", "find", "drop", "chapters", "contents", "access",
                    "number", "insert", "end"}}
      \cup ({"grant"} \X Schools)
      \cup ({"upsert", "wipe"} \X ChapterIds)
      \cup ({"item"} \X Places \X Nat)

Idle == [left |-> {}]

Request ==
    {Idle} \cup [left : SUBSET Calls, rules : Access, body : Body,
                 known : SUBSET ChapterIds, snap : Body, number : Nat,
                 goal : Course, alone : BOOLEAN]

Version == [number : Nat, snap : Body, goal : Course, alone : BOOLEAN]

Init ==
    /\ exists = FALSE
    /\ course = Blank
    /\ versions = <<>>
    /\ req = [r \in Requests |-> Idle]
    /\ started = 0

-----------------------------------------------------------------------------
\* What a handler is going to do.

\* buildGradesBySchool(): every school gets every grade.
Product(body) == [s \in body.schools |-> body.grades]

\* What get() makes of the rules: the schools, and the grades of all of them.
GradesOf(access) == UNION {access[s] : s \in DOMAIN access}

AccessCalls(rules) == {<<"clear">>} \cup ({"grant"} \X DOMAIN rules)

ItemCalls(body) ==
    UNION {{<<"item", p, i>> : i \in 1..body.copies[p]} : p \in Places}

ContentCalls(body) ==
    {<<"find">>, <<"drop">>} \cup ({"upsert", "wipe"} \X body.chapters)
      \cup ItemCalls(body)

SaveCalls == {<<p>> : p \in {"chapters", "contents", "access", "number", "insert"}}

Handler(calls, rules, body, goal) ==
    [left |-> calls, rules |-> rules, body |-> body, known |-> {}, snap |-> NoBody,
     number |-> 0, goal |-> goal, alone |-> TRUE]

\* The course an edit of these parts asks for.
Edited(parts, body) ==
    [access   |-> IF "access" \in parts THEN Product(body) ELSE course.access,
     chapters |-> IF "content" \in parts THEN body.chapters ELSE course.chapters,
     copies   |-> IF "content" \in parts THEN body.copies ELSE course.copies]

Starts(r, q) ==
    /\ req[r] = Idle
    /\ started < MaxRequests
    /\ started' = started + 1
    /\ req' = [req EXCEPT ![r] = q]

\* create(): the row, then its rules, chapters and items one by one.
CreateStart(r, e) ==
    LET goal == Edited(Parts, e.body) IN
    /\ ~exists
    /\ started = 0
    /\ exists' = TRUE
    /\ Starts(r, Handler(({"grant"} \X e.body.schools)
                           \cup ({"upsert"} \X e.body.chapters)
                           \cup ItemCalls(e.body) \cup {<<"end">>},
                         Product(e.body), e.body, goal))
    /\ UNCHANGED <<course, versions>>

\* update(): rules, content, and then a version of what became of them.
UpdateStart(r, e) ==
    LET goal == Edited(e.parts, e.body)
        calls == (IF "access" \in e.parts THEN AccessCalls(Product(e.body)) ELSE {})
                   \cup (IF "content" \in e.parts THEN ContentCalls(e.body) ELSE {})
    IN
    /\ exists
    /\ Starts(r, Handler(calls \cup SaveCalls \cup {<<"end">>},
                         Product(e.body), e.body, goal))
    /\ UNCHANGED <<exists, course, versions>>

\* revertVersion(): update() with a snapshot as its body, and no new version.
RevertStart(r, v) ==
    LET body == versions[v].snap IN
    /\ exists
    /\ Starts(r, Handler(AccessCalls(Product(body)) \cup ContentCalls(body)
                           \cup {<<"end">>},
                         Product(body), body, Edited(Parts, body)))
    /\ UNCHANGED <<exists, course, versions>>

\* publish() saves a version before it sets the flag.
PublishStart(r) ==
    /\ exists
    /\ Starts(r, Handler(SaveCalls, <<>>, NoBody, course))
    /\ UNCHANGED <<exists, course, versions>>

\* createOrUpdateCourseAccess(): each school gets the grades listed with it.
AccessStart(r, rules) ==
    /\ exists
    /\ Starts(r, Handler(AccessCalls(rules) \cup {<<"end">>}, rules, NoBody,
                         [course EXCEPT !.access = rules]))
    /\ UNCHANGED <<exists, course, versions>>

\* A chapter created without an id gets one that nobody has named.
Unnamed(c) ==
    /\ c \notin course.chapters
    /\ \A i \in DOMAIN versions : c \notin versions[i].snap.chapters
    /\ \A r \in Requests : req[r] # Idle => c \notin req[r].goal.chapters

\* addChapter(), after its count of the chapters.
AddStart(r, c) ==
    /\ exists
    /\ Unnamed(c)
    /\ Starts(r, Handler({<<"upsert", c>>}, <<>>, NoBody,
                         [course EXCEPT !.chapters = @ \cup {c}]))
    /\ UNCHANGED <<exists, course, versions>>

-----------------------------------------------------------------------------
\* The calls.

\* call is one the handler may make next.
At(r, call) ==
    /\ call \in req[r].left
    /\ \A d \in req[r].left : Rank[call[1]] <= Rank[d[1]]

\* The call is made and leaves the handler as q; other handlers are not alone
\* with the course when it writes.
Goes(r, call, q, writes) ==
    LET rest == q.left \ {call} IN
    req' = [o \in Requests |->
              IF o = r THEN IF rest = {} THEN Idle ELSE [q EXCEPT !.left = rest]
              ELSE IF writes /\ req[o] # Idle THEN [req[o] EXCEPT !.alone = FALSE]
              ELSE req[o]]

\* The database refuses the call: the handler ends with what it has written.
Refused(r) == req' = [req EXCEPT ![r] = Idle]

Clear(r) ==
    /\ At(r, <<"clear">>)
    /\ course' = [course EXCEPT !.access = <<>>]
    /\ Goes(r, <<"clear">>, req[r], TRUE)
    /\ UNCHANGED <<exists, versions, started>>

\* One rule per school: the unique key refuses another handler's second one.
Grant(r, s) ==
    LET granted == exists /\ s \notin DOMAIN course.access IN
    /\ At(r, <<"grant", s>>)
    /\ course' = IF granted
                 THEN [course EXCEPT !.access =
                         [x \in DOMAIN @ \cup {s} |->
                            IF x = s THEN req[r].rules[s] ELSE @[x]]]
                 ELSE course
    /\ IF granted THEN Goes(r, <<"grant", s>>, req[r], TRUE) ELSE Refused(r)
    /\ UNCHANGED <<exists, versions, started>>

FindChapters(r) ==
    /\ At(r, <<"find">>)
    /\ Goes(r, <<"find">>, [req[r] EXCEPT !.known = course.chapters], FALSE)
    /\ UNCHANGED <<exists, course, versions, started>>

\* A known chapter is updated and must still be there, any other is created
\* under the id it was sent with, which must be free.
Upsert(r, c) ==
    LET known == c \in req[r].known
        stored == IF known THEN c \in course.chapters
                  ELSE exists /\ c \notin course.chapters
    IN
    /\ At(r, <<"upsert", c>>)
    /\ course' = IF stored THEN [course EXCEPT !.chapters = @ \cup {c}] ELSE course
    /\ IF stored THEN Goes(r, <<"upsert", c>>, req[r], ~known) ELSE Refused(r)
    /\ UNCHANGED <<exists, versions, started>>

Without(chapters, copies) ==
    [p \in Places |-> IF p[1] \in chapters THEN 0 ELSE copies[p]]

\* Faulty variant of Drop: chapters the edit no longer names stay.
DropNone(r) ==
    /\ At(r, <<"drop">>)
    /\ Goes(r, <<"drop">>, req[r], TRUE)
    /\ UNCHANGED <<exists, course, versions, started>>

\* The chapters that were there and are not kept; their items go with them.
Drop(r) ==
    LET gone == req[r].known \ req[r].body.chapters IN
    /\ At(r, <<"drop">>)
    /\ course' = [course EXCEPT !.chapters = @ \ gone, !.copies = Without(gone, @)]
    /\ Goes(r, <<"drop">>, req[r], TRUE)
    /\ UNCHANGED <<exists, versions, started>>

Wipe(r, c) ==
    /\ At(r, <<"wipe", c>>)
    /\ course' = [course EXCEPT !.copies = Without({c}, @)]
    /\ Goes(r, <<"wipe", c>>, req[r], TRUE)
    /\ UNCHANGED <<exists, versions, started>>

\* The item's chapter must be one the request names, and must be there.
Create(r, call) ==
    LET place == call[2]
        stored == place[1] \in req[r].body.chapters \cap course.chapters
    IN
    /\ At(r, call)
    /\ call[1] = "item"
    /\ course' = IF stored THEN [course EXCEPT !.copies[place] = @ + 1] ELSE course
    /\ IF stored THEN Goes(r, call, req[r], TRUE) ELSE Refused(r)
    /\ UNCHANGED <<exists, versions, started>>

\* get(), a query per table.
ReadChapters(r) ==
    /\ At(r, <<"chapters">>)
    /\ IF exists
       THEN Goes(r, <<"chapters">>, [req[r] EXCEPT !.snap.chapters = course.chapters],
                 FALSE)
       ELSE Refused(r)
    /\ UNCHANGED <<exists, course, versions, started>>

ReadContents(r) ==
    /\ At(r, <<"contents">>)
    /\ Goes(r, <<"contents">>,
            [req[r] EXCEPT !.snap.copies =
               Without(ChapterIds \ req[r].snap.chapters, course.copies)],
            FALSE)
    /\ UNCHANGED <<exists, course, versions, started>>

ReadAccess(r) ==
    /\ At(r, <<"access">>)
    /\ Goes(r, <<"access">>,
            [req[r] EXCEPT !.snap.schools = DOMAIN course.access,
                           !.snap.grades = GradesOf(course.access)],
            FALSE)
    /\ UNCHANGED <<exists, course, versions, started>>

Numbers == {versions[i].number : i \in DOMAIN versions}

Highest == IF Numbers = {} THEN 0
           ELSE CHOOSE n \in Numbers : \A m \in Numbers : m <= n

ReadNumber(r) ==
    /\ At(r, <<"number">>)
    /\ Goes(r, <<"number">>, [req[r] EXCEPT !.number = Highest + 1], FALSE)
    /\ UNCHANGED <<exists, course, versions, started>>

Row(r) == [number |-> req[r].number, snap |-> req[r].snap, goal |-> req[r].goal,
           alone |-> req[r].alone]

\* Faulty variant of Insert: no unique key on the number.
InsertUnchecked(r) ==
    /\ At(r, <<"insert">>)
    /\ versions' = IF exists THEN Append(versions, Row(r)) ELSE versions
    /\ IF exists THEN Goes(r, <<"insert">>, req[r], FALSE) ELSE Refused(r)
    /\ UNCHANGED <<exists, course, started>>

\* The unique key (course, number) lets one of two equal numbers in.
Insert(r) ==
    LET stored == exists /\ req[r].number \notin Numbers IN
    /\ At(r, <<"insert">>)
    /\ versions' = IF stored THEN Append(versions, Row(r)) ELSE versions
    /\ IF stored THEN Goes(r, <<"insert">>, req[r], FALSE) ELSE Refused(r)
    /\ UNCHANGED <<exists, course, started>>

\* The answer is read back and returned.
End(r) ==
    /\ At(r, <<"end">>)
    /\ Goes(r, <<"end">>, req[r], FALSE)
    /\ UNCHANGED <<exists, course, versions, started>>

\* delete(): everything that hangs on the course goes with it.
Delete ==
    /\ "delete" \in Events
    /\ exists
    /\ exists' = FALSE
    /\ course' = Blank
    /\ versions' = <<>>
    /\ req' = [r \in Requests |-> IF req[r] = Idle THEN Idle
                                  ELSE [req[r] EXCEPT !.alone = FALSE]]
    /\ UNCHANGED started

\* The next call of a handler rejects, or the process stops.
Fail(r) ==
    /\ "fail" \in Events
    /\ req[r] # Idle
    /\ Refused(r)
    /\ UNCHANGED <<exists, course, versions, started>>

StartStep(r) ==
    \/ \E e \in Edits : CreateStart(r, e) \/ UpdateStart(r, e)
    \/ \E v \in DOMAIN versions : RevertStart(r, v)
    \/ \E rules \in Rules : AccessStart(r, rules)
    \/ \E c \in ChapterIds : AddStart(r, c)
    \/ PublishStart(r)

EditStep(r) ==
    \/ Clear(r) \/ FindChapters(r) \/ Drop(r)
    \/ \E s \in Schools : Grant(r, s)
    \/ \E c \in ChapterIds : Upsert(r, c) \/ Wipe(r, c)
    \/ \E call \in req[r].left : Create(r, call)

SaveStep(r) ==
    ReadChapters(r) \/ ReadContents(r) \/ ReadAccess(r) \/ ReadNumber(r) \/ Insert(r)

Next ==
    \/ \E r \in Requests : StartStep(r) \/ EditStep(r) \/ SaveStep(r) \/ End(r) \/ Fail(r)
    \/ Delete

Spec == Init /\ [][Next]_vars

-----------------------------------------------------------------------------
\* The values the variables take; an item is in a chapter of the course, and
\* nothing is left of a course that is not there (the foreign keys of
\* schema.prisma).
TypeOK ==
    /\ exists \in BOOLEAN
    /\ course \in Course
    /\ \A p \in Places : course.copies[p] > 0 => p[1] \in course.chapters
    /\ ~exists => course = Blank /\ versions = <<>>
    /\ versions \in Seq(Version)
    /\ req \in [Requests -> Request]
    /\ started \in 0..MaxRequests

\* Versions are numbered 1, 2, 3 and so on in the order they were stored,
\* though each number was read before it was written
\* (courses.service.ts:975-1000).
VersionsNumbered == \A i \in DOMAIN versions : versions[i].number = i

Written(r) == \A call \in req[r].left : call[1] \notin Writing

\* Whatever the course was before, torn by a failed edit included, an edit or
\* a revert that no other handler's write overlapped leaves what it was asked
\* for and nothing else (courses.service.ts:365-441, 921-963).
EditsTakeEffect ==
    \A r \in Requests :
        req[r] # Idle /\ req[r].alone /\ Written(r) => course = req[r].goal

\* A version stored by such a handler holds the course the handler asked for,
\* with the grades of all schools in one list (courses.service.ts:965-1012).
VersionsRecordEdits ==
    \A i \in DOMAIN versions :
        LET v == versions[i] IN
        v.alone => v.snap = [schools  |-> DOMAIN v.goal.access,
                             grades   |-> GradesOf(v.goal.access),
                             chapters |-> v.goal.chapters,
                             copies   |-> v.goal.copies]
=============================================================================
