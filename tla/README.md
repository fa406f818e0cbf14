# A TLA+ model of the Yugminds backend

The backend is a NestJS application over one PostgreSQL database (Prisma): schools, their
students, teachers and administrators, courses, assignments, attendance. It runs as one Node
process per instance, and nothing in it takes a lock: a handler is a sequence of awaited
database calls, and between two of them any other handler may run. Almost every rule of the
system is enforced by a read followed, some calls later, by a write. What protects the data is
the order of those calls, the unique keys and foreign keys of `prisma/schema.prisma`, and the few
statements that carry their condition with them. This project models that: which rules hold
however the handlers interleave and fail, which hold but for an exception that can be named, and
which do not hold.

Contents: [inventory](#inventory) · [how the models are made](#how-the-models-are-made) ·
[the modules](#the-modules) · [the runs](#the-runs) · [what is proved](#what-is-proved) ·
[findings](#findings) · [what is not modelled](#what-is-not-modelled) · [plan](#plan)

To check it: `tlc -config <run>.cfg <MC module>` for each row of the table of runs,
`tlapm` on each `*_proofs.tla` for the proofs.

## Inventory

Paths are under `src/`. "Hard" says what a test would hardly reach.

| Component | State it keeps | Operations | Hard | Correct when |
|---|---|---|---|---|
| Login sessions (`auth/`) | `RefreshToken` rows (bcrypt hashes), `User.password`, `tokenVersion`, `isActive` | login, refresh with rotation, logout of one or all, password changes in six places | two refreshes of one token; a password change or logout between the read and the write of another handler; a failure between the password and the deletion of the sessions | one login has one live session; what ended stays ended; old sessions end, or it is known why not |
| Password reset requests (`common/password-reset-request/`) | `PasswordResetRequest` rows | request, approve, reject, delete | two requests at once; two administrators at once | one pending request per account, decided once |
| Retakes (`student/extra`, `teacher/extra`) | `Assignment` retake columns, `AssignmentSubmission`, `RetakeGrant` | submit, change settings, grant, open for a class, close, delete | submissions racing each other, the closing of the window and the consumption of grants | attempts are numbered and limited; a closed retake is closed; a grant serves one retake |
| Scores and ranking (`common/assignment/`) | `StudentScore`, `StudentScoreSummary`, an in-memory ranking cache | recompute after submit, grade, batch grade, settings; read the ranking | recomputations overtaking each other; a cache filled after it was dropped | what is derived equals its source, or will, or it is known why not |
| Automatic enrolment (`common/enrollment/`) | `StudentCourse`; reads `Course`, `CourseAccess` with grades, `StudentSchool`, `User` | enrol a student in all courses, all students in a course, synchronise; called by some ten handlers | a student and a course changing at once; access rules replaced in two calls; imports enrolling from inside a transaction | every student due is enrolled, nobody else |
| Leaves, reports, attendance (`teacher/leaves`, `admin/leaves`, `school-admin/extra`, `teacher/reports`, `admin/teacher-attendance`) | `TeacherLeave`, `TeacherReport`, `Attendance` | apply, approve, reject, report, mark missing days | three writers of one attendance row; overlapping leaves | a reported day is Present, a day of an approved leave is marked, other days are not |
| Schools, accounts and joining codes (`admin/schools`, `admin/school-admins`, `admin/joining-codes`, `common/validate-joining-code`) | `Tenant`, `School`, sections, `JoinCode` with `usedCount`, accounts with their school in three places | create, edit, delete, move, regenerate, validate, register | chains of calls without a transaction; concurrent registrations with one code; a school deleted under somebody | an account belongs to one school; a code admits at most its limit; a school is whole or it is known why not |
| Course content and versions (`admin/courses`) | `Course`, `Chapter`, `ChapterContent`, `CourseVersion` | edit, save version, revert | numbers taken by read then create | versions are numbered, revert restores what was saved |
| Progress and certificates (`student/extra`, `admin/extra`) | `CourseProgress`, `StudentCertificate` | save progress, generate, regenerate, revoke | find then create; a crash between create and update | one row per content; a certificate is earned and not pending for ever; lists, reports and certificate agree |
| Schedules, rooms, periods (`school-admin/extra`) | `ClassSchedule`, `Room`, `Period` | create, update, delete, synchronise | the conflict check is a read; an edit writes back what it read | no teacher or room is booked twice; edits keep what others changed |
| Teachers and their sections (`admin/teachers`) | `User`, `TeacherSchool`, `TeacherSectionAssignment` | create, edit, delete | an edit stops at the first section that is taken; two edits of one teacher | one teacher for a section; sections only in the teacher's schools |
| Notifications (`common/notifications`, four `extra` controllers) | `Notification`, `NotificationReply` | send, broadcast, read, reply, delete | counts emitted late and out of order | the count shown is the count stored |
| Realtime gateway (`common/realtime`) | sockets, a statistics cache of 30 s | connect, sync, emit | statistics pushed at the end of somebody else's handler, in that handler's tenant | a push does not turn a change that was stored into a refusal |
| Tenant scoping (`database/`, `tenants/`) | the tenant of the running request | every query is rewritten with it, or refused | the tenant is chosen at the start of a request | a query reaches rows of its tenant only |
| Licences (`admin/licenses`) | `RobocodersLicense` | issue, re-issue, verify | 16-bit days | expiry is the last day paid for |
| School calendar (`school-admin/calendar`) | `SchoolCalendar` | create, update, delete, working days | an update does not check the order of the dates | ranges are ranges |
| Dashboards, profiles, community, uploads, monitoring, bootstrap | rows of their own | create, read, update, delete | little | (see [what is not modelled](#what-is-not-modelled)) |

They meet in the database, and by calls: the student and course handlers call `EnrollmentService`;
submitting and grading call `RankingService` and drop the cache of `StudentRankingService`;
approving a reset request and the edit forms delete session rows; leaves and reports write the same
attendance rows; the schedule decides when a day is fully reported, and names the teachers whose sections
`admin/teachers` assigns; a notification, a reset request or a decision ends by pushing a count or the
dashboard's statistics to the account's room, in the tenant of whoever made it.

One fact of the wiring matters to the models: `SchoolAdminModule` lists `SchoolAdminExtraController`
before `SchoolAdminLeavesController`, and both have `GET` and `PATCH school-admin/leaves/:id`.
The first one answers. The service behind the second one, with its check that a leave "has already
been processed" (`school-admin/leaves/leaves.service.ts:171`), is never reached by a request.

## How the models are made

* **A handler is cut at its database calls.** A request slot (`req[r]`) holds what a handler has read
  and where it is. Each step makes one call and works, before and after it, on what the slot holds.
  Slots interleave freely: this is what one process does at its awaits, and what several instances
  over one database do. Statements of the database are atomic steps, with the conditions they carry;
  a unique key that refuses a row ends the handler (the exception is not caught), unless the code
  uses `upsert` or `skipDuplicates`, which are modelled as what they do.
* **Failures.** `Fail(r)` ends a handler before any of its remaining calls: the database rejects the
  call, or the process stops. What was written stays; a transaction is rolled back.
* **Data is abstracted** to what the properties tell apart: a password is a generation number, a token
  pair an identity with what was signed into it, a score a small number, a date a day number.
* **History.** Some properties say: this holds, *unless* one of these things happened. What happened is
  kept in history variables and fields (named in each module's header). No guard reads them, and they
  are set only at the step that causes the exception, so that the property still fails for any other
  cause. Each module's mutants (below) show that the exceptions do not swallow the rule.
* **Bounds** are the constants named `Max…`, `Events` and `Endpoints`, declared as bounds in each module.
  The theorems hold for every value of them.
* **Faulty variants.** Each property comes with a plausible bug in the code it is about, as an operator
  next to the definition it replaces (`RefreshDeleteTolerant` next to `RefreshDelete`). With the
  replacement TLC finds the property violated under the same configuration.

## The modules

### AuthSessions — login sessions

`user` is the `User` row, `rows` the `RefreshToken` rows, `info` what each token pair ever issued was
minted from. `LoginRead`/`LoginStore`, `RefreshRead`/`RefreshDelete`/`RefreshStore`,
`ChangeRead`/`ChangeWrite`/`ChangeRevoke`, `LogoutBump`/`LogoutFind`/`LogoutDelete`/`LogoutAll` are
`login`, `refresh`, the password changes and `logout` of `auth.service.ts`, cut at their calls.
`PasswordOps` are the places that change a password and delete the sessions; `SetStudentPassword` is the
school admin's endpoint that deletes none. `Matches` says what `bcrypt.compare` decides for two refresh
tokens: bcrypt reads 72 bytes, and those are equal in all tokens of an account, so that any row of the
account may be the one that matches.

* `NoSessionFork`: a login never has two rows, nor two refreshes about to store one, however refreshes
  overlap. It rests on `delete` by id failing when the row is gone.
* `OldSessionsExplained`: a session whose login checked an older password is to be revoked by a handler
  in flight, or was stored by a handler the revocation overtook, or the last change is one that owes a
  revocation for ever (a failure, or the endpoint that deletes none).
* `LogoutAllRevokes`: the same for the sign-out of all sessions.
* `RefusedForever`: an access token that the version check refuses is refused from then on.

`SessionRegistry` is the abstract specification: sessions are opened once, closed account by account,
and never open again. `AuthSessionsRegistry` gives the mapping (a session is the login a pair descends
from; it is open while a row, or a refresh between its delete and its insert, holds it), and
`ImplementsRegistry` says that every step of the handlers is a step of the registry, or none.

### RetakeAttempts — attempts, grants and windows

`settings` are the retake columns of one `Assignment`, `attempts` the numbers of each student's
submissions in the order they were stored, `grant` the `RetakeGrant` rows. `SubmitRead`, `SubmitCount`,
`SubmitCheck`, `SubmitInsert`, `SubmitConsume` are `submitAssignment`; the `Settings…`, `Grant…`,
`Open…` and `Close…` actions are the teacher's endpoints. The unique key (assignment, student, number)
is the guard of `SubmitInsert`.

* `AttemptsBounded`: attempts are 1, 2, 3 …, though each number was computed from a read
  (`AttemptsNumbered`), and no interleaving stores more of them than the largest limit that was ever set
  (`WithinCapacity`).
* `CloseShutsRetakes`: after a close that no other teacher request overlapped, the retakes still to be
  stored are those it overtook.
* `SpentGrantsConsumed`: a grant that served a retake is consumed or about to be, unless the handler
  that owed it failed or a newer grant was given meanwhile.

### ScorePipeline — from submissions to ranks

`subs` are the submissions of one course assignment, `stored` the `StudentScore` rows, `summary` the
`StudentScoreSummary` rows, `cache` the ranking cache. Writers (`Submit`, `GradeRead`/`GradeWrite`,
`BatchStart`/`BatchWrite`/`BatchEnd`, `RuleRead`/`RuleWrite`/`RuleFind`, `DeleteAssignment`) follow a plan of derivations: scores,
invalidation, summary, in the order of each handler. A derivation reads its source and writes its result
in different steps (`JobRule`, `JobRows`, `JobWrite`; `SummaryRead`, `SummaryWrite`; `RankRows`,
`RankRule`, `RankFill`).

A handler that rejects ends there (`Reject`); but when one of the calls of a `Promise.all` does, the others go on
and only what was to follow them is left out (`RejectJob`, `RejectUpsert`).

* `StoredExplained`, `SummaryExplained`, `CacheExplained`: a derived value that differs from its source
  is about to be derived again, or its last derivation was overtaken, or the change was made by a handler
  that derives nothing or failed.
* `EventuallyFresh` (under `FairSpec`): when writing has stopped, the ranking that is served becomes and
  stays right.

### Enrollment — who is enrolled in what

`course` is `Course` with its access rule, `member` is `User` with `StudentSchool`, `enrolled` the
`StudentCourse` rows. The course side (`Create`, `Publish`, `Update…`, `AccessStart`, `Clear`, `Grant`,
`DeleteCourse`) and the student side (`Register`, `Import`, `Edit…`, `Admin…`, `Disable…`,
`DeleteMember`, `EnrolAgain`, `Sync`) call the two methods of the enrolment service, which read in two
and three calls: a rule and its grades are two queries of Prisma, so a rule deleted in between reads as
a rule without grades, which admits everyone.

* `NoMissedEnrollment`: a student who is due in a course is enrolled, or a handler in flight will do it,
  unless the pair became due through a handler that enrols nobody (`excused`). It rests on both sides
  writing before they read.
* `EnrollmentsJustified`: nobody is enrolled in a course that was never open to them, but from reads
  that were overtaken or by an import that was rolled back.

### LeavesAttendance — the attendance of a teacher

`leave`, `reported`, `mark` and `timetable` are the `TeacherLeave`, `TeacherReport`, `Attendance` and
`ClassSchedule` rows of one teacher at one school. `ApplyFind`/`ApplyCreate` request a leave;
`DecideRead`/`DecideWrite` decide it, for the admin (`LeaveRead`, `LeaveUpdate`, `LeaveCreate` in bulk,
`LeaveReset` for a rejection) or the school admin (`PatchFind`/`PatchUpsert` day by day);
`ReportFind` to `ReportPresent` are a report; `SweepRead`/`SweepCreate` are `markMissing()`.

* `LeaveDaysRight`: days of an approved leave are marked (`ApprovedDaysMarked`), marked days belong to an
  approved leave (`LeaveDaysBacked`); with the exceptions: `markMissing()` slipping between `updateMany` and
  `createMany`, a rejection of a leave over the same day, the school admin's withdrawal (which resets
  nothing), failures.
* `PresentDaysRight`: a day is Present once all its periods are reported (`ReportedDaysPresent`), and only
  then, for a timetable the day has had (`PresentEarned`).
* `PresentKept`: no handler but the school admin's upsert after an overtaken read takes Present away.

### AttendanceViews — what is said of a teacher's attendance

The teacher's own day and month, the administrator's day and month and the teacher's dashboard each work out
a day from the attendance rows, the leaves and the reports, by rules of their own. The module states them
(`TeacherToday`, `TeacherMonth`, `AdminToday`, `AdminMonth`, `DashboardMonth`) over the variables of
`LeavesAttendance`, as the kinds under which a day is counted: a monthly figure is the number of such days.
`getToday()` compares the number of classes of the day with the number of periods reported
(`teacher/attendance/attendance.service.ts:87-133`). The timetable is a set of periods here, so that two classes
of the teacher in one period, a double booking of which `DoubleBookingsOverlapped` says when it happens, count once.

* `FiguresAgree`: of every day that is settled they say the same. A day is not settled while a handler is at
  work on it, and for ever when one of the exceptions of `LeaveDaysRight` or `PresentDaysRight` has happened
  to it: an Unreported row on a day of an approved leave is a day of leave for the administrator and counted
  twice for the teacher, as leave and as unreported.

### CourseVersions — content, access and what is saved of them

`course` is the access rules, chapters and items of one course, `versions` the `CourseVersion` rows.
A handler (`CreateStart`, `UpdateStart`, `RevertStart`, `PublishStart`, `AccessStart`, `AddStart`) is
the set of calls it still has to make, and `Phases` their order: delete the rules (`Clear`), create them
(`Grant`), read the chapters (`FindChapters`), update or create each (`Upsert`), delete those not kept
(`Drop`), empty each (`Wipe`), create the items (`Create`), then `get()` (`ReadChapters`, `ReadContents`,
`ReadAccess`), the last number (`ReadNumber`) and the version (`Insert`). A call the database refuses ends
the handler. When it is the insert of a version that is refused, the code may go on to its answer; that
changes nothing the module keeps.

* `VersionsNumbered`: 1, 2, 3 … though every number is read before it is written.
* `EditsTakeEffect`: an edit or revert that no other handler's write overlapped leaves exactly what it was
  asked for, whatever torn state earlier failures had left.
* `VersionsRecordEdits`: a version stored by such an edit holds what the edit asked for.

### CourseProgress — progress and the certificate

`rows` are one student's `CourseProgress` rows in one course, `certificate` the `StudentCertificate` row.
`SaveFind`, `SaveUpdate`, `SaveCreate` are the three endpoints that save progress; `GenerateStart`,
`GenerateRead` (three queries, in any order), `GenerateFind`, `CertificateCreate`, `CertificateFile` are
`generateCertificate`; `BatchFind` and `AdminFind` start the administrators' endpoints, which share the
steps that follow, and `Revoke` deletes. The `Edit…` actions are the content edit of `CourseVersions`,
reduced to what it does to items and assignments: every edit replaces them under new ids, chapter by chapter
(`EditClear` deletes the assignments and `EditWipe` the contents, `EditCreate` and `EditGive` create them again).

* `CertificatesRight`, three rules of which none is enough alone:
  a student who got a certificate had four fifths of the course (79.5 %, as `Math.round` decides: 35 of 44
  items are enough) when the progress was read, unless an edit went on between two of the three reads
  (`CertificateEarned`; of a course whose items an edit has just deleted, any completed row is enough: that is
  the code's rule for a course without items, and it applies while the new ones are being created);
  a certificate that is pending has a handler at work on its file, or lost it to a failure (`PendingOwned`);
  the file shown is the one drawn for that certificate, through revocation, issue and late answers
  (`FileNamesCertificate`).
* `RowsUnique`: one row per key, but for what the key cannot hold: rows of a chapter, whose item is null.

### ProgressViews — what is said of a student's progress

Six endpoints work out how far a student is in a course, each by its own copy of the rules: the student's
list (`ListPercent`, `ListCompleted`), the page of a course (`ChapterPageDone`, `ChapterComplete`), the
student's dashboard (`DashboardCompleted`), the reports of teachers and of school admins (`TeacherPercent`,
`SchoolAdminPercent`) and the certificate (`Eligible` of `CourseProgress`). The module states them as
operators over the variables of `CourseProgress`, so that they are compared in every state its handlers
reach: with rows of items that are gone, marks of chapters that are gone, chapters emptied by an edit.

`ViewsAgree` is four comparisons with the student's list:

* `ReportsMatchOwnView`: the reports show the percentage of the list, although the list sets it to 100 when
  all chapters are completed and the reports do not. It rests on an empty chapter counting as completed only
  by a mark.
* `PageMatchesList`: the page shows as done the contents the list counts, although the page counts a marked chapter
  whole and the list counts item by item. Both say that a chapter is completed when "all its contents" are
  (`student/extra/student-extra.controller.ts:502`, `651`), but the page takes its assignments for contents
  (lines 604-607, 646) and the list does not: the two may differ about a chapter without a mark, in the two ways
  the property names. An assignment that is not done keeps a chapter from completion on the page alone; and a chapter
  that has nothing but assignments, all done, is completed on the page alone.
* `CertificateMatchesList`: a certificate is granted exactly when the list shows 80 % or more.
* `DashboardMatchesList`: a course completed in the list is completed on the dashboard. The dashboard calls
  more courses completed in two cases, which the property names: with an empty chapter that has no mark, and
  when `Math.round` makes 100 of 99.5 %.

`TeacherPercent` and `SchoolAdminPercent` are equal because the two handlers are copies of each other. An item of
a row is an id or null; the strings `'null'` and `'undefined'`, which some of the endpoints take for null and
others do not, are left out, as is the admin's report, which averages the raw rows.

### TenantScope — which queries are refused

`TenantScope` says which queries the extension of `DatabaseService` refuses (`Refuses`: a query that names a
tenant's key, outside a tenant, or naming a school other than the tenant's) and in which contexts the
interceptor runs a request (`ContextsOf`), for an account of any role, tenant and schools (`UserRecord`).

### Inbox — notifications, their count and the pushed statistics

`notes` are the `Notification` rows of one account, `shown` the last unread count its socket was sent,
`cache` whether its statistics are cached, `socket` how far its connection is. `SendOne`, `SendBroadcast`,
`MarkAll`, `MarkFind`/`MarkWrite` are the methods of `NotificationsService`; each goes on to `Count` and
`Emit`, which are separate awaits, and the handlers that push statistics to `Push`, `Compute` and `Fill`.
`Join`, `Greet`, `Disconnect`, `ExpireStats`, `Restart` are the gateway and the process.

* `ShownExplained`: once no handler that owes a count is in flight, the count on the screen is that of the
  rows, unless the room was never told, a deletion trusted the read mark it had found, or an older count was
  emitted after a newer one.
* `RefusalsExplained`: a handler whose change is stored is answered with a refusal only for a teacher or
  a school administrator who has another school than the account's own: the statistics query names all
  schools and runs in the tenant of one.

### PasswordResets — a request and its decision

Extends `Inbox`: `resets` are the `PasswordResetRequest` rows of the account. `SubmitFind`/`SubmitInsert`/
`SubmitRoute` are the public form; `DecideFind`, `SetPassword`, `Revoke`, `Mark`, `Tell` an approval, and
the shorter chain a rejection, which goes on into the inbox's counting. Each call may be the last one.

* `RequestsHandled`: an approved request has had its password set and the sessions deleted, nothing was set
  for a rejected one (`DecisionsApplied`); the account is told of a decision once (`DecisionsAnnounced`); who
  was told of a request finds it in the list (`RoutedRequestsListed`: except a teacher's, which is routed by
  the tenant and listed by the school of the profile, that teachers are created without); two are pending
  only when the forms overlapped (`DuplicatesOverlapped`). Exceptions: two decisions at once, a failure, a
  deletion meanwhile.

### SchoolAccounts — schools, administrators and codes

`schools` are `Tenant` and `School` rows (which share their ids), `accounts` the `User` rows of students and
administrators with their link row and profile, `codes` the `JoinCode` rows. `RegisterValidate`,
`RegisterReread`, `Signup`, `Link`, `WriteProfile`, `RegisterCount` are a registration by code; `CreateSchool`,
`SchoolRow`, `CreateGrade`, `CreateGradeCode` the creation of a school and, from there, of its administrator
(the same `Signup` … `WriteProfile`); `DeleteSchool`, `DropUsers`, `DropSchool`, `DropTenant` its deletion;
`MoveAdmin`/`MoveWrite`, `RemoveAdmin`/`RemoveUser` and the single calls on codes the rest. It starts with a school
without grades, which may have an administrator, or a code of any limit and usage that nobody has used.

* `AccountsWhole`: tenant, link and profile of an account name one school, once no handler is at work on it,
  unless one failed, two overlapped, or it was created as an account only.
* `DeletedSchoolsEmpty`: no account is left of a deleted school but one that came after the deletion had begun.
* `LimitsHeld`: a code admits no more than its limit and knows how many it admitted, unless two registrations
  overlapped, one failed before it was counted, the code was changed under one, or its limit was lowered below its
  uses. The code counts a registration only if the code it read has a limit or is for single use
  (`validate-joining-code.service.ts:164-174`). Whoever a code admitted otherwise is in `free`, and a limit set later
  holds for the others only: `admitted <= limit + free`. `admitted` is raised for everyone who is enrolled, counted
  or not. A limit of 0 is a limit; a single-use code without a limit has none.
* `SchoolsWhole`: a school whose creation has ended has its row, its grades with codes for their sections and the
  administrator asked for, unless the creation failed or was refused. A section has one code for each time the body
  named its grade: the list is not freed of repetitions, the second `upsert` finds the grade and its sections there,
  and each pass creates a code (`schools.service.ts:649-679`). It has more only if two handlers built the structure
  at a time (`doubled`).

### Timetable, TeacherSections — classes and the teachers they name

In `Timetable`, `classes` are the `ClassSchedule` rows and `booking` the requests about them:
`CreateSchedule`/`UpdateSchedule`, `FindPeriod`, `FindRoom`, `CheckConflict`, `WriteSchedule`. An edit reads
the row first and writes all of it but the active flag (`Stored`). Rooms and periods come and go under them
without a foreign key. `TeacherSections` extends it with `staff`, `linked` and `assigned`, the rows of the
same teachers and their schools and sections: `CreateTeacher` (a transaction, whose duplicate check `CheckNew`
runs on another connection) and `UpdateTeacher`, a chain of `DropSections`, `DropLink`, `Link`, `Check`,
`Clear`, `Assign`, `SetTenant`, one school after the other. A creation gives the account the tenant it names or the
first of its schools; an update writes the tenant it names, if any (`AtTenant`), before it touches the schools, and
an update that names no schools does nothing else (`UpdateAccount`).

* `DoubleBookingsOverlapped`: two classes that clash were checked past one another.
* `EditsKept`: an edit takes back a column its request does not give only when another booking was written
  since it read the row.
* `OneTeacherPerSection`: a section of two teachers was given to one of them past the other.
* `TeachersWhole`: a teacher has sections only in schools the teacher belongs to, unless two edits overlapped,
  and the account is at one of them, unless an edit stopped half way, or the account's tenant is one that its
  creation or a later update named by itself (`named`), which the code compares with no school of the teacher's.

## The runs

Deadlock is not checked: the system may stop, with every bound spent and no handler in flight.

| Run | Module | Instance | Shows |
|---|---|---|---|
| `sessions_events` | `MC_AuthSessions` | 1 account, 2 handlers, 2 pairs, failures, expiry, deactivation | `NoSessionFork`, `OldSessionsExplained`, `LogoutAllRevokes`, `RefusedForever`, `ImplementsRegistry` |
| `retakes_races` | `MC_RetakeAttempts` | 1 student, 3 handlers, 3 attempts, limits 0, 1 and none, 2 teacher requests | `AttemptsBounded`, `CloseShutsRetakes`, `SpentGrantsConsumed` |
| `scores_races` | `MC_ScorePipeline` | 1 student, 2 handlers, 2 attempts, 3 writes | `ScoreTypeOK`, `StoredExplained`, `CacheExplained` |
| `scores_fresh` | `MC_ScorePipeline` | 2 students, 2 handlers, 2 writes, failures, fair | `SummaryExplained` for a class, `EventuallyFresh` |
| `enrollment_races` | `MC_Enrollment` | 1 student, 1 course, 3 handlers | `NoMissedEnrollment`, `EnrollmentsJustified` |
| `leaves_races` | `MC_LeavesAttendance` | 2 days, 2 leaves, 2 periods, 3 handlers | `LeaveDaysRight`, `PresentDaysRight`, `PresentKept`; `FiguresAgree` of `AttendanceViews` in every state this reaches |
| `versions_races` | `MC_CourseVersions` | 3 handlers, 3 requests, 2 chapters, 2 schools and grades, failures, deletion | `VersionsNumbered`, `EditsTakeEffect`, `VersionsRecordEdits` |
| `progress_races` | `MC_CourseProgress` | 2 handlers, 4 requests, 2 chapters, 4 items or assignments, 2 rows, 2 certificates, failures | `CertificatesRight`, `RowsUnique`; `ViewsAgree` of `ProgressViews` in every state this reaches |
| `inbox_resets` | `MC_PasswordResets` | 5 kinds of account, 2 handlers, 3 requests, 2 notifications, a failure or restart | `ResetsTypeOK`, `ShownExplained`, `RefusalsExplained`, `RequestsHandled` |
| `accounts_races` | `MC_SchoolAccounts` | 2 schools, 2 accounts, 2 codes of limit 0, 1 or none, a grade named once or twice, 2 handlers, 3 requests (2 and a failure) | `TypeOK`, `AccountsWhole`, `DeletedSchoolsEmpty`, `LimitsHeld`, `SchoolsWhole` |
| `staffing_races` | `MC_Staffing` | 2 bookings and 2 edits at a time, 3 requests in all, 2 classes, 2 teachers, 2 schools with a section each, a period and a room, failures | `DoubleBookingsOverlapped`, `EditsKept`, `OneTeacherPerSection`, `TeachersWhole` |
| `sessions_rotation` | `MC_AuthSessions` | 1 account, 1 handler, 3 pairs | the violation described under [findings](#findings) |

**Why the bounds are enough to be interesting.** Each race named above takes two handlers; where a third one
could fall between two that conflict, three are run (retakes, enrolment, leaves, versions). Sessions, progress,
bookings and edits of teachers are run with two, because what a third one could do is proved. For inboxes and
for schools two handlers at a time and three one after the other contain a change begun before and
ended after another one; a school of before and one being created contain a move from one to the other, and a
deletion under a registration. A request slot is used again when its handler
has ended, so that two slots and four requests contain a certificate issued, revoked while its file is
drawn, and issued again. Two leaves over two days contain
overlap, containment and disjointness. The edits explored for a course are a whole new one, one that
adds a chapter, and one that is refused half-way because an item names a chapter it does not bring.
Three attempts are the original, a retake, and one more than a
limit of 1 allows. One student and one course are enough for enrolment because every property of that
module is about a pair, and no action relates two students or two courses except `createMany`, which
writes them independently; likewise one account for its inbox and its reset requests. The accounts of
`inbox_resets` are a student, a school administrator and a teacher of no school, of one and of two, which are the
cases the rules of `TenantScope` tell apart. The old school of `accounts_races` may have an
administrator, or a code nobody has used, to begin with, so that three requests contain two registrations with
a code and a change of it between them: one student uncounted, a limit of 1 given, and another one counted.
Accounts, handlers, tokens, leaves and periods are interchangeable and declared
symmetric, except in the liveness run, where symmetry would be unsound.

**Fairness.** Only `EventuallyFresh` needs any: the event loop continues a handler whose database call has
returned (weak fairness of each handler's next step), and the clock reaches the expiry of the cache (weak
fairness of `Expire`). Nothing assumes that a user makes a request.

## What is proved

TLAPS checks, for every value of the constants (any number of accounts, handlers and tokens; of
students, attempts, scores, writes and teacher requests; any limits; of notifications and reset requests of any kind
of account; of courses, grades, chapters, items, editions, editors
and rows; of days, periods and leaves; of schools, accounts, joining codes, teachers, classes and bookings; with
every event enabled):

| Theorem | Module | States |
|---|---|---|
| `TypeCorrect` | `SessionsAndResets_proofs` | `Spec => []TypeOK` |
| `SessionsNeverFork` | `SessionsAndResets_proofs` | `Spec => []NoSessionFork` |
| `OldSessionsAreExplained` | `SessionsAndResets_proofs` | `Spec => []OldSessionsExplained` |
| `LogoutEndsSessions` | `SessionsAndResets_proofs` | `Spec => []LogoutAllRevokes` |
| `RefusedTokensStayRefused` | `SessionsAndResets_proofs` | `Spec => RefusedForever` |
| `SessionsImplementRegistry` | `SessionsAndResets_proofs` | `Spec => ImplementsRegistry` |
| `ResetsTyped` | `SessionsAndResets_proofs` | `ResetsSpec => []ResetsTypeOK` |
| `ShownIsExplained` | `SessionsAndResets_proofs` | `ResetsSpec => []ShownExplained` |
| `RefusalsAreExplained` | `SessionsAndResets_proofs` | `ResetsSpec => []RefusalsExplained` |
| `RequestsAreHandled` | `SessionsAndResets_proofs` | `ResetsSpec => []RequestsHandled` |
| `TypeCorrect` | `Assignments_proofs` | `Spec => []TypeOK` |
| `AttemptsAreBounded` | `Assignments_proofs` | `Spec => []AttemptsBounded` |
| `ClosesShutRetakes` | `Assignments_proofs` | `Spec => []CloseShutsRetakes` |
| `SpentGrantsAreConsumed` | `Assignments_proofs` | `Spec => []SpentGrantsConsumed` |
| `ScoresTyped` | `Assignments_proofs` | `ScoreSpec => []ScoreTypeOK` |
| `StoredScoresExplained` | `Assignments_proofs` | `ScoreSpec => []StoredExplained` |
| `SummariesExplained` | `Assignments_proofs` | `ScoreSpec => []SummaryExplained` |
| `CachedRankingExplained` | `Assignments_proofs` | `ScoreSpec => []CacheExplained` |
| `TypeCorrect` | `CourseProgress_proofs` | `Spec => []TypeOK` |
| `CertificatesAreRight` | `CourseProgress_proofs` | `Spec => []CertificatesRight` |
| `RowsAreUnique` | `CourseProgress_proofs` | `Spec => []RowsUnique` |
| `ViewsDoAgree` | `CourseProgress_proofs` | `Spec => []ViewsAgree` |
| `TypeCorrect` | `CourseVersions_proofs` | `Spec => []TypeOK` |
| `VersionsAreNumbered` | `CourseVersions_proofs` | `Spec => []VersionsNumbered` |
| `EditsDoTakeEffect` | `CourseVersions_proofs` | `Spec => []EditsTakeEffect` |
| `VersionsDoRecordEdits` | `CourseVersions_proofs` | `Spec => []VersionsRecordEdits` |
| `TypeCorrect` | `TeacherSections_proofs` | `Spec => []TypeOK` |
| `DoubleBookingsAreOverlaps` | `TeacherSections_proofs` | `Spec => []DoubleBookingsOverlapped` |
| `SecondTeachersAreOverlaps` | `TeacherSections_proofs` | `Spec => []OneTeacherPerSection` |
| `TeachersAreWhole` | `TeacherSections_proofs` | `Spec => []TeachersWhole` |
| `EditsAreKept` | `TeacherSections_proofs` | `Spec => EditsKept` |
| `TypeCorrect` | `Enrollment_proofs` | `Spec => []TypeOK` |
| `NoneIsMissed` | `Enrollment_proofs` | `Spec => []NoMissedEnrollment` |
| `EnrolledIsJustified` | `Enrollment_proofs` | `Spec => []EnrollmentsJustified` |
| `TypeCorrect` | `LeavesAttendance_proofs` | `Spec => []TypeOK` |
| `LeaveDaysAreRight` | `LeavesAttendance_proofs` | `Spec => []LeaveDaysRight` |
| `PresentDaysAreRight` | `LeavesAttendance_proofs` | `Spec => []PresentDaysRight` |
| `FiguresDoAgree` | `LeavesAttendance_proofs` | `Spec => []FiguresAgree` |
| `PresentIsKept` | `LeavesAttendance_proofs` | `Spec => PresentKept` |
| `TypeCorrect` | `SchoolAccounts_proofs` | `Spec => []TypeOK` |
| `AccountsAreWhole` | `SchoolAccounts_proofs` | `Spec => []AccountsWhole` |
| `DeletedSchoolsAreEmpty` | `SchoolAccounts_proofs` | `Spec => []DeletedSchoolsEmpty` |
| `LimitsAreHeld` | `SchoolAccounts_proofs` | `Spec => []LimitsHeld` |
| `SchoolsAreWhole` | `SchoolAccounts_proofs` | `Spec => []SchoolsWhole` |

The only assumptions are those the modules make of their constants: `ConstantsOK` of `AuthSessions`, `RetakesOK`
of `RetakeAttempts`, `ScoresOK` of `ScorePipeline`, `ProgressOK` of `CourseProgress`, `VersionsOK` of `CourseVersions`, `TimetableBounds` of
`Timetable`, `SectionsBounds` of `TeacherSections` (the schools are finitely many), `EnrollmentOK` of `Enrollment`,
`LeavesOK` of `LeavesAttendance`, `SchoolBounds` of `SchoolAccounts`, `ContextsDiffer` of `TenantScope`,
`InboxBounds` of `Inbox` and `ResetBounds` of `PasswordResets`. They say what kind of values
the constants are, and TLC evaluates them on every run of those modules. `SchoolBounds` also says that there is room
for one school: the module starts with one, and `TypeCorrect` is false without it.

*Sessions.* None of the properties is inductive. `NoSessionFork` needs `SlotsRooted` (what a row or a
request says of its session agrees with the pair it came from): then `RefreshDelete`, the only step that
lets a refresh go on, removes the one row of the session, and a second refresh of it finds the row gone.
`OldSessionsExplained` needs `StoringExplained` (a handler about to insert a row carries the current
password, or was overtaken, or a revocation is owed): a password write makes every row old at once and at
the same time makes a revocation owed; `DeleteAllRows` pays the debt and marks what is still in flight.
`LogoutAllRevokes` needs the order of versions (`VersionsBehind`) and, for handlers in flight,
`StoringAfterLogout`. `RefusedForever` follows from versions that never decrease. For the refinement, a
login's store opens a session, a refresh moves it from a row to a request and back, and whatever removes
rows closes sessions of one account: `NoSessionFork` is what makes the deletion of a row the closing of a
session of that account only, and `SlotsRooted` what makes a rotation a stutter.

*Retakes.* A submission stores a number it computed two calls earlier. The first part of `AttemptsBounded`,
`AttemptsNumbered`, holds because the number is at most one more than the student's rows (`NextBounded`: it
was one more when they were counted, and rows are only added) and the unique key refuses every smaller one.
The second, `WithinCapacity`, needs that what a handler has read of the limit was in force at some time
(`ReadsWithin`), and that a handler at its insert has passed the check with the number it carries
(`ChecksPassed`); with `NextBounded`, a stored retake is then within the limit it read. `CloseShutsRetakes`
speaks of what a handler that is long gone left behind: while the close is at work, no other teacher request
is (`CloseAlone`); once it is over, and until the next one, the window is shut, no grant is active, and a
submission it did not overtake has read exactly those settings and found no grant (`ShutHolds`), so that the
check refuses it.

*Scores.* A value is read, computed and stored by different calls, three times over: the score, the summary made of
the scores, the ranking made of the submissions. `ScoreInv` says of each what a handler carries: it is that of the
source as it is now, or the handler is marked late, as the value it stores will be (`JobSound`, `ClassSound`,
`RankSound`). The properties as stated are not inductive, since in them any handler with work left explains a wrong
value: `Explained` names the student that a handler still recomputes, or has still to write a summary for. What makes
the summary follow the scores is `Planned`: while a handler has a score to recompute it has the summary still on its
plan, unless it is of the kind that computes none. The scores and the ranks are in the declared sets because
the largest of finitely many numbers is one of them (`Largest`); tlapm has no induction rule that would apply here,
and the lemma takes the least length for which it fails, which is a fact about a set of numbers and not about an
operator.

*Progress.* The first part of `CertificatesRight`, `CertificateEarned`, needs what a handler knows that no edit has
excused (`ChecksHold`): while it has reads left, the chapters and items it has read are still those of the course;
when it has none left, its items are finitely many, each in a chapter it read; and its rows were judged against
those items. The rounding is one lemma, `PercentAtLeast80`: for all numbers of items, the rounded percentage is at
least 80 exactly when 200 times the done ones are at least 159 times all. `FileNamesCertificate` is that ids are
never used again, so that the late file of a revoked certificate finds no row; `PendingOwned`, that the handler
that creates a certificate holds its id until it stores the file. `RowsUnique` needs `SavesNew` (a handler that is
to create a row found none of its key among those it saw) and the unique key for what was inserted since.
`ViewsAgree` needs no more of the handlers than `TypeOK`: that every item is in a chapter of the course and no two
items or assignments have one id. The argument is that of cardinalities: all chapters completed, with at least one item in the course,
makes every item count.

*Course versions.* The number of a version is read, and inserted by a later call. `NumbersKnown` says that a number
read is at most one more than the versions stored, which are only added while the course exists; the unique key
refuses all that are not more than what is stored; what is left is the next number. The course is created once and
deleted once, so the versions of a deleted course never meet a new one's.

*Edits of a course.* An edit is a set of calls still to be made, in phases, and the course in between is neither
the old one nor the new one. `Plan` says which calls are still to be made when others are (an access row is not
created before the old ones are cleared; an item not before those of its chapter are wiped). `Made` says what
the course is after the calls made so far, for a handler that no other's write has disturbed: rules granted so
far, chapters upserted so far, and of each kind of item as many as were asked for less those still to be
created, which is a matter of cardinalities (`ItemsLeft`). When no writing call is left, `Made` says that the course
is the goal (`MadeWhole`). A version is read back in several queries, all after the last write, so that what an
undisturbed handler has read of the course is the goal as well (`Snapped`).

*Staffing.* Three of the theorems are about a read that decides a write made later. `PastCheck` says that a booking
which has passed its check can only clash with classes that were written since, and that those or the booking
are marked `raced`; writing it then adds no other clash. In `TeacherSections` an edit remembers which sections it has
found free (`checked`) and which were given to somebody meanwhile (`passed`): `Known` says that of those it
found free, all that others have now are among the ones given meanwhile, and `EditOK` that an edit about to
assign has checked all it is to assign. `TeachersWhole` is about an edit that no other edit of the teacher
overlapped: `Kept` says, call by call, in which schools it has still to drop sections or the link, and which links
it has made, so that a section is never given in a school whose link is gone for good; `RowsKept`, that rows and
links are those of teachers that are there, and that the account's school is among them once no edit is at work.
`EditsKept` needs `AsRead`: what a booking does not ask to change is as it was read, unless somebody wrote since.

*Enrolment.* Who may see a course and who sits in a school are read by two kinds of handler, one enrolling the
students of a course, the other the courses of a student. What makes a pair never missed is that each side writes
before it reads: whoever comes second reads what the first has written, and `Covering` says which handler that is:
one that has read the grades of a course goes on to enrol every student who was due in it, and one that has read
the student goes on to every course that was due. `Covers`, with which the property is stated, is not inductive: it
asks whether the handler's next query will find the pair, which another handler may change; `Covering` has no such
question left in it. An import reads the courses before its students are visible to anybody (`ImportRead`), and is
late for a course published meanwhile: the exception that the property names. `EnrollmentsJustified` needs `Reads`,
that what a handler has read is still so, but of courses or students that were changed under it.

*Attendance.* A leave is approved by one handler in two writes, or day by day in many. `LeaveDaysRight` needs `Firm`: a
handler past its read will mark a day that has no row yet, whatever rows others make of it, unless one of them
slips in where the property says so. `Backed` is the other direction: a mark belongs to a leave that is approved,
withdrawn, or about to be reset, and so does every handler about to mark. `PresentDaysRight` is again that a report
is written before the reports are counted, so that of two that complete a day together the later one sees the
other's (`Presented`); `Earned` is what a count has found, for a timetable the day has had. `FiguresAgree` follows from
these two without any more of the handlers: on a settled day they leave only the rows on which the five rules agree.
`PresentKept` is proved of every step.

*Schools and accounts.* `Knows` says what a handler holds in each of its phases: without it the rows it writes to
might not be there. `DeletedSchoolsEmpty` needs `Emptying`: who is in a school being deleted came after the deletion
had read its list, or is on the list. `AccountsWhole` needs to say how whole an account is while its only handler is at
work on it (`Serves`: link after the row, profile after the link, and of a move whichever of the two writes is done);
two handlers at one account excuse it. `LimitsHeld` is a count read before it is written: the only user of a code has
read what the code counts, which is who it admitted but for `free`, below the limit, twice, and `Uses` says for each phase what it has added to the one or the
other number; at any second user the code is excused. For `SchoolsWhole`, `StructureKept` says that no grade has a
code before the school has its grades, that the codes made and those still to be made by the handler are as many as
the grade was named, and that of two handlers creating codes at a time the school is marked `doubled`; `CreationKept`, how far a creation is that nothing has spoilt.

*Inbox.* A count is made by one call and emitted by a later one, and any number of handlers count at a time.
`ShownExplained` speaks of the moment when nobody is counting; what holds until then is `Fresh`: a count about to be
emitted that is not that of the rows is older than one already emitted, or there is a handler that has still to
count, or one with a newer count. It is kept because every write puts its own handler before its count, a count
taken knows all changes so far (`EmitsRight`), and an emission that leaves the screen wrong is one of those the
property excuses. `RefusalsExplained` needs `Within`: each handler runs unscoped or in a context its account may
have. Then a refused query names a school that the context is not, and if the account had no school but its own
there would be none. It holds for accounts of any number of schools, and of a tenant among them or not.

*Reset requests.* `RequestsHandled` is proved from `Inv`, whose part `RowKept` says, of a request that was not
decided by two handlers at once and at which none failed, how far its only handler has brought it (`Decides`: before
its password call nothing is set, before the deletion of the sessions the password, before the status both), or, when
it has none, that it is untouched, deleted before its status was written, or done and announced once (`Rests`). A second decider finds the request pending and marks it
contested in the same step, which is why the exceptions suffice. That the password is that of an approved request
needs the other part of `RowsKept`: the request whose password the account has is one that says so. Two pending requests overlapped
because of `SeenKept`: what a form found decided or deleted stays so, as no call makes a request pending again.
`RoutesKept` is that a route, once stored, is that of the account's role and the request's school.

Only model-checked: `EventuallyFresh`, as liveness under fairness is outside what TLAPS proves, and the refuted
property. Every other property of a passing run is a theorem.

## Findings

`sessions_rotation` ends with a counterexample to a line of the source: "Rotation: delete the matched refresh
token hash" (`auth/auth.service.ts:455`). With two sessions of an account, a refresh may delete the other
one's row, because bcrypt compares the first 72 bytes of a token only, and those are the same for all tokens
of an account.

The exceptions in the invariants are worth reading too: each is something that does happen, and each names
the one way in which it does. A session may outlive a password change when a login or refresh overlapped it
(`OldSessionsExplained`); a ranking computed from old rows may be stored after the cache was dropped
(`CacheExplained`); a course published while an import has not committed is not given to its students
(`NoMissedEnrollment`); `markMissing()` may leave a day of an approved leave Unreported
(`LeaveDaysRight`); a teacher of a school beyond the account's own is refused a change that was
stored (`RefusalsExplained`).

What else was noticed in the code while it was modelled, and is part of the models where they reach it:

* *Comments the code departs from.* "Rejected: do not force status; leave as-is"
  (`admin/leaves/leaves.service.ts:118`): the other rejection (line 191) sets the days of the range to Unreported.
  "full course state for revert" (`prisma/schema.prisma:278`): the snapshot has one list of grades for all schools, and
  a revert gives each school all of them. "A chapter is completed if explicitly marked OR if all its contents are
  completed" (`student/extra/student-extra.controller.ts:651`): marking a chapter may find the row of one of its items,
  as line 1769 does not look at `contentId`, and updates that one.
* *Sockets.* A student's, teacher's or school administrator's connection is refused unless statistics of the
  account are in the cache, because the gateway asks the database for them outside any tenant
  (`common/realtime/realtime.gateway.ts:445`, `database/database.service.ts:121`). `invalidateStatsCache` is never called.
  Broadcasts push no unread count. An administrator's badge and the count emitted are different sums.
* *Reset requests.* A teacher's is announced to the administrators of the school and neither counted nor listed
  for them. Nothing stores a reset token, so `verifyResetToken()` and `completePasswordReset()` find none.
* *Registration.* A single-use code without `maxUses` admits any number; the second read of the code does not
  look at the limit again; a registration that fails half way leaves an account that makes the retry be
  refused; a refused creation of a school leaves a tenant whose domain does the same.
* *Teachers.* An edit with no schools in it leaves the account at its old one. Two overlapping edits may leave
  sections in a school the teacher is no longer linked to, which no later edit drops and which are taken for
  others. Deleting a period leaves its classes, so that a day needs a report for a period that the teacher's
  page no longer lists. Inactive classes still conflict.
* *Attendance.* The teacher's month counts an Unreported row on a day of approved leave twice, so that the
  percentage may exceed 100; the administrator's does not. Compensatory entries that began in an earlier month
  are missed (`teacher/attendance`). A day without a row is called leave for any leave that covers it, a
  rejected one too.

## What is not modelled

* In the modelled components: cookies; what a request body may contain beyond the fields the properties depend on;
  reading endpoints but those of `ProgressViews` and `AttendanceViews`; whom each kind of sender is offered as
  recipients of a notification, and whom a group reaches (eight rules in four controllers, each a query); e-mails; subjects of a score;
  `duplicate()`, titles and thumbnails of a course; the template and the drawing of a certificate; dates of
  expiry of codes; rooms and periods as texts, `sync-to-teachers`; replies to notifications; weekends, the
  working days of the calendar and the several schools of a teacher in attendance; the rewriting of `where`
  clauses and the header checks of tenant scoping (rows of another school match nothing); the figures inside
  the statistics. Prisma's retry and transaction isolation are as the code uses them: no explicit isolation
  level, so a transaction is only a set of writes that become visible, or vanish, together.
* The connection pool under imports, each of which holds one connection and waits for another
  (`database/database.service.ts:32`): how the wait ends is decided by the driver.
* Whole components: licences and the school calendar (rows written whole by one call each, with cryptography or
  dates around them), the rest of dashboards, statistics and profiles (reads and single-row edits), community
  pages, uploads and logos (storage), monitoring and throttling (bounded buffers that no handler reads back),
  bootstrap, seed and wiring, generated code and migrations.

## Plan

Done, in this order: `SessionRegistry`, `AuthSessions`, `AuthSessionsRegistry` and their proofs;
`RetakeAttempts` and its proofs; `ScorePipeline`; `Enrollment`; `LeavesAttendance`; `CourseVersions`;
`CourseProgress`, `ProgressViews` and their proofs; `TenantScope`, `Inbox`, `PasswordResets`;
`SchoolAccounts`; `Timetable`, `TeacherSections` and their proofs; `AttendanceViews`; the proofs of
`CourseVersions`, of `Enrollment`, of `LeavesAttendance` with `AttendanceViews`, of `SchoolAccounts`; of
`ScorePipeline`, which are in one module with those of `RetakeAttempts`; and of `Inbox` and `PasswordResets`, which
are in one with those of `AuthSessions`.

What is left:

1. Licences and the calendar as functions on days, checked against a reference definition.
2. The views that average raw rows (`admin/extra`, `school-admin/extra` from line 1587 on), compared with those of
   `ProgressViews`; and `StudentCourse.completedAt`, "Single source of truth for course completion"
   (`prisma/schema.prisma:489`), which nothing under `src/` writes.
3. Several schools of one teacher in attendance, and the working days they have.
