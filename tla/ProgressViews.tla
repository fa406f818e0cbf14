--------------------------- MODULE ProgressViews ---------------------------
(***************************************************************************)
(* What the application says of a student's progress in one course: the    *)
(* student's list of courses, its page of chapters and dashboard, the      *)
(* reports of teachers and school admins, and the certificate.  Each       *)
(* endpoint works it out again from chapters, items and progress rows, by  *)
(* its own copy of the rules; the page of chapters alone counts            *)
(* assignments.  The rows are whatever the handlers of CourseProgress      *)
(* leave: rows of items that are gone, chapters emptied by an edit, and so *)
(* on.  A view is of one moment, and the item of a row is an id or null:   *)
(* the strings 'null' and 'undefined', which some of the endpoints take    *)
(* for null, are left out.                                                 *)
(***************************************************************************)
EXTENDS CourseProgress

ItemsIn(c) == {x \in items : x.chapter = c}

\* The percentage of the items that are done; of none, all or nothing.
PercentOf(done, allOfNothing) ==
    IF items # {} THEN Percent(Cardinality(done), Cardinality(items))
    ELSE IF allOfNothing THEN 100
    ELSE 0

AnyRowDone == \E i \in DOMAIN rows : rows[i].done

-----------------------------------------------------------------------------
\* The student's list of courses: StudentExtraController.listCourses().

\* Faulty variant of ListDone: the mark of a chapter does not count.
ListDoneOwn == {x \in items : x.id \in ItemsDone(rows)}

\* "its own record says so, OR ... its parent chapter is marked completed".
ListDone == Counted(items, rows)

\* An empty chapter is completed only by its mark.
ListChapterCompleted(c) ==
    \/ ItemsIn(c) # {} /\ {x.id : x \in ItemsIn(c)} \subseteq ItemsDone(rows)
    \/ c \in ChaptersDone(rows)

ListCompleted == chapters # {} /\ \A c \in chapters : ListChapterCompleted(c)

\* "Force 100% if status is completed for UI consistency".
ListPercent == IF ListCompleted THEN 100 ELSE PercentOf(ListDone, AnyRowDone)

-----------------------------------------------------------------------------
\* The chapters of the course: StudentExtraController.listCourseChapters().

\* The page calls items what the chapter's contents and assignments are.
AssignmentsIn(c) == {x \in assignments : x.chapter = c}
AllItemsIn(c) == ItemsIn(c) \cup AssignmentsIn(c)

\* "explicitly marked OR if all its contents are completed"
\* (student-extra.controller.ts:651), of which the assignments are part.
ChapterComplete(c) ==
    \/ c \in ChaptersDone(rows)
    \/ AllItemsIn(c) # {} /\ {x.id : x \in AllItemsIn(c)} \subseteq ItemsDone(rows)

\* The items and assignments its counts show as done, chapter by chapter.
ChapterPageDone ==
    {x \in items \cup assignments : ChapterComplete(x.chapter) \/ x.id \in ItemsDone(rows)}

-----------------------------------------------------------------------------
\* The reports of a teacher and of a school admin: getStudentProgress().

TeacherPercent == PercentOf(Counted(items, rows), AnyRowDone)

SchoolAdminPercent == PercentOf(Counted(items, rows), AnyRowDone)

-----------------------------------------------------------------------------
\* The student's dashboard: StudentDashboardService.get().

\* Marks of chapters that are gone are among them.
DashboardMarks == ChaptersDone(rows)

\* A course without chapters is passed over.
DashboardCompleted ==
    /\ chapters # {}
    /\ PercentOf({x \in items : x.id \in ItemsDone(rows) \/ x.chapter \in DashboardMarks},
                 Cardinality(DashboardMarks) >= Cardinality(chapters)) >= 100

-----------------------------------------------------------------------------
\* "Content-item based progress (matches student's own view)"
\* (teacher-extra.controller.ts:729, school-admin-extra.controller.ts:1308):
\* teacher, school admin and student see one percentage, though the student's
\* is set to 100 by the completion of chapters, and an edit may have emptied
\* chapters or left rows of items that are gone.
ReportsMatchOwnView ==
    TeacherPercent = ListPercent /\ SchoolAdminPercent = ListPercent

\* "Use the same hybrid logic as the courses list"
\* (student-extra.controller.ts:1517): a certificate is granted exactly when
\* the list shows 80 % or more, though the one looks for marks of all chapters
\* and the other for completed chapters.
CertificateMatchesList == Eligible(chapters, items, rows) <=> ListPercent >= 80

\* A course that the student's list calls completed is completed on the
\* dashboard; the dashboard counts more only for an empty chapter without a
\* mark, or by rounding (dashboard.service.ts:146-163).
DashboardMatchesList ==
    /\ ListCompleted => DashboardCompleted
    /\ DashboardCompleted /\ ~ListCompleted =>
         \/ \E c \in chapters : ItemsIn(c) = {} /\ c \notin ChaptersDone(rows)
         \/ ListDone # items /\ ListPercent = 100

\* The page of a course shows as done the contents that the list counts, though
\* the page counts a marked chapter whole and the list item by item
\* (student-extra.controller.ts:502, 651-660).  A chapter is completed on one of
\* them and not on the other only without a mark and for its assignments, which
\* the list does not know: one that has not been done keeps the chapter from
\* completion on the page alone, and assignments that have all been done complete
\* there alone a chapter that has nothing else.
PageMatchesList ==
    /\ ChapterPageDone \cap items = ListDone
    /\ \A c \in chapters :
         /\ ListChapterCompleted(c) /\ ~ChapterComplete(c) =>
              \E x \in AssignmentsIn(c) : x.id \notin ItemsDone(rows)
         /\ ChapterComplete(c) /\ ~ListChapterCompleted(c) =>
              ItemsIn(c) = {} /\ AssignmentsIn(c) # {}

\* The six endpoints that say how far a student is agree with the student's
\* own list on every set of rows the handlers can leave, but for what a chapter's
\* assignments, an empty chapter or rounding make of it.
ViewsAgree ==
    /\ ReportsMatchOwnView
    /\ PageMatchesList
    /\ CertificateMatchesList
    /\ DashboardMatchesList
=============================================================================
