--------------------------- MODULE CourseProgress ---------------------------
(***************************************************************************)
(* One student's progress in one course and the certificate for it: the    *)
(* student saves progress and asks for the certificate, administrators     *)
(* issue, regenerate and revoke it (src/student/extra/                     *)
(* student-extra.controller.ts, src/admin/extra/admin-extra.controller.ts) *)
(* while an editor replaces the items the progress is about, as in         *)
(* CourseVersions.                                                         *)
(*                                                                         *)
(* Every edit deletes the assignments and items of the chapters it names   *)
(* and creates them again under new ids; progress rows refer to both by    *)
(* id, and no foreign key holds them.  The progress of a row is 0 to 100:  *)
(* done says that it is at least 99, which is also when the row has a      *)
(* completion date.  The student is enrolled throughout; an assignment     *)
(* that a teacher adds to a chapter or deletes is left out.  The fields    *)
(* seen, excused, earned and lost are history.                             *)
(***************************************************************************)
EXTENDS Naturals, Sequences, FiniteSets

CONSTANTS
    Requests,       \* request slots: how many handlers may run at once
    ChapterIds,
    NoChapter,      \* chapterId = null
    Editions,       \* bound: contents of the course explored
    Keys,           \* bound: the (chapter, item) keys progress is saved under
    MaxItems,       \* bound: items and assignments ever created
    MaxRows,        \* bound: progress rows
    MaxIssued,      \* bound: certificates ever created
    MaxRequests,    \* bound: requests explored
    Events          \* bound: which events of the environment are explored

\* contentId = null: items and assignments are numbered from 1.
NoItem == 0

ASSUME ProgressOK ==
    /\ NoChapter \notin ChapterIds
    /\ \A e \in Editions :
         /\ DOMAIN e \subseteq ChapterIds
         /\ e \in [DOMAIN e -> [items : Nat, assignments : Nat]]
    /\ Keys \subseteq (ChapterIds \cup {NoChapter}) \X Nat
    /\ {MaxItems, MaxRows, MaxIssued, MaxRequests} \subseteq Nat
    /\ Events \subseteq {"fail"}

VARIABLES
    chapters,       \* the Chapter rows of the course
    items,          \* its ChapterContent rows
    assignments,    \* its Assignment rows
    made,           \* items and assignments ever created: their ids are 1..made
    rows,           \* the student's CourseProgress rows, as inserted
    certificate,    \* the StudentCertificate row of student and course, if any
    issued,         \* certificates ever created: their ids are 1..issued
    req,            \* what each request slot is doing
    started         \* bound: requests so far

vars == <<chapters, items, assignments, made, rows, certificate, issued, req, started>>

Item == [id : 1..MaxItems, chapter : ChapterIds]

ProgressRow ==
    [chapter : ChapterIds \cup {NoChapter}, item : Nat, done : BOOLEAN, seen : 0..MaxRows]

None == [id |-> 0]

\* file = 0 is 'pending'; otherwise it is the id printed on the certificate.
Certificate ==
    {None} \cup [id : 1..MaxIssued, file : 0..MaxIssued, by : {"student", "admin"},
                 earned : BOOLEAN, lost : BOOLEAN]

Idle == [at |-> "idle"]

SaveKinds == {"simple", "chapter", "viewed"}

Reads == {"chapters", "items", "rows"}

Request ==
    {Idle}
      \cup [at : {"save"}, kind : SaveKinds, key : Keys, done : BOOLEAN,
            found : 0..MaxRows, seen : 0..MaxRows]
      \cup [at : {"eligible"}, left : SUBSET Reads, chapters : SUBSET ChapterIds,
            items : SUBSET Item, rows : Seq(ProgressRow), excused : BOOLEAN,
            earned : BOOLEAN]
      \cup [at : {"create"}, by : {"student", "admin"}, earned : BOOLEAN]
      \cup [at : {"file", "revoke"}, id : 1..MaxIssued]
      \cup [at : {"edit"}, edition : Editions, known : SUBSET ChapterIds,
            upserts : SUBSET ChapterIds, drop : BOOLEAN, clears : SUBSET ChapterIds,
            wipes : SUBSET ChapterIds, creates : [ChapterIds -> Nat],
            gives : [ChapterIds -> Nat]]

-----------------------------------------------------------------------------
\* What the rows say.

ItemsDone(read) == {read[i].item : i \in {j \in DOMAIN read : read[j].done}} \ {NoItem}

ChaptersDone(read) ==
    {read[i].chapter :
       i \in {j \in DOMAIN read : read[j].done /\ read[j].item = NoItem}} \ {NoChapter}

\* An item counts by its own row or by that of its chapter.
Counted(readItems, read) ==
    {x \in readItems : x.id \in ItemsDone(read) \/ x.chapter \in ChaptersDone(read)}

\* Math.round(done / total * 100).
Percent(done, total) == (200 * done + total) \div (2 * total)

\* Faulty variant of AllChaptersDone: one chapter will do.
AllChaptersDoneAny(readChapters, read) == readChapters \cap ChaptersDone(read) # {}

AllChaptersDone(readChapters, read) ==
    readChapters # {} /\ readChapters \subseteq ChaptersDone(read)

Eligible(readChapters, readItems, read) ==
    \/ AllChaptersDone(readChapters, read)
    \/ readItems # {} /\ Percent(Cardinality(Counted(readItems, read)),
                                 Cardinality(readItems)) >= 80
    \/ readItems = {} /\ \E i \in DOMAIN read : read[i].done

\* Whether four fifths of what there is are completed, or the half percent
\* less that rounding forgives; of nothing, anything.
EarnedBy(readItems, read) ==
    \/ readItems = {} /\ \E i \in DOMAIN read : read[i].done
    \/ /\ readItems # {}
       /\ 200 * Cardinality(Counted(readItems, read)) >= 159 * Cardinality(readItems)

Earned == EarnedBy(items, rows)

Key(row) == <<row.chapter, row.item>>

\* The first edition is in place; of its items and assignments, some have been
\* completed.
Init ==
    \E e \in Editions, n, m \in 0..MaxItems : \E place \in [1..m -> DOMAIN e] :
        /\ n <= m
        /\ \A c \in DOMAIN e :
             /\ Cardinality({i \in 1..n : place[i] = c}) = e[c].items
             /\ Cardinality({i \in (n + 1)..m : place[i] = c}) = e[c].assignments
        /\ chapters = DOMAIN e
        /\ items = {[id |-> i, chapter |-> place[i]] : i \in 1..n}
        /\ assignments = {[id |-> i, chapter |-> place[i]] : i \in (n + 1)..m}
        /\ made = m
        /\ \E k \in 0..m :
             /\ k <= MaxRows
             /\ rows = [i \in 1..k |-> [chapter |-> place[i], item |-> i, done |-> TRUE,
                                        seen |-> 0]]
        /\ certificate = None
        /\ issued = 0
        /\ req = [r \in Requests |-> Idle]
        /\ started = 0

Starts(r, request) ==
    /\ req[r] = Idle
    /\ started < MaxRequests
    /\ started' = started + 1
    /\ req' = [req EXCEPT ![r] = request]

-----------------------------------------------------------------------------
\* Saving progress: a row is found, then updated by its id or created.

\* saveChapterProgress() looks for a row of the chapter, whatever its item.
Matches(kind, key, row) ==
    row.chapter = key[1] /\ (kind = "chapter" \/ row.item = key[2])

SaveFind(r, kind, key, done) ==
    LET found == {i \in DOMAIN rows : Matches(kind, key, rows[i])} IN
    /\ kind = "chapter" => key[2] = NoItem
    /\ kind = "viewed" => ~done
    /\ \E i \in IF found = {} THEN {0} ELSE found :
         Starts(r, [at |-> "save", kind |-> kind, key |-> key, done |-> done,
                    found |-> i, seen |-> Len(rows)])
    /\ UNCHANGED <<chapters, items, assignments, made, rows, certificate, issued>>

\* Viewing touches the date of the row alone.
SaveUpdate(r) ==
    LET q == req[r] IN
    /\ q.at = "save"
    /\ q.found > 0
    /\ rows' = IF q.kind = "viewed" THEN rows ELSE [rows EXCEPT ![q.found].done = q.done]
    /\ req' = [req EXCEPT ![r] = Idle]
    /\ UNCHANGED <<chapters, items, assignments, made, certificate, issued, started>>

\* Faulty variant of Refuses: the key is not unique.
RefusesNone(key) == FALSE

\* The unique key (student, course, chapter, item): nulls are never equal.
Refuses(key) ==
    /\ key[1] # NoChapter
    /\ key[2] # NoItem
    /\ \E i \in DOMAIN rows : Key(rows[i]) = key

SaveCreate(r) ==
    LET q == req[r]
        row == [chapter |-> q.key[1], item |-> q.key[2], done |-> q.done,
                seen |-> q.seen]
    IN
    /\ q.at = "save"
    /\ q.found = 0
    /\ Len(rows) < MaxRows
    /\ rows' = IF Refuses(q.key) THEN rows ELSE Append(rows, row)
    /\ req' = [req EXCEPT ![r] = Idle]
    /\ UNCHANGED <<chapters, items, assignments, made, certificate, issued, started>>

-----------------------------------------------------------------------------
\* The certificate.

GenerateStart(r) ==
    /\ Starts(r, [at |-> "eligible", left |-> Reads, chapters |-> {}, items |-> {},
                  rows |-> <<>>, excused |-> FALSE, earned |-> FALSE])
    /\ UNCHANGED <<chapters, items, assignments, made, rows, certificate, issued>>

\* The reads of Promise.all arrive in any order.
GenerateRead(r, table) ==
    LET q == req[r] IN
    /\ q.at = "eligible"
    /\ table \in q.left
    /\ req' = [req EXCEPT ![r] =
         [q EXCEPT !.left = @ \ {table},
                   !.chapters = IF table = "chapters" THEN chapters ELSE @,
                   !.items = IF table = "items" THEN items ELSE @,
                   !.rows = IF table = "rows" THEN rows ELSE @,
                   !.earned = IF table = "rows" THEN Earned ELSE @]]
    /\ UNCHANGED <<chapters, items, assignments, made, rows, certificate, issued, started>>

\* The certificate there is is the answer; else a new one is due.  It is
\* earned, or excused by an edit.
GenerateFind(r) ==
    LET q == req[r] IN
    /\ q.at = "eligible"
    /\ q.left = {}
    /\ req' = [req EXCEPT ![r] =
         IF Eligible(q.chapters, q.items, q.rows) /\ certificate = None
         THEN [at |-> "create", by |-> "student", earned |-> q.earned \/ q.excused]
         ELSE Idle]
    /\ UNCHANGED <<chapters, items, assignments, made, rows, certificate, issued, started>>

\* batchGenerateCertificates() asks only whether there is one already.
BatchFind(r) ==
    /\ certificate = None
    /\ Starts(r, [at |-> "create", by |-> "admin", earned |-> FALSE])
    /\ UNCHANGED <<chapters, items, assignments, made, rows, certificate, issued>>

\* "Create first to get an ID we can embed"; the unique key (student, course)
\* refuses a second one.
CertificateCreate(r) ==
    /\ req[r].at = "create"
    /\ issued < MaxIssued
    /\ IF certificate = None
       THEN /\ issued' = issued + 1
            /\ certificate' = [id |-> issued + 1, file |-> 0, by |-> req[r].by,
                               earned |-> req[r].earned, lost |-> FALSE]
            /\ req' = [req EXCEPT ![r] = [at |-> "file", id |-> issued + 1]]
       ELSE /\ req' = [req EXCEPT ![r] = Idle]
            /\ UNCHANGED <<issued, certificate>>
    /\ UNCHANGED <<chapters, items, assignments, made, rows, started>>

\* The file is drawn and stored in the row of that id, which may be gone.
CertificateFile(r) ==
    /\ req[r].at = "file"
    /\ certificate' = IF certificate.id = req[r].id
                      THEN [certificate EXCEPT !.file = req[r].id] ELSE certificate
    /\ req' = [req EXCEPT ![r] = Idle]
    /\ UNCHANGED <<chapters, items, assignments, made, rows, issued, started>>

\* regenerateCertificate() and revokeCertificate() look the row up first.
AdminFind(r, what) ==
    /\ certificate # None
    /\ Starts(r, [at |-> what, id |-> certificate.id])
    /\ UNCHANGED <<chapters, items, assignments, made, rows, certificate, issued>>

Revoke(r) ==
    /\ req[r].at = "revoke"
    /\ certificate' = IF certificate.id = req[r].id THEN None ELSE certificate
    /\ req' = [req EXCEPT ![r] = Idle]
    /\ UNCHANGED <<chapters, items, assignments, made, rows, issued, started>>

-----------------------------------------------------------------------------
\* Editing the content: upsertChaptersWithContentAndAssignments().

Editing(r) == req[r].at = "edit"

EditFind(r, e) ==
    /\ Starts(r, [at |-> "edit", edition |-> e, known |-> chapters,
                  upserts |-> DOMAIN e, drop |-> TRUE, clears |-> DOMAIN e,
                  wipes |-> DOMAIN e,
                  creates |-> [c \in ChapterIds |->
                                 IF c \in DOMAIN e THEN e[c].items ELSE 0],
                  gives |-> [c \in ChapterIds |->
                               IF c \in DOMAIN e THEN e[c].assignments ELSE 0]])
    /\ UNCHANGED <<chapters, items, assignments, made, rows, certificate, issued>>

Over(q) ==
    /\ q.upserts = {} /\ ~q.drop /\ q.wipes = {}
    /\ \A c \in ChapterIds : q.creates[c] = 0 /\ q.gives[c] = 0

\* The edit goes on as q: eligibility checks between two of their reads have
\* seen two different courses.
EditGoes(r, q) ==
    /\ req' = [o \in Requests |->
                 IF o = r THEN IF Over(q) THEN Idle ELSE q
                 ELSE IF req[o].at = "eligible" /\ req[o].left \notin {Reads, {}}
                      THEN [req[o] EXCEPT !.excused = TRUE]
                      ELSE req[o]]

\* The edit goes on as q, after a call that no eligibility check reads.
EditStays(r, q) == req' = [req EXCEPT ![r] = IF Over(q) THEN Idle ELSE q]

EditUpsert(r, c) ==
    LET q == req[r]
        known == c \in q.known
    IN
    /\ Editing(r)
    /\ c \in q.upserts
    /\ IF known = (c \in chapters)
       THEN /\ chapters' = chapters \cup {c}
            /\ EditGoes(r, [q EXCEPT !.upserts = @ \ {c}])
       ELSE /\ req' = [req EXCEPT ![r] = Idle]
            /\ UNCHANGED chapters
    /\ UNCHANGED <<items, assignments, made, rows, certificate, issued, started>>

EditDrop(r) ==
    LET q == req[r]
        gone == q.known \ DOMAIN q.edition
    IN
    /\ Editing(r)
    /\ q.upserts = {}
    /\ q.drop
    /\ chapters' = chapters \ gone
    /\ items' = {x \in items : x.chapter \notin gone}
    /\ assignments' = {x \in assignments : x.chapter \notin gone}
    /\ EditGoes(r, [q EXCEPT !.drop = FALSE])
    /\ UNCHANGED <<made, rows, certificate, issued, started>>

\* Chapter by chapter, the assignments are deleted and then the items.
EditClear(r, c) ==
    LET q == req[r] IN
    /\ Editing(r)
    /\ q.upserts = {} /\ ~q.drop
    /\ q.clears = q.wipes
    /\ c \in q.clears
    /\ assignments' = {x \in assignments : x.chapter # c}
    /\ EditStays(r, [q EXCEPT !.clears = @ \ {c}])
    /\ UNCHANGED <<chapters, items, made, rows, certificate, issued, started>>

EditWipe(r, c) ==
    LET q == req[r] IN
    /\ Editing(r)
    /\ q.upserts = {} /\ ~q.drop
    /\ c \in q.wipes \ q.clears
    /\ items' = {x \in items : x.chapter # c}
    /\ EditGoes(r, [q EXCEPT !.wipes = @ \ {c}])
    /\ UNCHANGED <<chapters, assignments, made, rows, certificate, issued, started>>

\* An item gets an id that none has had; its chapter must still be there.
EditCreate(r, c) ==
    LET q == req[r] IN
    /\ Editing(r)
    /\ q.upserts = {} /\ ~q.drop /\ q.wipes = {}
    /\ q.creates[c] > 0
    /\ made < MaxItems
    /\ IF c \in chapters
       THEN /\ made' = made + 1
            /\ items' = items \cup {[id |-> made + 1, chapter |-> c]}
            /\ EditGoes(r, [q EXCEPT !.creates[c] = @ - 1])
       ELSE /\ req' = [req EXCEPT ![r] = Idle]
            /\ UNCHANGED <<made, items>>
    /\ UNCHANGED <<chapters, assignments, rows, certificate, issued, started>>

\* Assignments follow when the items are there.
EditGive(r, c) ==
    LET q == req[r] IN
    /\ Editing(r)
    /\ q.upserts = {} /\ ~q.drop /\ q.wipes = {}
    /\ \A d \in ChapterIds : q.creates[d] = 0
    /\ q.gives[c] > 0
    /\ made < MaxItems
    /\ IF c \in chapters
       THEN /\ made' = made + 1
            /\ assignments' = assignments \cup {[id |-> made + 1, chapter |-> c]}
            /\ EditStays(r, [q EXCEPT !.gives[c] = @ - 1])
       ELSE /\ req' = [req EXCEPT ![r] = Idle]
            /\ UNCHANGED <<made, assignments>>
    /\ UNCHANGED <<chapters, items, rows, certificate, issued, started>>

\* The next call of a handler rejects, or the process stops.
Fail(r) ==
    /\ "fail" \in Events
    /\ req[r] # Idle
    /\ req' = [req EXCEPT ![r] = Idle]
    /\ certificate' = IF req[r].at = "file" /\ certificate.id = req[r].id
                      THEN [certificate EXCEPT !.lost = TRUE] ELSE certificate
    /\ UNCHANGED <<chapters, items, assignments, made, rows, issued, started>>

SaveStep(r) ==
    \/ \E kind \in SaveKinds, key \in Keys, done \in BOOLEAN :
         SaveFind(r, kind, key, done)
    \/ SaveUpdate(r) \/ SaveCreate(r)

CertificateStep(r) ==
    \/ GenerateStart(r) \/ \E table \in Reads : GenerateRead(r, table)
    \/ GenerateFind(r) \/ BatchFind(r)
    \/ CertificateCreate(r) \/ CertificateFile(r)
    \/ \E what \in {"file", "revoke"} : AdminFind(r, what)
    \/ Revoke(r)

EditStep(r) ==
    \/ \E e \in Editions : EditFind(r, e)
    \/ \E c \in ChapterIds :
         \/ EditUpsert(r, c) \/ EditClear(r, c) \/ EditWipe(r, c)
         \/ EditCreate(r, c) \/ EditGive(r, c)
    \/ EditDrop(r)

Next == \E r \in Requests : SaveStep(r) \/ CertificateStep(r) \/ EditStep(r) \/ Fail(r)

Spec == Init /\ [][Next]_vars

-----------------------------------------------------------------------------
\* The values the variables take; items and assignments are in chapters of the
\* course and their ids are not used twice.
TypeOK ==
    /\ chapters \subseteq ChapterIds
    /\ items \cup assignments \subseteq Item
    /\ \A x \in items \cup assignments : x.chapter \in chapters /\ x.id <= made
    /\ \A x, y \in items \cup assignments : x.id = y.id => x = y
    /\ made \in 0..MaxItems
    /\ rows \in Seq(ProgressRow)
    /\ certificate \in Certificate
    /\ certificate.id <= issued
    /\ issued \in 0..MaxIssued
    /\ req \in [Requests -> Request]
    /\ started \in 0..MaxRequests

\* A certificate the student asked for was earned when the progress was read,
\* though chapters, items and progress are read apart, unless an edit went on
\* between two of the reads (student-extra.controller.ts:1488-1572).
CertificateEarned ==
    certificate # None /\ certificate.by = "student" => certificate.earned

\* A pending certificate is waiting for a handler at work, or the handler that
\* created it has failed (student-extra.controller.ts:1596-1617).
PendingOwned ==
    certificate # None /\ certificate.file = 0 =>
        \/ certificate.lost
        \/ \E r \in Requests : req[r].at = "file" /\ req[r].id = certificate.id

\* The file of a certificate names that certificate, through revocation, a new
\* one and files drawn late (admin-extra.controller.ts:2098-2126).
FileNamesCertificate ==
    certificate # None => certificate.file \in {0, certificate.id}

\* One row per key: of an item always, of a chapter unless the second request
\* looked before the first one had created it (schema.prisma:508).
RowsUnique ==
    \A i, j \in DOMAIN rows :
        i < j /\ Key(rows[i]) = Key(rows[j]) =>
            /\ rows[i].chapter = NoChapter \/ rows[i].item = NoItem
            /\ rows[j].seen < i
\* The certificate of a student was earned, is not left pending by a handler
\* that goes on, and has the file drawn for it, through edits of the course,
\* revocation, issue and late answers of the storage.
CertificatesRight == CertificateEarned /\ PendingOwned /\ FileNamesCertificate
=============================================================================
