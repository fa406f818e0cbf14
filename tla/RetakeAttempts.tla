--------------------------- MODULE RetakeAttempts ---------------------------
(***************************************************************************)
(* The attempts at one assignment: students submit and resubmit it while   *)
(* teachers change its retake settings, grant single retakes, open a       *)
(* retake for a class and close it again                                   *)
(* (src/student/extra/student-extra.controller.ts, submitAssignment, and   *)
(* the retake endpoints of src/teacher/extra/teacher-extra.controller.ts). *)
(*                                                                         *)
(* Every endpoint is cut at its awaits: a submission reads the settings,   *)
(* the attempts and the grant by three queries and stores the attempt by a *)
(* fourth.  Grading is left to ScorePipeline.  used, shut, mostAllowed and *)
(* the field overtaken are history.                                        *)
(***************************************************************************)
EXTENDS Naturals, Sequences

CONSTANTS
    Students,       \* students who may see the assignment
    Requests,       \* request slots: how many handlers may run at once
    Limits,         \* the values of maxRetakeAttempts explored
    Unlimited,      \* maxRetakeAttempts = null
    RetakeFeature,  \* ASSIGNMENT_RETAKE_FEATURE_ENABLED is not 'false'
    MaxAttempts,    \* bound: attempts explored per student
    MaxEdits,       \* bound: teacher requests explored
    Events          \* bound: which events of the environment are explored

ASSUME RetakesOK ==
    /\ Limits \subseteq Nat \cup {Unlimited}
    /\ Unlimited \notin Nat
    /\ RetakeFeature \in BOOLEAN
    /\ MaxAttempts \in Nat
    /\ MaxEdits \in Nat
    /\ Events \subseteq {"fail", "delete"}

VARIABLES
    exists,         \* the Assignment row is there
    settings,       \* its retake columns
    attempts,       \* attemptNumbers of each student's rows, as inserted
    grant,          \* each student's RetakeGrant row
    req,            \* what each request slot is doing
    edits,          \* bound: teacher requests so far
    used,           \* history: what the present grant was used for
    shut,           \* history: a close ran alone, no teacher request since
    mostAllowed     \* history: the largest limit ever in force

vars == <<exists, settings, attempts, grant, req, edits, used, shut, mostAllowed>>
history == <<used, shut, mostAllowed>>

Scope == {"all", "selected"}

Settings == [enabled : BOOLEAN, max : Limits, window : BOOLEAN, scope : Scope]

Idle == [at |-> "idle"]

SubmitRequest ==
    [at : {"count", "check", "insert", "consume"}, student : Students,
     read : Settings, next : Nat, granted : BOOLEAN, overtaken : BOOLEAN]

\* A request body with no field, or with one: what is absent is null.
Changes ==
    {[none |-> TRUE]} \cup [enabled : BOOLEAN] \cup [window : BOOLEAN]
      \cup [max : Limits \ {Unlimited}] \cup [scope : Scope]

Merge(read, change) ==
    [f \in DOMAIN read |-> IF f \in DOMAIN change THEN change[f] ELSE read[f]]

EditRequest ==
    [at : {"write"}, read : Settings, change : Changes]
      \cup [at : {"grant"}, student : Students, active : BOOLEAN]
      \cup [at : {"openWindow", "openFind"}, class : SUBSET Students, scope : Scope]
      \cup [at : {"openGrants"}, left : SUBSET Students]
      \cup [at : {"closeWindow", "closeGrants"}, alone : BOOLEAN, since : 0..MaxEdits]

Request == {Idle} \cup SubmitRequest \cup EditRequest

Submitting(r) == req[r].at \in {"count", "check", "insert", "consume"}

Teaching(r) == req[r] # Idle /\ ~Submitting(r)

Larger(a, b) == IF a = Unlimited \/ (b # Unlimited /\ b <= a) THEN a ELSE b

\* createAssignment leaves the window shut and the scope at its default.
Init ==
    /\ exists = TRUE
    /\ settings \in [enabled : BOOLEAN, max : Limits, window : {FALSE},
                     scope : {"all"}]
    /\ attempts = [s \in Students |-> <<>>]
    /\ grant = [s \in Students |-> "none"]
    /\ req = [r \in Requests |-> Idle]
    /\ edits = 0
    /\ used = [s \in Students |-> "fresh"]
    /\ shut = FALSE
    /\ mostAllowed = settings.max

-----------------------------------------------------------------------------
\* submitAssignment().

SubmitRead(r, s) ==
    /\ req[r] = Idle
    /\ exists
    /\ req' = [req EXCEPT ![r] = [at |-> "count", student |-> s, read |-> settings,
                                  next |-> 0, granted |-> FALSE,
                                  overtaken |-> FALSE]]
    /\ UNCHANGED <<exists, settings, attempts, grant, edits, history>>

SubmitCount(r) ==
    /\ req[r].at = "count"
    /\ LET rows == attempts[req[r].student] IN
         /\ Len(rows) < MaxAttempts
         /\ req' = [req EXCEPT
              ![r].at = "check",
              ![r].next = 1 + IF rows = <<>> THEN 0 ELSE rows[Len(rows)]]
    /\ UNCHANGED <<exists, settings, attempts, grant, edits, history>>

\* The number of rows read is next - 1: they are numbered from 1 without gaps
\* (AttemptsNumbered).
HasCapacity(read, taken) == read.max = Unlimited \/ taken < read.max + 1

\* canRetake, from the three reads.
CanRetake(read, taken, granted) ==
    /\ read.enabled
    /\ HasCapacity(read, taken)
    /\ read.scope = "all" \/ granted
    /\ read.max = Unlimited \/ read.window \/ granted

\* The grant is read last, and the request refused here.
SubmitCheck(r) ==
    LET granted == grant[req[r].student] = "active"
        taken == req[r].next - 1
        refused == RetakeFeature /\ taken > 0
                     /\ ~CanRetake(req[r].read, taken, granted)
    IN
    /\ req[r].at = "check"
    /\ req' = [req EXCEPT ![r] = IF refused THEN Idle
                                 ELSE [req[r] EXCEPT !.at = "insert",
                                                     !.granted = granted]]
    /\ UNCHANGED <<exists, settings, attempts, grant, edits, history>>

\* Whether the submission will spend the grant it read.
Consumes(r) == req[r].granted /\ req[r].read.scope = "selected"

\* Faulty variant of SubmitInsert: no unique key stops a second row.
SubmitInsertUnchecked(r) ==
    LET s == req[r].student IN
    /\ req[r].at = "insert"
    /\ attempts' = IF exists THEN [attempts EXCEPT ![s] = Append(@, req[r].next)]
                   ELSE attempts
    /\ req' = [req EXCEPT ![r] = IF exists /\ Consumes(r)
                                 THEN [req[r] EXCEPT !.at = "consume"]
                                 ELSE Idle]
    /\ used' = IF exists /\ Consumes(r) /\ used[s] = "fresh"
               THEN [used EXCEPT ![s] = "spent"] ELSE used
    /\ UNCHANGED <<exists, settings, grant, edits, shut, mostAllowed>>

\* create(): the unique key (assignment, student, attemptNumber) lets one of
\* the submissions with the same number in; the foreign key lets none in once
\* the assignment is deleted.
SubmitInsert(r) ==
    LET s == req[r].student
        stored == exists /\ \A i \in DOMAIN attempts[s] : attempts[s][i] # req[r].next
    IN
    /\ req[r].at = "insert"
    /\ attempts' = IF stored THEN [attempts EXCEPT ![s] = Append(@, req[r].next)]
                   ELSE attempts
    /\ req' = [req EXCEPT ![r] = IF stored /\ Consumes(r)
                                 THEN [req[r] EXCEPT !.at = "consume"]
                                 ELSE Idle]
    /\ used' = IF stored /\ Consumes(r) /\ used[s] = "fresh"
               THEN [used EXCEPT ![s] = "spent"] ELSE used
    /\ UNCHANGED <<exists, settings, grant, edits, shut, mostAllowed>>

\* Faulty variant of SubmitConsume: the scope is looked up again.
SubmitConsumeReread(r) ==
    /\ req[r].at = "consume"
    /\ grant' = IF settings.scope = "selected" /\ grant[req[r].student] # "none"
                THEN [grant EXCEPT ![req[r].student] = "inactive"] ELSE grant
    /\ req' = [req EXCEPT ![r] = Idle]
    /\ UNCHANGED <<exists, settings, attempts, edits, history>>

\* After the scores are recomputed: retakeGrant.update(), which throws when the
\* row went with the assignment.
SubmitConsume(r) ==
    /\ req[r].at = "consume"
    /\ grant' = IF grant[req[r].student] = "none" THEN grant
                ELSE [grant EXCEPT ![req[r].student] = "inactive"]
    /\ req' = [req EXCEPT ![r] = Idle]
    /\ UNCHANGED <<exists, settings, attempts, edits, history>>

-----------------------------------------------------------------------------
\* The teacher's endpoints.  All of them look the assignment up first.

TeacherStarts(r, request) ==
    /\ req[r] = Idle
    /\ exists
    /\ edits < MaxEdits
    /\ edits' = edits + 1
    /\ req' = [req EXCEPT ![r] = request]
    /\ shut' = FALSE
    /\ UNCHANGED <<exists, settings, attempts, grant, used, mostAllowed>>

\* updateRetakeSettings() writes all columns: the ones the body names, and the
\* others as they were read.
SettingsRead(r, change) ==
    TeacherStarts(r, [at |-> "write", read |-> settings, change |-> change])

SettingsWrite(r) ==
    /\ req[r].at = "write"
    /\ settings' = IF exists THEN Merge(req[r].read, req[r].change) ELSE settings
    /\ mostAllowed' = Larger(mostAllowed, settings'.max)
    /\ req' = [req EXCEPT ![r] = Idle]
    /\ UNCHANGED <<exists, attempts, grant, edits, used, shut>>

\* upsert() of one student's grant; a grant made active is fresh.
Upsert(s, active) ==
    /\ grant' = IF exists
                THEN [grant EXCEPT ![s] = IF active THEN "active" ELSE "inactive"]
                ELSE grant
    /\ used' = IF active THEN [used EXCEPT ![s] = "fresh"] ELSE used

\* grantRetake(): the upserts of several students run side by side, one
\* request each here.
GrantStart(r, s, active) ==
    TeacherStarts(r, [at |-> "grant", student |-> s, active |-> active])

GrantWrite(r) ==
    /\ req[r].at = "grant"
    /\ Upsert(req[r].student, req[r].active)
    /\ req' = [req EXCEPT ![r] = Idle]
    /\ UNCHANGED <<exists, settings, attempts, edits, shut, mostAllowed>>

\* openRetakeForAll(): first the window; then the class is read, and those of
\* it who have submitted get an active grant.
OpenStart(r, class, scope) ==
    /\ scope = "all" => class = Students
    /\ TeacherStarts(r, [at |-> "openWindow", class |-> class, scope |-> scope])

OpenWindow(r) ==
    /\ req[r].at = "openWindow"
    /\ settings' = IF exists THEN [settings EXCEPT !.enabled = TRUE, !.window = TRUE,
                                                   !.scope = req[r].scope]
                   ELSE settings
    /\ req' = [req EXCEPT ![r] = IF exists THEN [req[r] EXCEPT !.at = "openFind"]
                                 ELSE Idle]
    /\ UNCHANGED <<exists, attempts, grant, edits, history>>

OpenFind(r) ==
    /\ req[r].at = "openFind"
    /\ req' = [req EXCEPT ![r] =
         [at |-> "openGrants",
          left |-> {s \in req[r].class : attempts[s] # <<>>}]]
    /\ UNCHANGED <<exists, settings, attempts, grant, edits, history>>

OpenGrant(r, s) ==
    /\ req[r].at = "openGrants"
    /\ s \in req[r].left
    /\ Upsert(s, TRUE)
    /\ req' = [req EXCEPT ![r].left = @ \ {s}]
    /\ UNCHANGED <<exists, settings, attempts, edits, shut, mostAllowed>>

OpenEnd(r) ==
    /\ req[r].at = "openGrants"
    /\ req[r].left = {}
    /\ req' = [req EXCEPT ![r] = Idle]
    /\ UNCHANGED <<exists, settings, attempts, grant, edits, history>>

\* closeRetakeWindow(): the window, then every grant.  alone and since tell, at
\* its end, whether another teacher request was at work in between.
CloseStart(r) ==
    TeacherStarts(r, [at |-> "closeWindow", since |-> edits + 1,
                      alone |-> \A q \in Requests : ~Teaching(q)])

Undisturbed(r) == req[r].alone /\ req[r].since = edits

CloseWindow(r) ==
    /\ req[r].at = "closeWindow"
    /\ settings' = IF exists THEN [settings EXCEPT !.window = FALSE] ELSE settings
    /\ req' = [req EXCEPT ![r] = IF exists THEN [req[r] EXCEPT !.at = "closeGrants"]
                                 ELSE Idle]
    /\ UNCHANGED <<exists, attempts, grant, edits, history>>

\* Faulty variant of CloseGrants: class-wide grants are left to the window.
CloseSelectedGrants(r) ==
    /\ req[r].at = "closeGrants"
    /\ grant' = [s \in Students |-> IF grant[s] = "none" \/ settings.scope = "all"
                                    THEN grant[s] ELSE "inactive"]
    /\ req' = [q \in Requests |->
                 IF q = r THEN Idle
                 ELSE IF Submitting(q) THEN [req[q] EXCEPT !.overtaken = TRUE]
                      ELSE req[q]]
    /\ shut' = Undisturbed(r)
    /\ UNCHANGED <<exists, settings, attempts, edits, used, mostAllowed>>

\* The submissions past their first read keep going: they are overtaken.
CloseGrants(r) ==
    /\ req[r].at = "closeGrants"
    /\ grant' = [s \in Students |-> IF grant[s] = "none" THEN "none" ELSE "inactive"]
    /\ req' = [q \in Requests |->
                 IF q = r THEN Idle
                 ELSE IF Submitting(q) THEN [req[q] EXCEPT !.overtaken = TRUE]
                      ELSE req[q]]
    /\ shut' = Undisturbed(r)
    /\ UNCHANGED <<exists, settings, attempts, edits, used, mostAllowed>>

\* deleteAssignment(): one transaction, the rows and the grants with it.
Delete ==
    /\ "delete" \in Events
    /\ exists
    /\ exists' = FALSE
    /\ attempts' = [s \in Students |-> <<>>]
    /\ grant' = [s \in Students |-> "none"]
    /\ UNCHANGED <<settings, req, edits, history>>

\* The next database call of a handler rejects, or the process stops.
Fail(r) ==
    /\ "fail" \in Events
    /\ req[r] # Idle
    /\ req' = [req EXCEPT ![r] = Idle]
    /\ used' = IF req[r].at = "consume"
               THEN [used EXCEPT ![req[r].student] = "lost"] ELSE used
    /\ UNCHANGED <<exists, settings, attempts, grant, edits, shut, mostAllowed>>

RequestStep(r) ==
    \/ \E s \in Students : SubmitRead(r, s)
    \/ SubmitCount(r)
    \/ SubmitCheck(r)
    \/ SubmitInsert(r)
    \/ SubmitConsume(r)
    \/ \E change \in Changes : SettingsRead(r, change)
    \/ SettingsWrite(r)
    \/ \E s \in Students : \E active \in BOOLEAN : GrantStart(r, s, active)
    \/ GrantWrite(r)
    \/ \E class \in SUBSET Students : \E scope \in Scope : OpenStart(r, class, scope)
    \/ OpenWindow(r)
    \/ OpenFind(r)
    \/ \E s \in Students : OpenGrant(r, s)
    \/ OpenEnd(r)
    \/ CloseStart(r)
    \/ CloseWindow(r)
    \/ CloseGrants(r)
    \/ Fail(r)

Next == Delete \/ \E r \in Requests : RequestStep(r)

Spec == Init /\ [][Next]_vars

-----------------------------------------------------------------------------
\* The rows, the requests in flight and the history have their types.
TypeOK ==
    /\ exists \in BOOLEAN
    /\ settings \in Settings
    /\ attempts \in [Students -> Seq(Nat)]
    /\ grant \in [Students -> {"none", "active", "inactive"}]
    /\ req \in [Requests -> Request]
    /\ edits \in 0..MaxEdits
    /\ used \in [Students -> {"fresh", "spent", "lost"}]
    /\ shut \in BOOLEAN
    /\ mostAllowed \in Limits

\* However many submissions of a student run at once, the rows are numbered
\* 1, 2, 3 in the order they were stored (student-extra.controller.ts:1274-1276
\* computes the number from a read that may be stale).
AttemptsNumbered ==
    \A s \in Students : attempts[s] = [i \in 1..Len(attempts[s]) |-> i]

\* No interleaving of submissions and edits stores more attempts than the
\* largest limit that was ever set allows (student-extra.controller.ts:1280-1282).
WithinCapacity ==
    RetakeFeature => \A s \in Students :
        mostAllowed # Unlimited => Len(attempts[s]) <= mostAllowed + 1

\* Once a close that no other teacher request overlapped has completed, the
\* only retakes still stored are those of submissions it overtook, unless
\* attempts are unlimited (teacher-extra.controller.ts:1795-1802).
CloseShutsRetakes ==
    RetakeFeature /\ shut /\ settings.max # Unlimited =>
        \A r \in Requests :
            req[r].at = "insert" /\ req[r].next > 1 => req[r].overtaken

\* A grant that was used for a retake of a 'selected' assignment and is still
\* active is about to be consumed, or the handler that owed it failed
\* (student-extra.controller.ts:1467-1475).
SpentGrantsConsumed ==
    \A s \in Students :
        grant[s] = "active" /\ used[s] = "spent"
          => \E r \in Requests : req[r].at = "consume" /\ req[r].student = s
\* However submissions of a student overlap one another and the edits of the
\* settings, their attempts are numbered without a gap or a double and are no
\* more than some limit in force allowed.
AttemptsBounded == AttemptsNumbered /\ WithinCapacity
=============================================================================
