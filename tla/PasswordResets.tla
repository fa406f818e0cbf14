--------------------------- MODULE PasswordResets ---------------------------
(***************************************************************************)
(* The password reset requests of one account, from the public form to the *)
(* decision of an administrator and its notification to the account.       *)
(*                                                                         *)
(* Nothing of a decision is one transaction: an approval writes the        *)
(* password, deletes the refresh tokens, marks the request and tells the   *)
(* account in separate calls, and each call may be the last one.           *)
(***************************************************************************)
EXTENDS Inbox

CONSTANT MaxResets

ASSUME ResetBounds == MaxResets \in Nat /\ None \notin Contexts

VARIABLES
    resets,     \* PasswordResetRequest rows of the account, oldest first
    password,   \* 0 for the account's own, i for the one the approver of i set
    contested,  \* history: requests decided by two handlers at once
    broken      \* history: requests a handler of which failed

resetVars == <<resets, password, contested, broken>>

allVars == <<inboxVars, resetVars>>

Decisions == {"approved", "rejected"}

\* seen: how many rows there were when the form looked for a pending one.
\* routed: who was told of it.  set, cleared, told: what deciders have done.
Reset == [status : {"pending"} \cup Decisions, gone : BOOLEAN,
          school : Tenants \cup {None}, seen : 0..MaxResets,
          routed : Contexts \cup {None}, set : BOOLEAN, cleared : BOOLEAN,
          told : Nat]

\* Phases of a handler that decides, and of one that submits.
Deciding == {"password", "revoke", "decide", "tell"}

DecideRequest == [at : Deciding, row : 1..MaxResets, as : Decisions, ctx : Contexts]
SubmitRequest == [at : {"insert"}, seen : 0..MaxResets] \cup
                 [at : {"route"}, row : 1..MaxResets]

Submitters == {"insert", "route"}

DecidersOf(i) == {r \in Workers : task[r].at \in Deciding /\ task[r].row = i}

Pending(i) == resets[i].status = "pending" /\ ~resets[i].gone

\* The school of the profile: teachers are created without one.
ProfileSchool ==
    IF account.role \in {"student", "school_admin"} THEN account.tenant ELSE None

ResetsInit ==
    /\ InboxInit
    /\ resets = <<>>
    /\ password = 0
    /\ contested = {} /\ broken = {}

-----------------------------------------------------------------------------
(***************************************************************************)
(* Submitting.                                                             *)
(***************************************************************************)
\* submitPasswordResetRequest(): an account with a pending request is answered
\* at once.
SubmitFind(r) ==
    /\ \A i \in DOMAIN resets : ~Pending(i)
    /\ Starts(r, [at |-> "insert", seen |-> Len(resets)])
    /\ UNCHANGED <<account, notes, socket, shown, cache, faults, changes, emitted,
                   excused, resetVars>>

SubmitInsert(r) ==
    /\ task[r].at = "insert"
    /\ Len(resets) < MaxResets
    /\ resets' = Append(resets, [status |-> "pending", gone |-> FALSE,
                   school |-> ProfileSchool, seen |-> task[r].seen, routed |-> None,
                   set |-> FALSE, cleared |-> FALSE, told |-> 0])
    /\ Becomes(r, [at |-> "route", row |-> Len(resets) + 1])
    /\ UNCHANGED <<account, notes, socket, shown, cache, started, faults, changes,
                   emitted, excused, password, contested, broken>>

\* Students and teachers are routed to the administrators of their school,
\* with its number of pending requests; the others to the main administrators.
RoutedTo(i) ==
    IF account.role \notin {"student", "teacher"} THEN SuperAdmin
    ELSE IF resets[i].school # None THEN resets[i].school ELSE account.tenant

SubmitRoute(r) ==
    /\ task[r].at = "route"
    /\ resets' = [resets EXCEPT ![task[r].row].routed = RoutedTo(task[r].row)]
    /\ Becomes(r, NoTask)
    /\ UNCHANGED <<account, notes, socket, shown, cache, started, faults, changes,
                   emitted, excused, password, contested, broken>>

-----------------------------------------------------------------------------
(***************************************************************************)
(* Deciding and deleting.                                                  *)
(***************************************************************************)
\* What the requests page of an administrator lists, and lets decide or delete.
Listed(i, ctx) == ~resets[i].gone /\ ctx \in {SuperAdmin, resets[i].school}

\* update(): the request must be pending as it is found.
DecideFind(r, i, as, ctx) ==
    /\ i \in DOMAIN resets
    /\ Listed(i, ctx) /\ Pending(i)
    /\ Starts(r, [at |-> IF as = "approved" THEN "password" ELSE "decide",
                  row |-> i, as |-> as, ctx |-> ctx])
    /\ contested' = IF DecidersOf(i) = {} THEN contested ELSE contested \cup {i}
    /\ UNCHANGED <<account, notes, socket, shown, cache, faults, changes, emitted,
                   excused, resets, password, broken>>

\* Faulty variant of SetPassword: the sessions are left alone.
SetPasswordOnly(r) ==
    /\ task[r].at = "password"
    /\ password' = task[r].row
    /\ resets' = [resets EXCEPT ![task[r].row].set = TRUE]
    /\ Becomes(r, LET q == task[r] IN [q EXCEPT !.at = "decide"])
    /\ UNCHANGED <<account, notes, socket, shown, cache, started, faults, changes,
                   emitted, excused, contested, broken>>

\* user.update: the temporary password, to be changed at the next login.
SetPassword(r) ==
    /\ task[r].at = "password"
    /\ password' = task[r].row
    /\ resets' = [resets EXCEPT ![task[r].row].set = TRUE]
    /\ Becomes(r, LET q == task[r] IN [q EXCEPT !.at = "revoke"])
    /\ UNCHANGED <<account, notes, socket, shown, cache, started, faults, changes,
                   emitted, excused, contested, broken>>

\* refreshToken.deleteMany.
Revoke(r) ==
    /\ task[r].at = "revoke"
    /\ resets' = [resets EXCEPT ![task[r].row].cleared = TRUE]
    /\ Becomes(r, LET q == task[r] IN [q EXCEPT !.at = "decide"])
    /\ UNCHANGED <<account, notes, socket, shown, cache, started, faults, changes,
                   emitted, excused, password, contested, broken>>

\* Faulty variant of Mark: the status is one the schema names and nobody handles.
MarkCompleted(r) ==
    /\ task[r].at = "decide"
    /\ resets' = [resets EXCEPT ![task[r].row].status = "completed"]
    /\ Becomes(r, NoTask)
    /\ UNCHANGED <<account, notes, socket, shown, cache, started, faults, changes,
                   emitted, excused, password, contested, broken>>

\* The status is written whatever it has become; a deleted row fails the
\* handler.
Mark(r) ==
    /\ task[r].at = "decide"
    /\ LET q == task[r] IN
       IF resets[q.row].gone
       THEN Becomes(r, NoTask) /\ UNCHANGED resets
       ELSE /\ resets' = [resets EXCEPT ![q.row].status = q.as]
            /\ Becomes(r, [q EXCEPT !.at = "tell"])
    /\ UNCHANGED <<account, notes, socket, shown, cache, started, faults, changes,
                   emitted, excused, password, contested, broken>>

\* notification.create; then the count and the events, and for an approval the
\* stats.
Tell(r) ==
    /\ task[r].at = "tell"
    /\ NewNote
    /\ resets' = [resets EXCEPT ![task[r].row].told = @ + 1]
    /\ Becomes(r, Counting(task[r].as = "approved", task[r].ctx))
    /\ UNCHANGED <<account, socket, shown, cache, started, faults, emitted, excused,
                   password, contested, broken>>

DeleteReset(i, ctx) ==
    /\ i \in DOMAIN resets
    /\ Listed(i, ctx)
    /\ resets' = [resets EXCEPT ![i].gone = TRUE]
    /\ UNCHANGED <<inboxVars, password, contested, broken>>

\* updatePassword(): the account chooses a password of its own.
ChoosePassword ==
    /\ password # 0
    /\ password' = 0
    /\ UNCHANGED <<inboxVars, resets, contested, broken>>

-----------------------------------------------------------------------------
(***************************************************************************)
(* Failures.                                                               *)
(***************************************************************************)
\* A call of the handler fails: nothing it has written is undone.
FailReset(r) ==
    /\ Faulty
    /\ task[r].at \in Submitters \cup Deciding
    /\ Becomes(r, NoTask)
    /\ broken' = IF task[r].at \in Deciding THEN broken \cup {task[r].row} ELSE broken
    /\ UNCHANGED <<account, notes, socket, shown, cache, started, changes, emitted,
                   excused, resets, password, contested>>

RestartAll ==
    /\ Restart
    /\ broken' = broken \cup {i \in DOMAIN resets : DecidersOf(i) # {}}
    /\ UNCHANGED <<resets, password, contested>>

ResetStep(r) ==
    \/ SubmitFind(r) \/ SubmitInsert(r) \/ SubmitRoute(r)
    \/ SetPassword(r) \/ Revoke(r) \/ Mark(r) \/ Tell(r)
    \/ FailReset(r)

DecideSome(r, i) ==
    \E as \in Decisions, ctx \in Contexts : DecideFind(r, i, as, ctx)

ResetsNext ==
    \/ InboxNext /\ UNCHANGED resetVars
    \/ \E r \in Workers : ResetStep(r)
    \/ \E r \in Workers, i \in 1..MaxResets : DecideSome(r, i)
    \/ \E i \in 1..MaxResets, ctx \in Contexts : DeleteReset(i, ctx)
    \/ ChoosePassword
    \/ RestartAll

ResetsSpec == ResetsInit /\ [][ResetsNext]_allVars

-----------------------------------------------------------------------------
(***************************************************************************)
(* Properties.                                                             *)
(***************************************************************************)
ResetsTypeOK ==
    /\ InboxTypeOK
    /\ task \in [Workers -> InboxRequest \cup DecideRequest \cup SubmitRequest]
    /\ resets \in Seq(Reset) /\ Len(resets) <= MaxResets
    /\ password \in 0..Len(resets)
    /\ contested \subseteq DOMAIN resets
    /\ broken \subseteq DOMAIN resets

\* The password and the status of a request agree: an approved request has had
\* its password set and the sessions deleted before, and a password some
\* request set belongs to an approved one.  The exceptions are those of the
\* code, which decides outside a transaction and checks the status only as it
\* starts: a second decision under way at the same time, a failure between two
\* calls, and a request deleted meanwhile.  For a rejected request nothing was
\* set.
DecisionsApplied ==
    \A i \in DOMAIN resets :
        i \in contested \cup broken \/ resets[i].gone \/
            /\ resets[i].status = "approved" => resets[i].set /\ resets[i].cleared
            /\ resets[i].status = "rejected" => ~resets[i].set
            /\ password = i /\ DecidersOf(i) = {} => resets[i].status = "approved"

\* The account is told of a decision once: no handler of the request is under
\* way, none failed and no two decided at a time.
DecisionsAnnounced ==
    \A i \in DOMAIN resets \ (contested \cup broken) :
        (DecidersOf(i) = {} /\ resets[i].status # "pending") => resets[i].told = 1

\* Two requests of an account are pending at once only when the form of the
\* later one had looked before the earlier one was inserted: "Prevent duplicate
\* pending requests" (auth.service.ts) is a check before an insert.
DuplicatesOverlapped ==
    \A i, j \in DOMAIN resets :
        (i < j /\ Pending(i) /\ Pending(j)) => resets[j].seen < i

\* The administrators a pending request was routed to find it in their list;
\* except a teacher's: the code routes by the tenant when the profile has no
\* school, and lists by the school of the request.
RoutedRequestsListed ==
    \A i \in DOMAIN resets :
        (Pending(i) /\ resets[i].routed # None) =>
            Listed(i, resets[i].routed) \/ account.role = "teacher"

\* A request is seen by those who are told of it, is the only pending one but for
\* overlapping forms, what is decided of it is what is done to the password and
\* the sessions, and the account is told of it once.
RequestsHandled ==
    /\ DecisionsApplied /\ DecisionsAnnounced
    /\ RoutedRequestsListed /\ DuplicatesOverlapped
=============================================================================
