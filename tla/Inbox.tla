------------------------------- MODULE Inbox -------------------------------
(***************************************************************************)
(* The notifications of one user, the unread count and dashboard stats     *)
(* pushed to the user's room, the stats cache, and the user's socket.      *)
(*                                                                         *)
(* A handler is split at its awaits: what it writes, what it counts, and   *)
(* what it emits are steps of their own.                                   *)
(***************************************************************************)
EXTENDS TenantScope, Sequences

CONSTANTS
    Accounts,      \* the accounts the user may be
    Workers,       \* slots for handlers in flight
    None,
    MaxNotes, MaxStarted, MaxFaults

ASSUME InboxBounds ==
    /\ MaxNotes \in Nat /\ MaxStarted \in Nat /\ MaxFaults \in Nat
    /\ Accounts \subseteq UserRecord

VARIABLES
    account,   \* the account
    notes,     \* Notification rows of the account, oldest first
    socket,    \* "off", "joined" (in the room, not greeted yet) or "on"
    shown,     \* the last unread count the socket was sent
    cache,     \* whether statsCache has a live entry of the account
    task,      \* handlers in flight
    started,   \* handlers started
    faults,    \* failures and restarts so far
    changes,   \* history: number of changes of the rows
    emitted,   \* history: how many changes the newest emitted count knew of
    excused    \* history: the room missed a count, see ShownExplained

inboxVars == <<account, notes, socket, shown, cache, task, started, faults,
               changes, emitted, excused>>

Note == [read : BOOLEAN, deleted : BOOLEAN]

NoTask == [at |-> "idle"]

MarkKinds == {"read", "unread", "delete"}

\* stats: the handler ends by pushing dashboard stats; ctx: its tenant context.
MarkRequest == [at : {"mark"}, note : 1..MaxNotes, kind : MarkKinds, was : BOOLEAN,
                stats : BOOLEAN, ctx : Contexts]
CountRequest == [at : {"count", "push", "compute"}, stats : BOOLEAN, ctx : Contexts]
EmitRequest == [at : {"emit"}, count : Nat, knew : Nat, stats : BOOLEAN,
                ctx : Contexts]

InboxRequest == {NoTask, [at |-> "refused"], [at |-> "fill"]}
                  \cup MarkRequest \cup CountRequest \cup EmitRequest

\* getUnreadCount: unread and not deleted.
Unread == Cardinality({i \in DOMAIN notes : ~notes[i].read /\ ~notes[i].deleted})

\* The queries _computeDashboardStats makes for the account.  A school admin or
\* a teacher without a school gets zeros after the first one.
Scoped(k) == [keys |-> {k, "schoolId"}, schools |-> account.schools]
Own(k) == [keys |-> {k}, schools |-> {}]

SchoolAdminStats == {Own("userId")} \cup
                      (IF account.schools = {} THEN {} ELSE {Scoped("schoolId")})
TeacherStats == {Own("teacherId")} \cup
                  (IF account.schools = {} THEN {} ELSE {Scoped("teacherId")})
StudentStats == {Own("studentId"), Own("userId")}

StatsQueries ==
    CASE account.role = "admin"        -> {}
      [] account.role = "school_admin" -> SchoolAdminStats
      [] account.role = "teacher"      -> TeacherStats
      [] account.role = "student"      -> StudentStats

\* The tenant extension throws in the middle of the computation.
StatsRefused(ctx) == \E q \in StatsQueries : Refuses(ctx, q)

InboxInit ==
    /\ account \in Accounts
    /\ notes = <<>>
    /\ socket = "off"
    /\ shown = None
    /\ cache = FALSE
    /\ task = [r \in Workers |-> NoTask]
    /\ started = 0 /\ faults = 0 /\ changes = 0 /\ emitted = 0
    /\ excused = FALSE

\* A handler takes a free slot.
Starts(r, q) ==
    /\ task[r] = NoTask
    /\ started < MaxStarted
    /\ started' = started + 1
    /\ task' = [task EXCEPT ![r] = q]

\* The next phase of a handler.
Becomes(r, q) == task' = [task EXCEPT ![r] = q]

Counting(stats, ctx) == [at |-> "count", stats |-> stats, ctx |-> ctx]

Pushing(stats, ctx) ==
    IF stats THEN [at |-> "push", stats |-> stats, ctx |-> ctx] ELSE NoTask

-----------------------------------------------------------------------------
(***************************************************************************)
(* Writing rows.                                                           *)
(***************************************************************************)
NewNote ==
    /\ Len(notes) < MaxNotes
    /\ notes' = Append(notes, [read |-> FALSE, deleted |-> FALSE])
    /\ changes' = changes + 1

\* sendOne(), and create() which calls it: the row, then the count, then the
\* two events.
SendOne(r) ==
    /\ NewNote
    /\ Starts(r, Counting(FALSE, SuperAdmin))
    /\ UNCHANGED <<account, socket, shown, cache, faults, emitted, excused>>

\* sendBroadcast() of another account, the sender being left out of it:
\* createMany, then only notification:new for every row.
SendBroadcast ==
    /\ NewNote
    /\ started < MaxStarted
    /\ started' = started + 1
    /\ excused' = TRUE
    /\ UNCHANGED <<account, socket, shown, cache, task, faults, emitted>>

\* updateUserNotification() with mark_all and is_read.
MarkAll(r, ctx) ==
    /\ ctx \in ContextsOf(account)
    /\ Starts(r, Counting(TRUE, ctx))
    /\ notes' = [i \in DOMAIN notes |->
                   IF notes[i].deleted THEN notes[i] ELSE [notes[i] EXCEPT !.read = TRUE]]
    /\ changes' = changes + 1
    /\ UNCHANGED <<account, socket, shown, cache, faults, emitted, excused>>

\* markNotification() and updateUserNotification() for one row look it up
\* first; a deleted row is found too.  Only markNotification() marks unread,
\* only updateUserNotification() pushes stats.
MarkFind(r, i, kind, stats, ctx) ==
    /\ i \in DOMAIN notes
    /\ ctx \in ContextsOf(account)
    /\ kind = "unread" => ~stats
    /\ Starts(r, [at |-> "mark", note |-> i, kind |-> kind, was |-> notes[i].read,
                  stats |-> stats, ctx |-> ctx])
    /\ UNCHANGED <<account, notes, socket, shown, cache, faults, changes, emitted,
                   excused>>

Marked(note, kind) ==
    CASE kind = "read"   -> [note EXCEPT !.read = TRUE]
      [] kind = "unread" -> [note EXCEPT !.read = FALSE]
      [] kind = "delete" -> [note EXCEPT !.deleted = TRUE]

\* Faulty variant of MarkWrite: deleting emits no count at all.
MarkWriteSilent(r) ==
    /\ task[r].at = "mark"
    /\ LET q == task[r] IN
       /\ notes' = [notes EXCEPT ![q.note] = Marked(@, q.kind)]
       /\ changes' = changes + 1
       /\ Becomes(r, IF q.kind = "delete" THEN Pushing(q.stats, q.ctx)
                     ELSE Counting(q.stats, q.ctx))
       /\ excused' = (excused \/ (q.kind = "delete" /\ q.was /\ ~notes[q.note].read))
    /\ UNCHANGED <<account, socket, shown, cache, started, faults, emitted>>

\* The row is written by its id.  A deletion counts again only when the row was
\* unread as it was found: one marked unread in between leaves the room with an
\* old count.
MarkWrite(r) ==
    /\ task[r].at = "mark"
    /\ LET q == task[r] IN
       /\ notes' = [notes EXCEPT ![q.note] = Marked(@, q.kind)]
       /\ changes' = changes + 1
       /\ Becomes(r, IF q.kind = "delete" /\ q.was THEN Pushing(q.stats, q.ctx)
                     ELSE Counting(q.stats, q.ctx))
       /\ excused' = (excused \/ (q.kind = "delete" /\ q.was /\ ~notes[q.note].read))
    /\ UNCHANGED <<account, socket, shown, cache, started, faults, emitted>>

-----------------------------------------------------------------------------
(***************************************************************************)
(* Counting and emitting.                                                  *)
(***************************************************************************)
Count(r) ==
    /\ task[r].at = "count"
    /\ Becomes(r, [at |-> "emit", count |-> Unread, knew |-> changes,
                   stats |-> task[r].stats, ctx |-> task[r].ctx])
    /\ UNCHANGED <<account, notes, socket, shown, cache, started, faults, changes,
                   emitted, excused>>

\* emitUnreadCount() reaches whoever is in the room.  A count that knew less
\* than one already emitted is old; one that knows everything settles.
Emit(r) ==
    /\ task[r].at = "emit"
    /\ LET q == task[r] IN
       /\ shown' = IF socket = "off" THEN None ELSE q.count
       /\ emitted' = IF q.knew > emitted THEN q.knew ELSE emitted
       /\ excused' = (q.knew < changes /\ (excused \/ q.knew < emitted))
       /\ Becomes(r, Pushing(q.stats, q.ctx))
    /\ UNCHANGED <<account, notes, socket, cache, started, faults, changes>>

\* buildDashboardStatsForUser(): a live entry is pushed as it is.
Push(r) ==
    /\ task[r].at = "push"
    /\ Becomes(r, IF cache THEN NoTask
                  ELSE LET q == task[r] IN [q EXCEPT !.at = "compute"])
    /\ UNCHANGED <<account, notes, socket, shown, cache, started, faults, changes,
                   emitted, excused>>

\* _computeDashboardStats() in the context of the handler.
Compute(r) ==
    /\ task[r].at = "compute"
    /\ Becomes(r, [at |-> IF StatsRefused(task[r].ctx) THEN "refused" ELSE "fill"])
    /\ UNCHANGED <<account, notes, socket, shown, cache, started, faults, changes,
                   emitted, excused>>

Fill(r) ==
    /\ task[r].at = "fill"
    /\ cache' = TRUE
    /\ Becomes(r, NoTask)
    /\ UNCHANGED <<account, notes, socket, shown, started, faults, changes, emitted,
                   excused>>

\* The handler has stored its change and answers 401.
AnswerRefused(r) ==
    /\ task[r].at = "refused"
    /\ Becomes(r, NoTask)
    /\ UNCHANGED <<account, notes, socket, shown, cache, started, faults, changes,
                   emitted, excused>>

-----------------------------------------------------------------------------
(***************************************************************************)
(* The socket and the cache.                                               *)
(***************************************************************************)
\* handleConnection(): the room is joined before the stats are built.
Join ==
    /\ socket = "off"
    /\ socket' = "joined"
    /\ UNCHANGED <<account, notes, shown, cache, task, started, faults, changes,
                   emitted, excused>>

\* The greeting runs in no request: without a live entry the computation is
\* refused for everybody but an admin, and the socket is disconnected.
Greet ==
    /\ socket = "joined"
    /\ LET served == cache \/ ~StatsRefused(NoContext) IN
       /\ socket' = IF served THEN "on" ELSE "off"
       /\ shown' = IF served THEN shown ELSE None
       /\ cache' = served
    /\ UNCHANGED <<account, notes, task, started, faults, changes, emitted,
                   excused>>

Disconnect ==
    /\ socket = "on"
    /\ socket' = "off"
    /\ shown' = None
    /\ UNCHANGED <<account, notes, cache, task, started, faults, changes, emitted,
                   excused>>

\* STATS_TTL_MS has passed.
ExpireStats ==
    /\ cache
    /\ cache' = FALSE
    /\ UNCHANGED <<account, notes, socket, shown, task, started, faults, changes,
                   emitted, excused>>

Faulty == faults < MaxFaults /\ faults' = faults + 1

\* A query of the handler fails.  A count that is not made is missed.
FailInbox(r) ==
    /\ Faulty
    /\ task[r].at \in {"mark", "count", "compute", "fill"}
    /\ Becomes(r, NoTask)
    /\ excused' = (excused \/ task[r].at = "count")
    /\ UNCHANGED <<account, notes, socket, shown, cache, started, changes, emitted>>

\* The process restarts: handlers, sockets and cache are gone, rows stay.
Restart ==
    /\ Faulty
    /\ task' = [r \in Workers |-> NoTask]
    /\ socket' = "off"
    /\ shown' = None
    /\ cache' = FALSE
    /\ UNCHANGED <<account, notes, started, changes, emitted, excused>>

InboxStep(r) ==
    \/ MarkWrite(r) \/ Count(r) \/ Emit(r)
    \/ Push(r) \/ Compute(r) \/ Fill(r) \/ AnswerRefused(r)
    \/ FailInbox(r)

InboxStart(r) ==
    \/ SendOne(r)
    \/ \E ctx \in Contexts : MarkAll(r, ctx)
    \/ \E i \in 1..MaxNotes, kind \in MarkKinds, stats \in BOOLEAN,
          ctx \in Contexts :
         MarkFind(r, i, kind, stats, ctx)

\* Every step but Restart, which concerns the handlers of other components too.
InboxNext ==
    \/ \E r \in Workers : InboxStep(r) \/ InboxStart(r)
    \/ SendBroadcast
    \/ Join \/ Greet \/ Disconnect \/ ExpireStats

-----------------------------------------------------------------------------
(***************************************************************************)
(* Properties.                                                             *)
(***************************************************************************)
InboxTypeOK ==
    /\ account \in Accounts
    /\ StatsQueries \subseteq Query
    /\ notes \in Seq(Note) /\ Len(notes) <= MaxNotes
    /\ socket \in {"off", "joined", "on"}
    /\ shown \in Nat \cup {None}
    /\ cache \in BOOLEAN
    /\ started \in 0..MaxStarted /\ faults \in 0..MaxFaults
    /\ changes \in Nat /\ emitted \in 0..changes
    /\ excused \in BOOLEAN

OwesCount(r) == task[r].at \in {"count", "emit"}

\* Once no handler that owes a count is in flight, the count on the user's
\* screen is the number of unread notifications, unless the room was never told:
\* a broadcast pushes no count, a failed query ends a handler before its count,
\* a deletion trusts the read mark it found, or an older count was emitted
\* after a newer one.  Every handler of the notifications service counts after
\* it writes.
ShownExplained ==
    (shown # None /\ ~excused /\ \A r \in Workers : ~OwesCount(r))
      => shown = Unread

\* A handler that has stored its change is answered with a refusal only for a
\* teacher or a school admin who has another school than the account's own: the
\* stats query names all of them and runs in the tenant of one.
RefusalsExplained ==
    \A r \in Workers : task[r].at = "refused" =>
        /\ account.role \in {"teacher", "school_admin"}
        /\ \E s \in account.schools : s # account.tenant
=============================================================================
