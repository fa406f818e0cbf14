---------------------------- MODULE AuthSessions ----------------------------
(***************************************************************************)
(* Login sessions: refresh-token rows, their rotation, and the operations  *)
(* that end them (src/auth/auth.service.ts and the handlers that change a  *)
(* password elsewhere).                                                    *)
(*                                                                         *)
(* A request is a handler cut at its awaits on the database: every step    *)
(* of a request reads or writes the database once and works, in between,   *)
(* on what it read before.  Requests interleave step by step; a step may   *)
(* also be the last one the handler reaches (the database call rejects, or *)
(* the process dies).                                                      *)
(*                                                                         *)
(* A token id stands for one refresh JWT, for the access JWT minted next   *)
(* to it and for the RefreshToken row that holds the refresh JWT's hash.   *)
(* Two fields are history, written and never read by a handler: late, and  *)
(* the variables owed and revokedBelow.                                    *)
(***************************************************************************)
EXTENDS Naturals

CONSTANTS
    Users,          \* accounts, all of them with a tenant or global
    Students,       \* the accounts the school-admin password endpoint serves
    Requests,       \* request slots: how many handlers may run at once
    TokenId,        \* identities of issued token pairs
    MaxPassword,    \* bound: password changes explored per account
    MaxVersion,     \* bound: logouts explored per account
    Events          \* bound: which events of the environment are explored

ASSUME ConstantsOK ==
    /\ Students \subseteq Users
    /\ MaxPassword \in Nat
    /\ MaxVersion \in Nat
    /\ Events \subseteq {"fail", "expire", "switch"}

VARIABLES
    user,           \* the User row: password generation, flags, tokenVersion
    info,           \* what each issued token pair was minted from
    rows,           \* the RefreshToken rows present, by token id
    expired,        \* tokens whose expiry time has passed
    req,            \* what each request slot is doing
    owed,           \* history: a password was changed and nobody will revoke
    revokedBelow    \* history: the tokenVersion of the last sign-out of all

vars == <<user, info, rows, expired, req, owed, revokedBelow>>

UserRow == [password : Nat, mustChange : BOOLEAN, ver : Nat, active : BOOLEAN]

\* slot names the login a session descends from, pw the password generation
\* that login checked, ver the tokenVersion signed into the pair.
TokenInfo == [user : Users, ver : Nat, slot : TokenId, pw : Nat, late : BOOLEAN]

Issued == DOMAIN info

RowsOf(u) == {t \in rows : info[t].user = u}

Idle == [at |-> "idle"]

PasswordOps == {"own", "approve", "edit", "adminEdit"}

LoginRequest == [at : {"loginStore"}, user : Users, ver : Nat, pw : Nat,
                 late : BOOLEAN]
RefreshRequest == [at : {"rotateDelete", "rotateStore"}, user : Users,
                   ver : Nat, pw : Nat, slot : TokenId, late : BOOLEAN,
                   presented : TokenId, row : TokenId]
PasswordRequest == [at : {"write", "revoke"}, op : PasswordOps, user : Users]
LogoutRequest == [at : {"signOutFind", "signOutAll"}, user : Users, ver : Nat]
SignOutOneRequest == [at : {"signOutDelete"}, user : Users, row : TokenId]

Request == {Idle} \cup LoginRequest \cup RefreshRequest \cup PasswordRequest
             \cup LogoutRequest \cup SignOutOneRequest

\* A request that will insert a row for u whatever happens to the others.
Storing(r) == req[r].at \in {"loginStore", "rotateStore"}

\* JwtStrategy.validate: an access token is accepted while the tokenVersion
\* signed into it is the account's.
AccessAccepted(u) ==
    \E t \in Issued : info[t].user = u /\ info[t].ver = user[u].ver

\* bcrypt.compare(presented, row.token) hashes the first 72 bytes: the JWT
\* header and the start of the payload, {"sub":<id>,"email":"...".  They are
\* the same in all refresh tokens of an account whose e-mail did not change.
Matches(presented, t) == info[presented].user = info[t].user

Init ==
    /\ user = [u \in Users |-> [password |-> 0, mustChange |-> FALSE,
                                ver |-> 0, active |-> TRUE]]
    /\ info = [t \in {} |-> 0]
    /\ rows = {}
    /\ expired = {}
    /\ req = [r \in Requests |-> Idle]
    /\ owed = [u \in Users |-> FALSE]
    /\ revokedBelow = [u \in Users |-> 0]

-----------------------------------------------------------------------------
\* Login.

\* login() reads the account and checks it and the password against that read.
LoginRead(r, u) ==
    /\ req[r] = Idle
    /\ user[u].active
    /\ req' = [req EXCEPT ![r] = [at |-> "loginStore", user |-> u,
                                  ver |-> user[u].ver,
                                  pw |-> user[u].password, late |-> FALSE]]
    /\ UNCHANGED <<user, info, rows, expired, owed, revokedBelow>>

\* storeRefreshToken(): a row is inserted for a newly signed pair.
Store(t, tokenInfo) ==
    /\ info' = [x \in Issued \cup {t} |-> IF x = t THEN tokenInfo ELSE info[x]]
    /\ rows' = rows \cup {t}

\* generateTokens() signs the account as it was read; then the row is stored.
LoginStore(r, t) ==
    /\ req[r].at = "loginStore"
    /\ t \notin Issued
    /\ Store(t, [user |-> req[r].user, ver |-> req[r].ver, slot |-> t,
                 pw |-> req[r].pw, late |-> req[r].late])
    /\ req' = [req EXCEPT ![r] = Idle]
    /\ UNCHANGED <<user, expired, owed, revokedBelow>>

-----------------------------------------------------------------------------
\* Refresh.

\* refresh() verifies the presented JWT, reads the account's rows and the
\* account, and keeps the first unexpired row the comparison accepts; the
\* query has no order, so any of them may be first.
RefreshRead(r, t, m) ==
    LET u == info[t].user IN
    /\ req[r] = Idle
    /\ t \in Issued \ expired
    /\ m \in RowsOf(u) \ expired
    /\ Matches(t, m)
    /\ req' = [req EXCEPT ![r] = [at |-> "rotateDelete", user |-> u,
                                  ver |-> user[u].ver, pw |-> info[m].pw,
                                  slot |-> info[m].slot, late |-> info[m].late,
                                  presented |-> t, row |-> m]]
    /\ UNCHANGED <<user, info, rows, expired, owed, revokedBelow>>

\* Faulty variant of RefreshDelete: a row that is gone is not an error, as in
\* logout().
RefreshDeleteTolerant(r) ==
    /\ req[r].at = "rotateDelete"
    /\ req' = [req EXCEPT ![r].at = "rotateStore"]
    /\ rows' = rows \ {req[r].row}
    /\ UNCHANGED <<user, info, expired, owed, revokedBelow>>

\* refreshToken.delete() by id: it throws when another request deleted the
\* row first, and the refresh ends there.
RefreshDelete(r) ==
    /\ req[r].at = "rotateDelete"
    /\ req' = [req EXCEPT ![r] = IF req[r].row \in rows
                                 THEN [req[r] EXCEPT !.at = "rotateStore"]
                                 ELSE Idle]
    /\ rows' = rows \ {req[r].row}
    /\ UNCHANGED <<user, info, expired, owed, revokedBelow>>

RefreshStore(r, t) ==
    /\ req[r].at = "rotateStore"
    /\ t \notin Issued
    /\ Store(t, [user |-> req[r].user, ver |-> req[r].ver,
                 slot |-> req[r].slot, pw |-> req[r].pw, late |-> req[r].late])
    /\ req' = [req EXCEPT ![r] = Idle]
    /\ UNCHANGED <<user, expired, owed, revokedBelow>>

-----------------------------------------------------------------------------
\* Password changes that are followed by a deletion of the account's rows.

\* updatePassword() and resetPassword() ("own") are called with an access token
\* and check the current password against the row they read; an approved reset
\* request, the edit forms of students and teachers ("edit") and those of school
\* admins and schools ("adminEdit") are called by somebody else.
ChangeRead(r, u, op) ==
    /\ req[r] = Idle
    /\ op = "own" => AccessAccepted(u)
    /\ req' = [req EXCEPT ![r] = [at |-> "write", op |-> op, user |-> u]]
    /\ UNCHANGED <<user, info, rows, expired, owed, revokedBelow>>

MustChangeAfter(op, before) ==
    CASE op \in {"own", "adminEdit"} -> FALSE
      [] op = "approve" -> TRUE
      [] op = "edit" -> before

\* Faulty variant of ChangeWrite: the password is written with a fresh row.
ChangeWriteWholeRow(r) ==
    /\ req[r].at = "write"
    /\ user[req[r].user].password < MaxPassword
    /\ user' = [user EXCEPT ![req[r].user].password = @ + 1,
                            ![req[r].user].ver = 0]
    /\ req' = [req EXCEPT ![r].at = "revoke"]
    /\ UNCHANGED <<info, rows, expired, owed, revokedBelow>>

ChangeWrite(r) ==
    LET u == req[r].user IN
    /\ req[r].at = "write"
    /\ user[u].password < MaxPassword
    /\ user' = [user EXCEPT ![u].password = @ + 1,
                            ![u].mustChange = MustChangeAfter(req[r].op, @)]
    /\ req' = [req EXCEPT ![r].at = "revoke"]
    /\ UNCHANGED <<info, rows, expired, owed, revokedBelow>>

\* Faulty variant of DeleteAllRows: only rows of the present tokenVersion go.
DeleteCurrentRows(r, u) ==
    /\ rows' = rows \ {t \in RowsOf(u) : info[t].ver = user[u].ver}
    /\ req' = [req EXCEPT ![r] = Idle]

\* refreshToken.deleteMany({ where: { userId } }).  The requests past their
\* own read keep going: they are marked late.
DeleteAllRows(r, u) ==
    /\ rows' = rows \ RowsOf(u)
    /\ req' = [q \in Requests |->
                 IF q = r THEN Idle
                 ELSE IF Storing(q) /\ req[q].user = u
                      THEN [req[q] EXCEPT !.late = TRUE]
                      ELSE req[q]]

ChangeRevoke(r) ==
    /\ req[r].at = "revoke"
    /\ DeleteAllRows(r, req[r].user)
    /\ owed' = [owed EXCEPT ![req[r].user] = FALSE]
    /\ UNCHANGED <<user, info, expired, revokedBelow>>

\* changeStudentPassword(): the school admin's endpoint only writes the hash.
SetStudentPassword(u) ==
    /\ u \in Students
    /\ user[u].password < MaxPassword
    /\ user' = [user EXCEPT ![u].password = @ + 1]
    /\ owed' = [owed EXCEPT ![u] = TRUE]
    /\ UNCHANGED <<info, rows, expired, req, revokedBelow>>

-----------------------------------------------------------------------------
\* Logout.

\* logout() increments tokenVersion in the database, then signs out one
\* session (a refresh token came with the request) or all of them.
LogoutBump(r, u, next) ==
    /\ req[r] = Idle
    /\ AccessAccepted(u)
    /\ user[u].ver < MaxVersion
    /\ user' = [user EXCEPT ![u].ver = @ + 1]
    /\ req' = [req EXCEPT ![r] = [at |-> next, user |-> u,
                                  ver |-> user[u].ver + 1]]
    /\ UNCHANGED <<info, rows, expired, owed, revokedBelow>>

\* Here expired rows are compared too.
LogoutFind(r) ==
    /\ req[r].at = "signOutFind"
    /\ LET found == RowsOf(req[r].user) IN
         \/ /\ found = {}
            /\ req' = [req EXCEPT ![r] = Idle]
         \/ \E m \in found :
              req' = [req EXCEPT ![r] = [at |-> "signOutDelete",
                                         user |-> req[r].user, row |-> m]]
    /\ UNCHANGED <<user, info, rows, expired, owed, revokedBelow>>

\* delete().catch(() => {}): a row that is gone is not an error.
LogoutDelete(r) ==
    /\ req[r].at = "signOutDelete"
    /\ rows' = rows \ {req[r].row}
    /\ req' = [req EXCEPT ![r] = Idle]
    /\ UNCHANGED <<user, info, expired, owed, revokedBelow>>

LogoutAll(r) ==
    LET u == req[r].user IN
    /\ req[r].at = "signOutAll"
    /\ DeleteAllRows(r, u)
    /\ revokedBelow' = [revokedBelow EXCEPT
                          ![u] = IF @ < req[r].ver THEN req[r].ver ELSE @]
    /\ UNCHANGED <<user, info, expired, owed>>

-----------------------------------------------------------------------------
\* The administrators' switch, the clock, and failures.

SetActive(u) ==
    /\ "switch" \in Events
    /\ user' = [user EXCEPT ![u].active = ~@]
    /\ UNCHANGED <<info, rows, expired, req, owed, revokedBelow>>

Expire(t) ==
    /\ "expire" \in Events
    /\ t \in Issued \ expired
    /\ expired' = expired \cup {t}
    /\ UNCHANGED <<user, info, rows, req, owed, revokedBelow>>

\* The next database call of a handler rejects, or the process stops.
Fail(r) ==
    /\ "fail" \in Events
    /\ req[r] # Idle
    /\ req' = [req EXCEPT ![r] = Idle]
    /\ owed' = IF req[r].at = "revoke"
               THEN [owed EXCEPT ![req[r].user] = TRUE] ELSE owed
    /\ UNCHANGED <<user, info, rows, expired, revokedBelow>>

RequestStep(r) ==
    \/ \E u \in Users : LoginRead(r, u)
    \/ \E t \in TokenId : LoginStore(r, t) \/ RefreshStore(r, t)
    \/ \E t \in Issued : \E m \in rows : RefreshRead(r, t, m)
    \/ RefreshDelete(r)
    \/ \E u \in Users : \E op \in PasswordOps : ChangeRead(r, u, op)
    \/ ChangeWrite(r)
    \/ ChangeRevoke(r)
    \/ \E u \in Users : \E next \in {"signOutFind", "signOutAll"} :
         LogoutBump(r, u, next)
    \/ LogoutFind(r)
    \/ LogoutDelete(r)
    \/ LogoutAll(r)
    \/ Fail(r)

Next ==
    \/ \E r \in Requests : RequestStep(r)
    \/ \E u \in Users : SetStudentPassword(u) \/ SetActive(u)
    \/ \E t \in TokenId : Expire(t)

Spec == Init /\ [][Next]_vars

-----------------------------------------------------------------------------
\* The database and the requests in flight always have their types, and only
\* issued tokens have rows, expire or are worked on.
TypeOK ==
    /\ user \in [Users -> UserRow]
    /\ Issued \subseteq TokenId
    /\ info \in [Issued -> TokenInfo]
    /\ rows \subseteq Issued
    /\ expired \subseteq Issued
    /\ req \in [Requests -> Request]
    /\ owed \in [Users -> BOOLEAN]
    /\ revokedBelow \in [Users -> Nat]

\* Rotation is one row out, one row in: a login never ends up with two rows,
\* however many refreshes of it run at once (auth.service.ts:455-459).
NoSessionFork ==
    /\ \A t1, t2 \in rows : info[t1].slot = info[t2].slot => t1 = t2
    /\ \A r \in Requests : req[r].at = "rotateStore" =>
         /\ \A t \in rows : info[t].slot # req[r].slot
         /\ \A q \in Requests :
              q # r /\ req[q].at = "rotateStore" => req[q].slot # req[r].slot

\* A password was changed and its deleteMany is still to come, or never will.
RevocationOwed(u) ==
    \/ owed[u]
    \/ \E r \in Requests : req[r].at = "revoke" /\ req[r].user = u

\* A session opened with an earlier password is live only while a revocation
\* is owed, or when it was stored by a request the revocation overtook
\* (auth.service.ts:559-582: the password is written before the rows go).
OldSessionsExplained ==
    \A t \in rows :
        info[t].pw = user[info[t].user].password
          \/ info[t].late \/ RevocationOwed(info[t].user)

\* After a sign-out of all sessions, the rows minted before its increment are
\* gone, but for those of requests it overtook (auth.service.ts:627-705).
LogoutAllRevokes ==
    \A t \in rows :
        info[t].ver >= revokedBelow[info[t].user] \/ info[t].late

\* An access token that is refused is never accepted again, whatever stale
\* copies of the account the handlers work on (jwt.strategy.ts:51-56).
RefusedForever ==
    [][\A t \in Issued :
         info[t].ver # user[info[t].user].ver
           => info'[t].ver # user'[info[t].user].ver]_vars

\* "Rotation: delete the matched refresh token hash, store a new one"
\* (auth.service.ts:455): the row deleted is the presented token's.
RotatesPresentedToken ==
    \A r \in Requests :
        req[r].at = "rotateStore" => req[r].row = req[r].presented
=============================================================================
