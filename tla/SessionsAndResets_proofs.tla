---------------------- MODULE SessionsAndResets_proofs ----------------------
(***************************************************************************)
(* The two parts in which an account's access is decided: its sessions     *)
(* (AuthSessions) and, with its notifications, its requests for a new      *)
(* password (PasswordResets).                                              *)
(*                                                                         *)
(* AuthSessions, for any number of accounts, handlers and tokens: each     *)
(* property P has an inductive strengthening: SlotsInv (every row and      *)
(* every rotating request hangs under one login, and a row being rotated   *)
(* is the only holder of its session) for NoSessionFork; PasswordInv (what *)
(* a request carries from its read is current, marked as overtaken, or     *)
(* owed a revocation) for OldSessionsExplained; VersionsInv (the same for  *)
(* tokenVersion) for LogoutAllRevokes and RefusedForever.  Every one is    *)
(* shown by an Init lemma, lemmas on the helpers Store and DeleteAllRows,  *)
(* and a Step lemma with one case per action.                              *)
(*                                                                         *)
(* PasswordResets, for any kind of account and any number of handlers,     *)
(* notifications and requests: one inductive invariant, Inv, in parts.     *)
(*   ShownExplained    needs Fresh: a count that is not that of the rows   *)
(*                     and is about to be emitted is older than one that   *)
(*                     was emitted, or another is under way;               *)
(*   RefusalsExplained needs Within: a handler runs for the main           *)
(*                     administrators or in a tenant of the account;       *)
(*   RequestsHandled   needs RowKept: how far the only handler that        *)
(*                     decides a request has brought it; and SeenKept:     *)
(*                     what a form has seen decided stays so.              *)
(***************************************************************************)
EXTENDS AuthSessionsRegistry, PasswordResets, FiniteSetTheorems, TLAPS

Rotating(r) == req[r].at \in {"rotateDelete", "rotateStore"}

\* Sessions are rooted in issued pairs of the same account.
SlotsRooted ==
    /\ \A t \in Issued : /\ info[t].slot \in Issued
                         /\ info[info[t].slot].user = info[t].user
                         /\ info[info[t].slot].slot = info[t].slot
    /\ \A r \in Requests : Rotating(r) =>
         /\ req[r].row \in Issued
         /\ req[r].slot = info[req[r].row].slot
         /\ req[r].user = info[req[r].row].user

\* A refresh that has not deleted its row yet carries what that row carries.
RowCarried ==
    \A r \in Requests : req[r].at = "rotateDelete" =>
        /\ req[r].pw = info[req[r].row].pw
        /\ req[r].late = info[req[r].row].late

StoringExplained ==
    \A r \in Requests : Storing(r) =>
        req[r].pw = user[req[r].user].password
          \/ req[r].late \/ RevocationOwed(req[r].user)

VersionsBehind ==
    /\ \A u \in Users : revokedBelow[u] <= user[u].ver
    /\ \A t \in Issued : info[t].ver <= user[info[t].user].ver
    /\ \A r \in Requests :
         (Storing(r) \/ Rotating(r) \/ req[r].at = "signOutAll")
           => req[r].ver <= user[req[r].user].ver

\* What will still be stored was read after the last sign-out of all, or is
\* marked as overtaken by it.
StoringAfterLogout ==
    \A r \in Requests :
        Storing(r) \/ (req[r].at = "rotateDelete" /\ req[r].row \in rows)
          => req[r].ver >= revokedBelow[req[r].user] \/ req[r].late

-----------------------------------------------------------------------------
USE DEF UserRow, TokenInfo, Issued

LEMMA TypeInit == Init => TypeOK
BY ConstantsOK DEF Init, TypeOK, Idle, Request

\* What a request slot holds follows from how far its handler is.
LEMMA RequestAt ==
  ASSUME TypeOK, NEW r \in Requests
  PROVE  /\ req[r].at = "loginStore" => req[r] \in LoginRequest
         /\ req[r].at \in {"rotateDelete", "rotateStore"} => req[r] \in RefreshRequest
         /\ req[r].at \in {"write", "revoke"} => req[r] \in PasswordRequest
         /\ req[r].at \in {"signOutFind", "signOutAll"} => req[r] \in LogoutRequest
         /\ req[r].at = "signOutDelete" => req[r] \in SignOutOneRequest
         /\ req[r] = Idle => req[r].at = "idle"
BY DEF TypeOK, Request, Idle, LoginRequest, RefreshRequest, PasswordRequest,
       LogoutRequest, SignOutOneRequest

LEMMA TypeStep ==
  ASSUME TypeOK, [Next]_vars
  PROVE  TypeOK'
<1> USE DEF TypeOK
<1>1. ASSUME NEW r \in Requests, RequestStep(r)
      PROVE  TypeOK'
  <2>1. ASSUME NEW u \in Users, LoginRead(r, u) PROVE TypeOK'
    BY <2>1 DEF LoginRead, Request, LoginRequest
  <2>2. ASSUME NEW t \in TokenId, LoginStore(r, t) PROVE TypeOK'
    <3>1. req[r] \in LoginRequest
      BY <2>2, RequestAt DEF LoginStore
    <3> QED BY <2>2, <3>1 DEF LoginStore, Store, Request, LoginRequest
  <2>3. ASSUME NEW t \in TokenId, RefreshStore(r, t) PROVE TypeOK'
    <3>1. req[r] \in RefreshRequest
      BY <2>3, RequestAt DEF RefreshStore
    <3> QED BY <2>3, <3>1 DEF RefreshStore, Store, Request, RefreshRequest
  <2>4. ASSUME NEW t \in Issued, NEW m \in rows, RefreshRead(r, t, m)
        PROVE  TypeOK'
    BY <2>4 DEF RefreshRead, Request, RefreshRequest, RowsOf
  <2>5. CASE RefreshDelete(r)
    <3>1. req[r] \in RefreshRequest
      BY <2>5, RequestAt DEF RefreshDelete
    <3> QED BY <2>5, <3>1 DEF RefreshDelete, Request, RefreshRequest
  <2>6. ASSUME NEW u \in Users, NEW op \in PasswordOps, ChangeRead(r, u, op)
        PROVE  TypeOK'
    BY <2>6 DEF ChangeRead, Request, PasswordRequest
  <2>7. CASE ChangeWrite(r)
    <3>1. req[r] \in PasswordRequest
      BY <2>7, RequestAt DEF ChangeWrite
    <3>2. \A before \in BOOLEAN : MustChangeAfter(req[r].op, before) \in BOOLEAN
      BY <3>1 DEF MustChangeAfter, PasswordRequest, PasswordOps
    <3> QED BY <2>7, <3>1, <3>2 DEF ChangeWrite, Request, PasswordRequest
  <2>8. ASSUME NEW u \in Users, DeleteAllRows(r, u)
        PROVE  rows' \subseteq Issued /\ req' \in [Requests -> Request]
    <3>1. ASSUME NEW q \in Requests, Storing(q)
          PROVE  [req[q] EXCEPT !.late = TRUE] \in LoginRequest \cup RefreshRequest
      <4>1. req[q] \in LoginRequest \cup RefreshRequest
        BY <3>1, RequestAt DEF Storing
      <4> QED BY <4>1 DEF LoginRequest, RefreshRequest
    <3> QED BY <2>8, <3>1 DEF DeleteAllRows, RowsOf, Request
  <2>9. CASE ChangeRevoke(r)
    <3>1. req[r] \in PasswordRequest
      BY <2>9, RequestAt DEF ChangeRevoke
    <3> QED BY <2>8, <2>9, <3>1 DEF ChangeRevoke, PasswordRequest
  <2>10. ASSUME NEW u \in Users, NEW next \in {"signOutFind", "signOutAll"},
                LogoutBump(r, u, next)
         PROVE  TypeOK'
    BY <2>10 DEF LogoutBump, Request, LogoutRequest
  <2>11. CASE LogoutFind(r)
    <3>1. req[r] \in LogoutRequest
      BY <2>11, RequestAt DEF LogoutFind
    <3> QED BY <2>11, <3>1
            DEF LogoutFind, RowsOf, Request, LogoutRequest, SignOutOneRequest
  <2>12. CASE LogoutDelete(r)
    BY <2>12 DEF LogoutDelete, Request
  <2>13. CASE LogoutAll(r)
    <3>1. req[r] \in LogoutRequest
      BY <2>13, RequestAt DEF LogoutAll
    <3> QED BY <2>8, <2>13, <3>1 DEF LogoutAll, LogoutRequest
  <2>14. CASE Fail(r)
    BY <2>14 DEF Fail, Request
  <2> QED BY <1>1, <2>1, <2>2, <2>3, <2>4, <2>5, <2>6, <2>7, <2>9, <2>10,
             <2>11, <2>12, <2>13, <2>14 DEF RequestStep
<1>2. ASSUME NEW u \in Users, SetStudentPassword(u) \/ SetActive(u)
      PROVE  TypeOK'
  <2>1. CASE SetStudentPassword(u)
    BY <2>1 DEF SetStudentPassword
  <2>2. CASE SetActive(u)
    <3>1. \E b \in BOOLEAN : user' = [user EXCEPT ![u].active = b]
      BY <2>2, Zenon DEF SetActive
    <3> QED BY <2>2, <3>1 DEF SetActive
  <2> QED BY <1>2, <2>1, <2>2
<1>3. ASSUME NEW t \in TokenId, Expire(t)
      PROVE  TypeOK'
  BY <1>3 DEF Expire
<1>4. CASE UNCHANGED vars
  BY <1>4 DEF vars
<1> QED BY <1>1, <1>2, <1>3, <1>4 DEF Next

\* The database and the requests in flight always have their types.
THEOREM TypeCorrect == Spec => []TypeOK
<1> QED BY TypeInit, TypeStep, PTL DEF Spec

-----------------------------------------------------------------------------
\* What a token pair was minted from never changes.
LEMMA InfoKept ==
  ASSUME TypeOK, [Next]_vars, NEW t \in Issued
  PROVE  t \in Issued' /\ info'[t] = info[t]
<1>1. CASE UNCHANGED info
  BY <1>1
<1>2. ASSUME NEW r \in Requests, NEW n \in TokenId,
             LoginStore(r, n) \/ RefreshStore(r, n)
      PROVE  t \in Issued' /\ info'[t] = info[t]
  BY <1>2 DEF LoginStore, RefreshStore, Store
<1>3. ASSUME NEW r \in Requests, RequestStep(r)
      PROVE  UNCHANGED info \/ \E n \in TokenId : LoginStore(r, n) \/ RefreshStore(r, n)
  <2>1. ASSUME NEW u \in Users, LoginRead(r, u)  PROVE  UNCHANGED info
    BY <2>1 DEF LoginRead
  <2>2. ASSUME NEW t0 \in Issued, NEW m \in rows, RefreshRead(r, t0, m)  PROVE  UNCHANGED info
    BY <2>2 DEF RefreshRead
  <2>3. RefreshDelete(r) => UNCHANGED info
    BY DEF RefreshDelete
  <2>4. ASSUME NEW u \in Users, NEW op \in PasswordOps, ChangeRead(r, u, op)
        PROVE  UNCHANGED info
    BY <2>4 DEF ChangeRead
  <2>5. ChangeWrite(r) => UNCHANGED info
    BY DEF ChangeWrite
  <2>6. ChangeRevoke(r) => UNCHANGED info
    BY DEF ChangeRevoke
  <2>7. ASSUME NEW u \in Users, NEW next \in {"signOutFind", "signOutAll"},
               LogoutBump(r, u, next)
        PROVE  UNCHANGED info
    BY <2>7 DEF LogoutBump
  <2>8. LogoutFind(r) \/ LogoutDelete(r) \/ LogoutAll(r) \/ Fail(r) => UNCHANGED info
    BY DEF LogoutFind, LogoutDelete, LogoutAll, Fail
  <2> QED
    BY <1>3, <2>1, <2>2, <2>3, <2>4, <2>5, <2>6, <2>7, <2>8 DEF RequestStep
<1>4. ASSUME ~ \E r \in Requests : RequestStep(r)
      PROVE  UNCHANGED info
  BY <1>4 DEF Next, vars, SetStudentPassword, SetActive, Expire
<1> QED
  BY <1>1, <1>2, <1>3, <1>4

\* deleteMany leaves every other request as it was, up to its mark.
LEMMA DeleteKeeps ==
  ASSUME TypeOK, NEW r \in Requests, NEW u \in Users, DeleteAllRows(r, u),
         NEW q \in Requests
  PROVE  \/ q = r /\ req'[q] = Idle
         \/ q # r /\ req'[q] = req[q]
         \/ /\ q # r /\ Storing(q) /\ req[q].user = u
            /\ req'[q] = [req[q] EXCEPT !.late = TRUE]
            /\ req'[q].at = req[q].at /\ req'[q].user = req[q].user
            /\ req'[q].ver = req[q].ver /\ req'[q].pw = req[q].pw
            /\ req'[q].late
            /\ req[q].at = "rotateStore" =>
                 req'[q].slot = req[q].slot /\ req'[q].row = req[q].row
<1>1. ASSUME Storing(q)
      PROVE  req[q] \in LoginRequest \cup RefreshRequest
  BY <1>1, RequestAt DEF Storing
<1>2. CASE Storing(q) /\ req[q].user = u /\ q # r
  <2>1. req'[q] = [req[q] EXCEPT !.late = TRUE]
    BY <1>2 DEF DeleteAllRows
  <2>2. CASE req[q] \in LoginRequest
    BY <1>2, <2>1, <2>2 DEF LoginRequest
  <2>3. CASE req[q] \in RefreshRequest
    BY <1>2, <2>1, <2>3 DEF RefreshRequest
  <2> QED BY <1>1, <1>2, <2>2, <2>3
<1>3. CASE ~(Storing(q) /\ req[q].user = u) \/ q = r
  BY <1>3 DEF DeleteAllRows
<1> QED BY <1>2, <1>3

-----------------------------------------------------------------------------
SlotsInv == SlotsRooted /\ RowCarried /\ NoSessionFork

LEMMA SlotsInit == Init => SlotsInv
BY DEF Init, SlotsInv, SlotsRooted, RowCarried, NoSessionFork, Rotating, Idle

\* A new row under slot s is the only holder of s afterwards.
LEMMA StoreSlots ==
  ASSUME TypeOK, SlotsInv, NEW r \in Requests, NEW t \in TokenId \ Issued,
         NEW i \in TokenInfo, Store(t, i),
         req' = [req EXCEPT ![r] = Idle],
         \/ i.slot = t
         \/ /\ req[r].at = "rotateStore" /\ i.slot = req[r].slot
            /\ i.user = req[r].user
  PROVE  SlotsInv'
<1> USE DEF TypeOK, SlotsInv
<1>1. \A x \in Issued : x \in Issued' /\ info'[x] = info[x]
  BY DEF Store
<1>2. t \in Issued' /\ info'[t] = i /\ Issued' = Issued \cup {t}
  BY DEF Store
<1>3. req'[r].at = "idle" /\ \A q \in Requests \ {r} : req'[q] = req[q]
  BY DEF Idle
<1>4. \A x \in Issued : info[x].slot \in Issued
  BY DEF SlotsRooted
<1>5. req[r].at = "rotateStore" =>
        /\ req[r].slot \in Issued /\ info[req[r].slot].user = req[r].user
        /\ info[req[r].slot].slot = req[r].slot
  BY DEF SlotsRooted, Rotating
<1>6. SlotsRooted'
  <2>1. ASSUME NEW x \in Issued'
        PROVE  /\ info'[x].slot \in Issued'
               /\ info'[info'[x].slot].user = info'[x].user
               /\ info'[info'[x].slot].slot = info'[x].slot
    <3>1. CASE x \in Issued
      BY <1>1, <3>1 DEF SlotsRooted
    <3>2. CASE x = t /\ i.slot = t
      BY <1>2, <3>2
    <3>3. CASE x = t /\ i.slot # t
      BY <1>1, <1>2, <1>5, <3>3
    <3> QED BY <1>2, <2>1, <3>1, <3>2, <3>3
  <2>2. ASSUME NEW q \in Requests, Rotating(q)'
        PROVE  /\ req'[q].row \in Issued'
               /\ req'[q].slot = info'[req'[q].row].slot
               /\ req'[q].user = info'[req'[q].row].user
    <3>1. q # r /\ Rotating(q)
      BY <1>3, <2>2 DEF Rotating
    <3> QED BY <1>1, <1>3, <3>1 DEF SlotsRooted
  <2> QED BY <2>1, <2>2 DEF SlotsRooted
<1>7. RowCarried'
  BY <1>1, <1>3 DEF RowCarried, SlotsRooted, Rotating
<1>8. NoSessionFork'
  <2>1. \A x \in rows : info[x].slot # i.slot
    BY <1>4 DEF NoSessionFork
  <2>2. \A x, y \in rows' : info'[x].slot = info'[y].slot => x = y
    BY <1>1, <1>2, <2>1 DEF NoSessionFork, Store
  <2>3. ASSUME NEW q \in Requests, req'[q].at = "rotateStore"
        PROVE  /\ \A x \in rows' : info'[x].slot # req'[q].slot
               /\ \A p \in Requests :
                    p # q /\ req'[p].at = "rotateStore" => req'[p].slot # req'[q].slot
    <3>1. q # r /\ req'[q] = req[q] /\ req[q].at = "rotateStore"
      BY <1>3, <2>3
    <3>2. req[q].slot \in Issued
      BY <1>4, <3>1 DEF SlotsRooted, Rotating
    <3>3. i.slot # req[q].slot
      BY <3>1, <3>2 DEF NoSessionFork
    <3> QED BY <1>1, <1>2, <1>3, <3>1, <3>3 DEF NoSessionFork, Store
  <2> QED BY <2>2, <2>3 DEF NoSessionFork
<1> QED BY <1>6, <1>7, <1>8

\* Deleting rows and ending or marking requests keeps the sessions in order.
LEMMA SlotsShrink ==
  ASSUME TypeOK, SlotsInv, info' = info, rows' \subseteq rows,
         \A q \in Requests : Rotating(q)' =>
           /\ req'[q].at = req[q].at /\ req'[q].row = req[q].row
           /\ req'[q].slot = req[q].slot /\ req'[q].user = req[q].user
           /\ req[q].at = "rotateDelete" =>
                req'[q].pw = req[q].pw /\ req'[q].late = req[q].late
  PROVE  SlotsInv'
BY DEF SlotsInv, SlotsRooted, RowCarried, NoSessionFork, Rotating

LEMMA SlotsStep ==
  ASSUME TypeOK, SlotsInv, [Next]_vars
  PROVE  SlotsInv'
<1>1. ASSUME NEW r \in Requests, RequestStep(r)
      PROVE  SlotsInv'
  <2>1. ASSUME NEW u \in Users, LoginRead(r, u) PROVE SlotsInv'
    BY <2>1, SlotsShrink DEF LoginRead, Rotating, TypeOK
  <2>2. ASSUME NEW t \in TokenId, LoginStore(r, t) PROVE SlotsInv'
    <3>1. req[r] \in LoginRequest
      BY <2>2, RequestAt DEF LoginStore
    <3> DEFINE i == [user |-> req[r].user, ver |-> req[r].ver, slot |-> t,
                     pw |-> req[r].pw, late |-> req[r].late]
    <3>2. i \in TokenInfo /\ i.slot = t
      BY <3>1 DEF LoginRequest
    <3>3. t \notin Issued /\ Store(t, i) /\ req' = [req EXCEPT ![r] = Idle]
      BY <2>2 DEF LoginStore
    <3> HIDE DEF i
    <3> QED BY <3>2, <3>3, StoreSlots
  <2>3. ASSUME NEW t \in TokenId, RefreshStore(r, t) PROVE SlotsInv'
    <3>1. req[r] \in RefreshRequest /\ req[r].at = "rotateStore"
      BY <2>3, RequestAt DEF RefreshStore
    <3> DEFINE i == [user |-> req[r].user, ver |-> req[r].ver,
                     slot |-> req[r].slot, pw |-> req[r].pw,
                     late |-> req[r].late]
    <3>2. i \in TokenInfo /\ i.slot = req[r].slot /\ i.user = req[r].user
      BY <3>1 DEF RefreshRequest
    <3>3. t \notin Issued /\ Store(t, i) /\ req' = [req EXCEPT ![r] = Idle]
      BY <2>3 DEF RefreshStore
    <3> HIDE DEF i
    <3> QED BY <3>1, <3>2, <3>3, StoreSlots
  <2>4. ASSUME NEW t \in Issued, NEW m \in rows, RefreshRead(r, t, m)
        PROVE  SlotsInv'
    <3>1. /\ req'[r].at = "rotateDelete" /\ req'[r].row = m
          /\ req'[r].slot = info[m].slot /\ req'[r].user = info[m].user
          /\ req'[r].pw = info[m].pw /\ req'[r].late = info[m].late
          /\ m \in Issued
      BY <2>4 DEF RefreshRead, RowsOf, TypeOK
    <3>2. \A q \in Requests \ {r} : req'[q] = req[q]
      BY <2>4 DEF RefreshRead, TypeOK
    <3>3. info' = info /\ rows' = rows
      BY <2>4 DEF RefreshRead
    <3>4. \A q \in Requests : req'[q].at = "rotateStore" => q # r
      BY <3>1
    <3>5. SlotsRooted'
      BY <3>1, <3>2, <3>3 DEF SlotsInv, SlotsRooted, Rotating
    <3>6. RowCarried'
      BY <3>1, <3>2, <3>3 DEF SlotsInv, RowCarried
    <3>7. NoSessionFork'
      BY <3>2, <3>3, <3>4 DEF SlotsInv, NoSessionFork
    <3> QED BY <3>5, <3>6, <3>7 DEF SlotsInv
  <2>5. CASE RefreshDelete(r)
    <3>1. req[r] \in RefreshRequest /\ req[r].at = "rotateDelete"
      BY <2>5, RequestAt DEF RefreshDelete
    <3>2. \A q \in Requests \ {r} : req'[q] = req[q]
      BY <2>5 DEF RefreshDelete, TypeOK
    <3>3. info' = info /\ rows' = rows \ {req[r].row}
      BY <2>5 DEF RefreshDelete
    <3>4. CASE req[r].row \in rows
      <4>1. /\ req'[r].at = "rotateStore" /\ req'[r].row = req[r].row
            /\ req'[r].slot = req[r].slot /\ req'[r].user = req[r].user
        BY <2>5, <3>1, <3>4 DEF RefreshDelete, TypeOK, RefreshRequest
      <4>2. SlotsRooted'
        BY <3>1, <3>2, <3>3, <4>1 DEF SlotsInv, SlotsRooted, Rotating
      <4>3. RowCarried'
        BY <3>2, <3>3, <4>1 DEF SlotsInv, RowCarried
      <4>4. req[r].slot = info[req[r].row].slot
        BY <3>1 DEF SlotsInv, SlotsRooted, Rotating
      <4>5. \A x \in rows' : info[x].slot # req[r].slot
        BY <3>3, <3>4, <4>4 DEF SlotsInv, NoSessionFork
      <4>6. \A q \in Requests : req[q].at = "rotateStore"
                                 => req[q].slot # req[r].slot
        BY <3>4, <4>4 DEF SlotsInv, NoSessionFork
      <4>7. NoSessionFork'
        BY <3>2, <3>3, <4>1, <4>5, <4>6 DEF SlotsInv, NoSessionFork
      <4> QED BY <4>2, <4>3, <4>7 DEF SlotsInv
    <3>5. CASE req[r].row \notin rows
      <4>1. req'[r].at = "idle"
        BY <2>5, <3>5 DEF RefreshDelete, TypeOK, Idle
      <4> QED BY <3>2, <3>3, <4>1, SlotsShrink DEF Rotating
    <3> QED BY <3>4, <3>5
  <2>6. ASSUME NEW u \in Users, NEW op \in PasswordOps, ChangeRead(r, u, op)
        PROVE  SlotsInv'
    BY <2>6, SlotsShrink DEF ChangeRead, Rotating, TypeOK
  <2>7. CASE ChangeWrite(r)
    <3>1. req'[r].at = "revoke" /\ \A q \in Requests \ {r} : req'[q] = req[q]
      <4>1. req[r] \in PasswordRequest
        BY <2>7, RequestAt DEF ChangeWrite
      <4> QED BY <2>7, <4>1 DEF ChangeWrite, TypeOK, PasswordRequest
    <3> QED BY <2>7, <3>1, SlotsShrink DEF ChangeWrite, Rotating
  <2>8. ASSUME NEW u \in Users, DeleteAllRows(r, u), UNCHANGED info
        PROVE  SlotsInv'
    <3>1. ASSUME NEW q \in Requests, Rotating(q)'
          PROVE  /\ req'[q].at = req[q].at /\ req'[q].row = req[q].row
                 /\ req'[q].slot = req[q].slot /\ req'[q].user = req[q].user
                 /\ req[q].at = "rotateDelete" =>
                      req'[q].pw = req[q].pw /\ req'[q].late = req[q].late
      <4>1. CASE q = r /\ req'[q] = Idle
        BY <3>1, <4>1 DEF Rotating, Idle
      <4>2. CASE req'[q] = req[q]
        BY <4>2
      <4>3. CASE /\ Storing(q)
                 /\ req'[q].at = req[q].at /\ req'[q].user = req[q].user
                 /\ req[q].at = "rotateStore" =>
                      req'[q].slot = req[q].slot /\ req'[q].row = req[q].row
        BY <3>1, <4>3 DEF Rotating, Storing
      <4>4. \/ q = r /\ req'[q] = Idle
            \/ req'[q] = req[q]
            \/ /\ Storing(q)
               /\ req'[q].at = req[q].at /\ req'[q].user = req[q].user
               /\ req[q].at = "rotateStore" =>
                    req'[q].slot = req[q].slot /\ req'[q].row = req[q].row
        BY <2>8, DeleteKeeps
      <4> QED BY <4>1, <4>2, <4>3, <4>4
    <3>2. rows' \subseteq rows
      BY <2>8 DEF DeleteAllRows
    <3> QED BY <2>8, <3>1, <3>2, SlotsShrink
  <2>9. CASE ChangeRevoke(r)
    <3>1. req[r].user \in Users
      BY <2>9, RequestAt DEF ChangeRevoke, PasswordRequest
    <3> QED BY <2>8, <2>9, <3>1 DEF ChangeRevoke
  <2>10. ASSUME NEW u \in Users, NEW next \in {"signOutFind", "signOutAll"},
                LogoutBump(r, u, next)
         PROVE  SlotsInv'
    BY <2>10, SlotsShrink DEF LogoutBump, Rotating, TypeOK
  <2>11. CASE LogoutFind(r)
    <3>1. req'[r].at \in {"idle", "signOutDelete"}
      BY <2>11 DEF LogoutFind, TypeOK, Idle
    <3>2. \A q \in Requests \ {r} : req'[q] = req[q]
      BY <2>11 DEF LogoutFind, TypeOK
    <3>3. info' = info /\ rows' = rows
      BY <2>11 DEF LogoutFind
    <3> QED BY <3>1, <3>2, <3>3, SlotsShrink DEF Rotating
  <2>12. CASE LogoutDelete(r)
    BY <2>12, SlotsShrink DEF LogoutDelete, Rotating, TypeOK, Idle
  <2>13. CASE LogoutAll(r)
    <3>1. req[r].user \in Users
      BY <2>13, RequestAt DEF LogoutAll, LogoutRequest
    <3> QED BY <2>8, <2>13, <3>1 DEF LogoutAll
  <2>14. CASE Fail(r)
    BY <2>14, SlotsShrink DEF Fail, Rotating, TypeOK, Idle
  <2> QED BY <1>1, <2>1, <2>2, <2>3, <2>4, <2>5, <2>6, <2>7, <2>9, <2>10,
             <2>11, <2>12, <2>13, <2>14 DEF RequestStep
<1>2. CASE UNCHANGED <<info, rows, req>>
  BY <1>2, SlotsShrink DEF Rotating
<1> QED BY <1>1, <1>2 DEF Next, vars, SetStudentPassword, SetActive, Expire

\* However many refreshes of a login run at once, it keeps at most one row.
THEOREM SessionsNeverFork == Spec => []NoSessionFork
<1>1. Init => TypeOK /\ SlotsInv
  BY TypeInit, SlotsInit
<1>2. (TypeOK /\ SlotsInv) /\ [Next]_vars => (TypeOK /\ SlotsInv)'
  BY TypeStep, SlotsStep
<1>3. SlotsInv => NoSessionFork
  BY DEF SlotsInv
<1> QED BY <1>1, <1>2, <1>3, PTL DEF Spec

-----------------------------------------------------------------------------
PasswordInv == StoringExplained /\ OldSessionsExplained

LEMMA PasswordInit == Init => PasswordInv
BY DEF Init, PasswordInv, StoringExplained, OldSessionsExplained, Storing, Idle

\* Steps that write no password, drop no debt, and at most end requests or
\* remove rows.
LEMMA PasswordKept ==
  ASSUME TypeOK, PasswordInv, info' = info, rows' \subseteq rows,
         \A u \in Users : user'[u].password = user[u].password,
         \A u \in Users : RevocationOwed(u) => RevocationOwed(u)',
         \A q \in Requests : Storing(q)' =>
           /\ Storing(q) /\ req'[q].pw = req[q].pw
           /\ req'[q].user = req[q].user /\ req'[q].late = req[q].late
  PROVE  PasswordInv'
<1>1. ASSUME NEW q \in Requests, Storing(q)
      PROVE  req[q].user \in Users
  BY <1>1, RequestAt DEF Storing, LoginRequest, RefreshRequest
<1>2. StoringExplained'
  BY <1>1 DEF PasswordInv, StoringExplained
<1>3. \A t \in rows : info[t].user \in Users
  BY DEF TypeOK
<1>4. OldSessionsExplained'
  BY <1>3 DEF PasswordInv, OldSessionsExplained
<1> QED BY <1>2, <1>4 DEF PasswordInv

\* A row stored by a request is explained by what explained the request.
LEMMA PasswordStore ==
  ASSUME TypeOK, PasswordInv, NEW r \in Requests, NEW t \in TokenId \ Issued,
         NEW i \in TokenInfo, Store(t, i), Storing(r),
         i.user = req[r].user, i.pw = req[r].pw, i.late = req[r].late,
         req' = [req EXCEPT ![r] = Idle], user' = user, owed' = owed
  PROVE  PasswordInv'
<1>1. req'[r].at = "idle" /\ \A q \in Requests \ {r} : req'[q] = req[q]
  BY DEF TypeOK, Idle
<1>2. \A u \in Users : RevocationOwed(u) => RevocationOwed(u)'
  BY <1>1 DEF RevocationOwed, Storing
<1>3. \A x \in Issued : info'[x] = info[x]
  BY DEF Store
<1>4. info'[t] = i
  BY DEF Store
<1>5. ASSUME NEW q \in Requests, Storing(q)
      PROVE  req[q].user \in Users
  BY <1>5, RequestAt DEF Storing, LoginRequest, RefreshRequest
<1>6. StoringExplained'
  BY <1>1, <1>2, <1>5 DEF PasswordInv, StoringExplained, Storing
<1>7. ASSUME NEW x \in rows'
      PROVE  (info[x].pw = user[info[x].user].password
                 \/ info[x].late \/ RevocationOwed(info[x].user))'
  <2>1. CASE x \in rows
    BY <1>2, <1>3, <2>1 DEF PasswordInv, OldSessionsExplained, TypeOK
  <2>2. CASE x = t
    BY <1>2, <1>4, <1>5, <2>2 DEF PasswordInv, StoringExplained
  <2> QED BY <1>7, <2>1, <2>2 DEF Store
<1>8. OldSessionsExplained'
  BY <1>7 DEF OldSessionsExplained
<1> QED BY <1>6, <1>8 DEF PasswordInv

\* deleteMany settles the debt of the account it is for.
LEMMA PasswordDelete ==
  ASSUME TypeOK, PasswordInv, NEW r \in Requests, NEW u \in Users,
         DeleteAllRows(r, u), info' = info, user' = user,
         \A v \in Users \ {u} : owed'[v] = owed[v],
         req[r].user = u \/ req[r].at # "revoke"
  PROVE  PasswordInv'
<1>1. ASSUME NEW v \in Users \ {u}, RevocationOwed(v)
      PROVE  RevocationOwed(v)'
  <2>1. CASE owed[v]
    BY <2>1 DEF RevocationOwed
  <2>2. ASSUME NEW q \in Requests, req[q].at = "revoke", req[q].user = v
        PROVE  RevocationOwed(v)'
    <3>1. q # r
      BY <2>2
    <3>2. req'[q] = req[q]
      BY <2>2, <3>1 DEF DeleteAllRows, Storing
    <3> QED BY <2>2, <3>2 DEF RevocationOwed
  <2> QED BY <1>1, <2>1, <2>2 DEF RevocationOwed
<1>2. ASSUME NEW q \in Requests, Storing(q)'
      PROVE  (req[q].pw = user[req[q].user].password
                 \/ req[q].late \/ RevocationOwed(req[q].user))'
  <2>1. q # r
    BY <1>2 DEF DeleteAllRows, Storing, Idle
  <2>2. CASE req'[q] = req[q] /\ req[q].user # u
    <3>1. Storing(q) /\ req[q].user \in Users
      BY <1>2, <2>2, RequestAt DEF Storing, LoginRequest, RefreshRequest
    <3> QED BY <1>1, <2>2, <3>1 DEF PasswordInv, StoringExplained
  <2>3. CASE req'[q].late
    BY <2>3
  <2>4. CASE req'[q] = req[q] /\ req[q].user = u
    <3>1. Storing(q)
      BY <1>2, <2>4 DEF Storing
    <3>2. req'[q] = [req[q] EXCEPT !.late = TRUE]
      BY <2>1, <2>4, <3>1 DEF DeleteAllRows
    <3>3. req[q] \in LoginRequest \/ req[q] \in RefreshRequest
      BY <3>1, RequestAt DEF Storing
    <3>4. req'[q].late
      BY <3>2, <3>3 DEF LoginRequest, RefreshRequest
    <3> QED BY <3>4
  <2> QED BY <2>1, <2>2, <2>3, <2>4, DeleteKeeps
<1>3. ASSUME NEW x \in rows'
      PROVE  (info[x].pw = user[info[x].user].password
                 \/ info[x].late \/ RevocationOwed(info[x].user))'
  <2>1. x \in rows /\ info[x].user \in Users \ {u} /\ info'[x] = info[x]
    BY <1>3 DEF DeleteAllRows, RowsOf, TypeOK
  <2> DEFINE v == info[x].user
  <2>2. info[x].pw = user[v].password \/ info[x].late \/ RevocationOwed(v)
    BY <2>1 DEF PasswordInv, OldSessionsExplained
  <2> QED BY <1>1, <2>1, <2>2
<1> QED BY <1>2, <1>3 DEF PasswordInv, StoringExplained, OldSessionsExplained

LEMMA PasswordStep ==
  ASSUME TypeOK, SlotsInv, PasswordInv, [Next]_vars
  PROVE  PasswordInv'
<1>1. ASSUME NEW r \in Requests, RequestStep(r)
      PROVE  PasswordInv'
  <2> DEFINE Others == \A q \in Requests \ {r} : req'[q] = req[q]
             Row(v) == user'[v].password = user[v].password
             Carried(q) == /\ Storing(q) /\ req'[q].pw = req[q].pw
                           /\ req'[q].user = req[q].user
                           /\ req'[q].late = req[q].late
  <2>0. ASSUME Others, owed' = owed, req[r].at # "revoke"
        PROVE  \A u \in Users : RevocationOwed(u) => RevocationOwed(u)'
    BY <2>0 DEF RevocationOwed
  <2>k. ASSUME Others, owed' = owed, req[r].at # "revoke", info' = info,
               rows' \subseteq rows, \A v \in Users : Row(v), ~Storing(r)'
        PROVE  PasswordInv'
    <3>1. ASSUME NEW q \in Requests, Storing(q)' PROVE Carried(q)
      BY <2>k, <3>1 DEF Storing
    <3> QED BY <2>0, <2>k, <3>1, PasswordKept
  <2>1. ASSUME NEW u \in Users, LoginRead(r, u) PROVE PasswordInv'
    <3>1. /\ req'[r].pw = user[u].password /\ req'[r].user = u /\ Others
          /\ req[r].at = "idle"
          /\ info' = info /\ rows' = rows /\ user' = user /\ owed' = owed
      BY <2>1 DEF LoginRead, TypeOK, Idle
    <3>2. \A v \in Users : RevocationOwed(v) => RevocationOwed(v)'
      BY <2>0, <3>1
    <3>3. ASSUME NEW q \in Requests, Storing(q)', q # r
          PROVE  (req[q].pw = user[req[q].user].password
                    \/ req[q].late \/ RevocationOwed(req[q].user))'
      <4>1. Storing(q) /\ req'[q] = req[q]
        BY <3>1, <3>3 DEF Storing
      <4>2. req[q].user \in Users
        BY <4>1, RequestAt DEF Storing, LoginRequest, RefreshRequest
      <4> QED BY <3>1, <3>2, <4>1, <4>2 DEF PasswordInv, StoringExplained
    <3>4. StoringExplained'
      BY <3>1, <3>3 DEF StoringExplained
    <3>5. OldSessionsExplained'
      BY <3>1, <3>2 DEF PasswordInv, OldSessionsExplained, TypeOK
    <3> QED BY <3>4, <3>5 DEF PasswordInv
  <2>2. ASSUME NEW t \in TokenId, LoginStore(r, t) PROVE PasswordInv'
    <3>1. req[r] \in LoginRequest /\ req[r].at = "loginStore"
      BY <2>2, RequestAt DEF LoginStore
    <3> DEFINE i == [user |-> req[r].user, ver |-> req[r].ver, slot |-> t,
                     pw |-> req[r].pw, late |-> req[r].late]
    <3>2. /\ i \in TokenInfo /\ i.user = req[r].user /\ i.pw = req[r].pw
          /\ i.late = req[r].late
      BY <3>1 DEF LoginRequest
    <3>3. /\ t \notin Issued /\ Store(t, i) /\ req' = [req EXCEPT ![r] = Idle]
          /\ user' = user /\ owed' = owed
      BY <2>2 DEF LoginStore
    <3> HIDE DEF i
    <3> QED BY <3>1, <3>2, <3>3, PasswordStore DEF Storing
  <2>3. ASSUME NEW t \in TokenId, RefreshStore(r, t) PROVE PasswordInv'
    <3>1. req[r] \in RefreshRequest /\ req[r].at = "rotateStore"
      BY <2>3, RequestAt DEF RefreshStore
    <3> DEFINE i == [user |-> req[r].user, ver |-> req[r].ver,
                     slot |-> req[r].slot, pw |-> req[r].pw,
                     late |-> req[r].late]
    <3>2. /\ i \in TokenInfo /\ i.user = req[r].user /\ i.pw = req[r].pw
          /\ i.late = req[r].late
      BY <3>1 DEF RefreshRequest
    <3>3. /\ t \notin Issued /\ Store(t, i) /\ req' = [req EXCEPT ![r] = Idle]
          /\ user' = user /\ owed' = owed
      BY <2>3 DEF RefreshStore
    <3> HIDE DEF i
    <3> QED BY <3>1, <3>2, <3>3, PasswordStore DEF Storing
  <2>4. ASSUME NEW t \in Issued, NEW m \in rows, RefreshRead(r, t, m)
        PROVE  PasswordInv'
    <3>1. req'[r].at = "rotateDelete" /\ Others /\ req[r].at = "idle"
      BY <2>4 DEF RefreshRead, TypeOK, Idle
    <3> QED BY <2>4, <2>k, <3>1 DEF RefreshRead, Storing
  <2>5. CASE RefreshDelete(r)
    <3>1. req[r] \in RefreshRequest /\ req[r].at = "rotateDelete"
      BY <2>5, RequestAt DEF RefreshDelete
    <3>2. /\ Others /\ info' = info /\ rows' \subseteq rows /\ user' = user
          /\ owed' = owed
      BY <2>5 DEF RefreshDelete, TypeOK
    <3>3. CASE req[r].row \in rows
      <4>1. /\ req'[r].at = "rotateStore" /\ req'[r].user = req[r].user
            /\ req'[r].pw = req[r].pw /\ req'[r].late = req[r].late
        BY <2>5, <3>1, <3>3 DEF RefreshDelete, TypeOK, RefreshRequest
      <4>2. /\ req[r].user = info[req[r].row].user
            /\ req[r].pw = info[req[r].row].pw
            /\ req[r].late = info[req[r].row].late
        BY <3>1 DEF SlotsInv, SlotsRooted, RowCarried, Rotating
      <4>3. \A v \in Users : RevocationOwed(v) => RevocationOwed(v)'
        BY <2>0, <3>1, <3>2
      <4>4. req[r].pw = user[req[r].user].password \/ req[r].late
              \/ RevocationOwed(req[r].user)
        BY <3>3, <4>2 DEF PasswordInv, OldSessionsExplained
      <4>5. ASSUME NEW q \in Requests, Storing(q)'
            PROVE  (req[q].pw = user[req[q].user].password
                      \/ req[q].late \/ RevocationOwed(req[q].user))'
        <5>1. CASE q = r
          <6>1. PICK v \in Users : v = req[r].user
            BY <3>1 DEF RefreshRequest
          <6>2. RevocationOwed(v) => RevocationOwed(v)'
            BY <4>3
          <6> QED BY <3>2, <4>1, <4>4, <5>1, <6>1, <6>2
        <5>2. CASE q # r
          <6>1. Storing(q) /\ req'[q] = req[q]
            BY <3>2, <4>5, <5>2 DEF Storing
          <6>2. req[q].user \in Users
            BY <6>1, RequestAt DEF Storing, LoginRequest, RefreshRequest
          <6> QED BY <3>2, <4>3, <6>1, <6>2 DEF PasswordInv, StoringExplained
        <5> QED BY <5>1, <5>2
      <4>6. OldSessionsExplained'
        BY <3>2, <4>3 DEF PasswordInv, OldSessionsExplained, TypeOK
      <4> QED BY <4>5, <4>6 DEF PasswordInv, StoringExplained
    <3>4. CASE req[r].row \notin rows
      <4>1. ~Storing(r)'
        BY <2>5, <3>4 DEF RefreshDelete, TypeOK, Idle, Storing
      <4> QED BY <2>k, <3>1, <3>2, <4>1
    <3> QED BY <3>3, <3>4
  <2>6. ASSUME NEW u \in Users, NEW op \in PasswordOps, ChangeRead(r, u, op)
        PROVE  PasswordInv'
    <3>1. req'[r].at = "write" /\ Others /\ req[r].at = "idle"
      BY <2>6 DEF ChangeRead, TypeOK, Idle
    <3> QED BY <2>6, <2>k, <3>1 DEF ChangeRead, Storing
  <2>7. CASE ChangeWrite(r)
    <3>1. req[r] \in PasswordRequest /\ req[r].at = "write"
      BY <2>7, RequestAt DEF ChangeWrite
    <3>a. PICK u \in Users : u = req[r].user
      BY <3>1 DEF PasswordRequest
    <3>2. /\ req'[r].at = "revoke" /\ req'[r].user = u /\ Others
          /\ info' = info /\ rows' = rows /\ owed' = owed
          /\ \A v \in Users \ {u} : Row(v)
      BY <2>7, <3>1, <3>a DEF ChangeWrite, TypeOK, PasswordRequest
    <3>3. \A v \in Users : RevocationOwed(v) => RevocationOwed(v)'
      BY <2>0, <3>1, <3>2
    <3>4. RevocationOwed(u)'
      BY <3>2 DEF RevocationOwed
    <3>5. ASSUME NEW q \in Requests, Storing(q)'
          PROVE  (req[q].pw = user[req[q].user].password
                    \/ req[q].late \/ RevocationOwed(req[q].user))'
      <4>1. q # r /\ Storing(q) /\ req'[q] = req[q]
        BY <3>2, <3>5 DEF Storing
      <4>2. req[q].user \in Users
        BY <4>1, RequestAt DEF Storing, LoginRequest, RefreshRequest
      <4>3. CASE req[q].user = u
        BY <3>4, <4>1, <4>3
      <4>4. CASE req[q].user # u
        BY <3>2, <3>3, <4>1, <4>2, <4>4 DEF PasswordInv, StoringExplained
      <4> QED BY <4>3, <4>4
    <3>6. ASSUME NEW x \in rows'
          PROVE  (info[x].pw = user[info[x].user].password
                    \/ info[x].late \/ RevocationOwed(info[x].user))'
      <4>1. x \in rows /\ info'[x] = info[x] /\ info[x].user \in Users
        BY <3>2 DEF TypeOK
      <4>2. CASE info[x].user = u
        BY <3>4, <4>1, <4>2
      <4>3. CASE info[x].user # u
        BY <3>2, <3>3, <4>1, <4>3 DEF PasswordInv, OldSessionsExplained
      <4> QED BY <4>2, <4>3
    <3> QED BY <3>5, <3>6 DEF PasswordInv, StoringExplained, OldSessionsExplained
  <2>8. CASE ChangeRevoke(r)
    <3>1. req[r].user \in Users
      BY <2>8, RequestAt DEF ChangeRevoke, PasswordRequest
    <3> QED BY <2>8, <3>1, PasswordDelete DEF ChangeRevoke, TypeOK
  <2>9. ASSUME NEW u \in Users, NEW next \in {"signOutFind", "signOutAll"},
               LogoutBump(r, u, next)
        PROVE  PasswordInv'
    <3>1. req'[r].at = next /\ Others /\ req[r].at = "idle"
      BY <2>9 DEF LogoutBump, TypeOK, Idle
    <3>2. \A v \in Users : Row(v)
      BY <2>9 DEF LogoutBump, TypeOK
    <3> QED BY <2>9, <2>k, <3>1, <3>2 DEF LogoutBump, Storing
  <2>10. CASE LogoutFind(r)
    <3>1. ~Storing(r)' /\ Others
      BY <2>10 DEF LogoutFind, Storing, TypeOK, Idle
    <3> QED BY <2>10, <2>k, <3>1 DEF LogoutFind
  <2>11. CASE LogoutDelete(r)
    <3>1. ~Storing(r)' /\ Others
      BY <2>11 DEF LogoutDelete, Storing, TypeOK, Idle
    <3> QED BY <2>11, <2>k, <3>1 DEF LogoutDelete
  <2>12. CASE LogoutAll(r)
    <3>1. req[r].user \in Users
      BY <2>12, RequestAt DEF LogoutAll, LogoutRequest
    <3> QED BY <2>12, <3>1, PasswordDelete DEF LogoutAll
  <2>13. CASE Fail(r)
    <3>1. Others /\ req'[r].at = "idle" /\ info' = info /\ rows' = rows /\ user' = user
      BY <2>13 DEF Fail, TypeOK, Idle
    <3>2. ASSUME NEW v \in Users, RevocationOwed(v) PROVE RevocationOwed(v)'
      <4>1. CASE owed[v]
        BY <2>13, <4>1 DEF Fail, RevocationOwed, TypeOK
      <4>2. ASSUME NEW q \in Requests, req[q].at = "revoke", req[q].user = v
            PROVE  RevocationOwed(v)'
        <5>1. CASE q = r
          BY <2>13, <4>2, <5>1 DEF Fail, RevocationOwed, TypeOK
        <5>2. CASE q # r
          BY <3>1, <4>2, <5>2 DEF RevocationOwed
        <5> QED BY <5>1, <5>2
      <4> QED BY <3>2, <4>1, <4>2 DEF RevocationOwed
    <3>3. ASSUME NEW q \in Requests, Storing(q)' PROVE Carried(q)
      BY <3>1, <3>3 DEF Storing
    <3> QED BY <3>1, <3>2, <3>3, PasswordKept
  <2> QED BY <1>1, <2>1, <2>2, <2>3, <2>4, <2>5, <2>6, <2>7, <2>8, <2>9, <2>10,
             <2>11, <2>12, <2>13 DEF RequestStep
<1>2. ASSUME NEW u \in Users, SetStudentPassword(u)
      PROVE  PasswordInv'
  <2>1. /\ info' = info /\ rows' = rows /\ req' = req /\ owed'[u]
        /\ \A v \in Users \ {u} : user'[v].password = user[v].password
                                   /\ owed'[v] = owed[v]
    BY <1>2 DEF SetStudentPassword, TypeOK
  <2>2. RevocationOwed(u)'
    BY <2>1 DEF RevocationOwed
  <2>3. \A v \in Users : RevocationOwed(v) => RevocationOwed(v)'
    BY <2>1 DEF RevocationOwed
  <2>4. ASSUME NEW q \in Requests, Storing(q)'
        PROVE  (req[q].pw = user[req[q].user].password
                  \/ req[q].late \/ RevocationOwed(req[q].user))'
    <3>1. Storing(q) /\ req'[q] = req[q]
      BY <2>1, <2>4 DEF Storing
    <3>2. req[q].user \in Users
      BY <3>1, RequestAt DEF Storing, LoginRequest, RefreshRequest
    <3> QED BY <2>1, <2>2, <2>3, <3>1, <3>2 DEF PasswordInv, StoringExplained
  <2>5. ASSUME NEW x \in rows'
        PROVE  (info[x].pw = user[info[x].user].password
                  \/ info[x].late \/ RevocationOwed(info[x].user))'
    <3>1. x \in rows /\ info'[x] = info[x] /\ info[x].user \in Users
      BY <2>1, <2>5 DEF TypeOK
    <3> QED BY <2>1, <2>2, <2>3, <3>1 DEF PasswordInv, OldSessionsExplained
  <2> QED BY <2>4, <2>5 DEF PasswordInv, StoringExplained, OldSessionsExplained
<1>3. ASSUME NEW u \in Users, SetActive(u)
      PROVE  PasswordInv'
  <2>1. \A v \in Users : user'[v].password = user[v].password
    <3>1. \E b \in BOOLEAN : user' = [user EXCEPT ![u].active = b]
      BY <1>3, Zenon DEF SetActive, TypeOK
    <3> QED BY <3>1 DEF TypeOK
  <2> QED BY <1>3, <2>1, PasswordKept DEF SetActive, RevocationOwed, Storing
<1>4. CASE UNCHANGED <<user, info, rows, req, owed>>
  BY <1>4, PasswordKept DEF RevocationOwed, Storing
<1> QED BY <1>1, <1>2, <1>3, <1>4 DEF Next, vars, Expire

\* A session outlives its password only while a revocation is owed, or when
\* its row was stored by a request the revocation overtook.
THEOREM OldSessionsAreExplained == Spec => []OldSessionsExplained
<1>1. Init => TypeOK /\ SlotsInv /\ PasswordInv
  BY TypeInit, SlotsInit, PasswordInit
<1>2. (TypeOK /\ SlotsInv /\ PasswordInv) /\ [Next]_vars
        => (TypeOK /\ SlotsInv /\ PasswordInv)'
  BY TypeStep, SlotsStep, PasswordStep
<1>3. PasswordInv => OldSessionsExplained
  BY DEF PasswordInv
<1> QED BY <1>1, <1>2, <1>3, PTL DEF Spec

-----------------------------------------------------------------------------
VersionsInv == VersionsBehind /\ StoringAfterLogout /\ LogoutAllRevokes

LEMMA VersionsInit == Init => VersionsInv
BY DEF Init, VersionsInv, VersionsBehind, StoringAfterLogout, LogoutAllRevokes,
       Storing, Rotating, Idle

\* An account's tokenVersion never decreases.
LEMMA VersionsGrow ==
  ASSUME TypeOK, [Next]_vars, NEW u \in Users
  PROVE  user'[u].ver \in Nat /\ user'[u].ver >= user[u].ver
<1>1. ASSUME NEW r \in Requests, RequestStep(r)
      PROVE  user'[u].ver >= user[u].ver
  <2>1. CASE ChangeWrite(r)
    BY <2>1, RequestAt DEF ChangeWrite, TypeOK, PasswordRequest
  <2>2. ASSUME NEW v \in Users, NEW next \in {"signOutFind", "signOutAll"},
               LogoutBump(r, v, next)
        PROVE  user'[u].ver >= user[u].ver
    BY <2>2 DEF LogoutBump, TypeOK
  <2>3. CASE user' = user
    BY <2>3 DEF TypeOK
  <2>4. \/ ChangeWrite(r)
        \/ \E v \in Users, next \in {"signOutFind", "signOutAll"} :
             LogoutBump(r, v, next)
        \/ user' = user
    BY <1>1, Zenon DEF RequestStep, LoginRead, LoginStore, RefreshRead,
       RefreshDelete, RefreshStore, ChangeRead, ChangeRevoke, LogoutFind,
       LogoutDelete, LogoutAll, Fail
  <2> QED BY <2>1, <2>2, <2>3, <2>4
<1>2. ASSUME NEW v \in Users, SetStudentPassword(v)
      PROVE  user'[u].ver >= user[u].ver
  BY <1>2 DEF SetStudentPassword, TypeOK
<1>3. ASSUME NEW v \in Users, SetActive(v)
      PROVE  user'[u].ver >= user[u].ver
  <2>1. \E b \in BOOLEAN : user' = [user EXCEPT ![v].active = b]
    BY <1>3, Zenon DEF SetActive, TypeOK
  <2> QED BY <2>1 DEF TypeOK
<1>4. CASE user' = user
  BY <1>4 DEF TypeOK
<1>5. user'[u].ver >= user[u].ver
  BY <1>1, <1>2, <1>3, <1>4, Zenon DEF Next, vars, Expire
<1>6. TypeOK'
  BY TypeStep
<1> QED BY <1>5, <1>6 DEF TypeOK

\* Steps that sign nobody out and at most end requests or remove rows.
LEMMA VersionsKept ==
  ASSUME TypeOK, VersionsInv, [Next]_vars, info' = info, rows' \subseteq rows,
         revokedBelow' = revokedBelow,
         \A q \in Requests :
           (Storing(q) \/ Rotating(q) \/ req[q].at = "signOutAll")' =>
             /\ req'[q].at = req[q].at /\ req'[q].user = req[q].user
             /\ req'[q].ver = req[q].ver /\ req'[q].late = req[q].late
             /\ Rotating(q) => req'[q].row = req[q].row
  PROVE  VersionsInv'
<1>1. \A u \in Users : user'[u].ver \in Nat /\ user'[u].ver >= user[u].ver
  BY VersionsGrow
<1>2. ASSUME NEW q \in Requests,
             Storing(q) \/ Rotating(q) \/ req[q].at = "signOutAll"
      PROVE  req[q].user \in Users /\ req[q].ver \in Nat
  BY <1>2, RequestAt DEF Storing, Rotating, LoginRequest, RefreshRequest,
     LogoutRequest
<1>3. VersionsBehind'
  BY <1>1, <1>2 DEF VersionsInv, VersionsBehind, Storing, Rotating, TypeOK
<1>4. StoringAfterLogout'
  BY DEF VersionsInv, StoringAfterLogout, Storing, Rotating
<1>5. LogoutAllRevokes'
  BY DEF VersionsInv, LogoutAllRevokes
<1> QED BY <1>3, <1>4, <1>5 DEF VersionsInv

\* A row stored by a request keeps what held of the request.
LEMMA VersionsStore ==
  ASSUME TypeOK, SlotsInv, VersionsInv, NEW r \in Requests, NEW t \in TokenId \ Issued,
         NEW i \in TokenInfo, Store(t, i), Storing(r),
         i.user = req[r].user, i.ver = req[r].ver, i.late = req[r].late,
         req' = [req EXCEPT ![r] = Idle], user' = user,
         revokedBelow' = revokedBelow
  PROVE  VersionsInv'
<1>1. req'[r].at = "idle" /\ \A q \in Requests \ {r} : req'[q] = req[q]
  BY DEF TypeOK, Idle
<1>2. \A x \in Issued : info'[x] = info[x]
  BY DEF Store
<1>3. info'[t] = i /\ Issued' = Issued \cup {t} /\ rows' = rows \cup {t}
  BY DEF Store
<1>4. /\ i.ver <= user[i.user].ver
      /\ i.ver >= revokedBelow[i.user] \/ i.late
  BY DEF VersionsInv, VersionsBehind, StoringAfterLogout
<1>5. ASSUME NEW q \in Requests, (Storing(q) \/ Rotating(q))'
      PROVE  q # r /\ req'[q] = req[q] /\ (Storing(q) \/ Rotating(q))
  BY <1>1, <1>5 DEF Storing, Rotating
<1>6. VersionsBehind'
  BY <1>1, <1>2, <1>3, <1>4, <1>5 DEF VersionsInv, VersionsBehind
<1>7. \A q \in Requests : req[q].at = "rotateDelete" => req[q].row # t
  BY DEF SlotsInv, SlotsRooted, Rotating
<1>8. StoringAfterLogout'
  BY <1>1, <1>3, <1>5, <1>7 DEF VersionsInv, StoringAfterLogout, Storing
<1>9. LogoutAllRevokes'
  BY <1>2, <1>3, <1>4 DEF VersionsInv, LogoutAllRevokes, TypeOK
<1> QED BY <1>6, <1>8, <1>9 DEF VersionsInv

\* deleteMany for u, then at most the mark of u's sign-out is raised to a
\* version the account has reached.
LEMMA VersionsDelete ==
  ASSUME TypeOK, TypeOK', SlotsInv, VersionsInv, [Next]_vars,
         NEW r \in Requests, NEW u \in Users, DeleteAllRows(r, u),
         info' = info, revokedBelow'[u] <= user'[u].ver,
         \A v \in Users \ {u} : revokedBelow'[v] = revokedBelow[v]
  PROVE  VersionsInv'
<1>1. \A v \in Users : user'[v].ver \in Nat /\ user'[v].ver >= user[v].ver
  BY VersionsGrow
<1>2. ASSUME NEW q \in Requests,
             Storing(q) \/ Rotating(q) \/ req[q].at = "signOutAll"
      PROVE  req[q].user \in Users /\ req[q].ver \in Nat
  BY <1>2, RequestAt DEF Storing, Rotating, LoginRequest, RefreshRequest,
     LogoutRequest
<1>3. VersionsBehind'
  <2>1. ASSUME NEW q \in Requests,
               (Storing(q) \/ Rotating(q) \/ req[q].at = "signOutAll")'
        PROVE  req'[q].ver <= user'[req'[q].user].ver
    <3>1. /\ Storing(q) \/ Rotating(q) \/ req[q].at = "signOutAll"
          /\ req'[q].user = req[q].user /\ req'[q].ver = req[q].ver
      <4>1. CASE req'[q] = Idle
        BY <2>1, <4>1 DEF Storing, Rotating, Idle
      <4>2. CASE req'[q] = req[q]
        BY <2>1, <4>2 DEF Storing, Rotating
      <4>3. CASE /\ Storing(q) /\ req'[q].user = req[q].user
                 /\ req'[q].ver = req[q].ver
        BY <4>3
      <4> QED BY <4>1, <4>2, <4>3, DeleteKeeps
    <3>2. req[q].ver <= user[req[q].user].ver
      BY <3>1 DEF VersionsInv, VersionsBehind
    <3> QED BY <1>1, <1>2, <3>1, <3>2 DEF TypeOK
  <2>2. \A v \in Users : revokedBelow'[v] <= user'[v].ver
    BY <1>1 DEF VersionsInv, VersionsBehind, TypeOK
  <2>3. \A t \in Issued : info[t].ver <= user'[info[t].user].ver
    BY <1>1 DEF VersionsInv, VersionsBehind, TypeOK
  <2> QED BY <2>1, <2>2, <2>3 DEF VersionsBehind
<1>4. rows' = rows \ RowsOf(u)
  BY DEF DeleteAllRows
<1>5. ASSUME NEW q \in Requests,
             (Storing(q) \/ (req[q].at = "rotateDelete" /\ req[q].row \in rows))'
      PROVE  (req[q].ver >= revokedBelow[req[q].user] \/ req[q].late)'
  <2>1. CASE req'[q] = req[q]
    <3>1. CASE Storing(q) /\ req[q].user = u
      <4>1. q # r
        BY <1>5, <2>1 DEF DeleteAllRows, Idle, Storing
      <4>2. req'[q] = [req[q] EXCEPT !.late = TRUE]
        BY <3>1, <4>1 DEF DeleteAllRows
      <4>3. req[q] \in LoginRequest \/ req[q] \in RefreshRequest
        BY <3>1, RequestAt DEF Storing
      <4>4. req'[q].late
        BY <4>2, <4>3 DEF LoginRequest, RefreshRequest
      <4> QED BY <4>4
    <3>2. CASE Storing(q) /\ req[q].user # u
      <4>1. req[q].user \in Users \ {u}
        BY <1>2, <3>2
      <4> QED BY <2>1, <3>2, <4>1 DEF VersionsInv, StoringAfterLogout
    <3>3. CASE req[q].at = "rotateDelete" /\ req'[q].row \in rows'
      <4>1. req[q].user = info[req[q].row].user /\ req[q].user \in Users
        BY <1>2, <3>3 DEF SlotsInv, SlotsRooted, Rotating
      <4>2. req[q].row \in rows /\ req[q].user # u
        BY <1>4, <2>1, <3>3, <4>1 DEF RowsOf
      <4> QED BY <2>1, <3>3, <4>1, <4>2 DEF VersionsInv, StoringAfterLogout
    <3> QED BY <1>5, <2>1, <3>1, <3>2, <3>3 DEF Storing
  <2>2. CASE req'[q].late
    BY <2>2
  <2>3. CASE req'[q] = Idle
    BY <1>5, <2>3 DEF Storing, Idle
  <2> QED BY <2>1, <2>2, <2>3, DeleteKeeps
<1>6. StoringAfterLogout'
  BY <1>5 DEF StoringAfterLogout
<1>7. LogoutAllRevokes'
  BY <1>4 DEF VersionsInv, LogoutAllRevokes, RowsOf, TypeOK
<1> QED BY <1>3, <1>6, <1>7 DEF VersionsInv

LEMMA VersionsStep ==
  ASSUME TypeOK, SlotsInv, VersionsInv, [Next]_vars
  PROVE  VersionsInv'
<1>1. ASSUME NEW r \in Requests, RequestStep(r)
      PROVE  VersionsInv'
  <2> DEFINE Others == \A q \in Requests \ {r} : req'[q] = req[q]
             Active(q) == Storing(q) \/ Rotating(q) \/ req[q].at = "signOutAll"
  <2>k. ASSUME Others, info' = info, rows' \subseteq rows,
               revokedBelow' = revokedBelow, ~Active(r)'
        PROVE  VersionsInv'
    BY <2>k, VersionsKept DEF Storing, Rotating
  <2>v. \A v \in Users : revokedBelow[v] <= user[v].ver /\ user[v].ver \in Nat
    BY DEF VersionsInv, VersionsBehind, TypeOK
  <2>1. ASSUME NEW u \in Users, LoginRead(r, u) PROVE VersionsInv'
    <3>1. /\ req'[r].at = "loginStore" /\ req'[r].user = u
          /\ req'[r].ver = user[u].ver /\ Others
          /\ info' = info /\ rows' = rows /\ user' = user
          /\ revokedBelow' = revokedBelow
      BY <2>1 DEF LoginRead, TypeOK
    <3>2. user[u].ver \in Nat /\ revokedBelow[u] <= user[u].ver
      BY DEF TypeOK, VersionsInv, VersionsBehind
    <3>3. VersionsBehind'
      BY <3>1, <3>2 DEF VersionsInv, VersionsBehind, Storing, Rotating
    <3>4. StoringAfterLogout'
      BY <3>1, <3>2 DEF VersionsInv, StoringAfterLogout, Storing, TypeOK
    <3>5. LogoutAllRevokes'
      BY <3>1 DEF VersionsInv, LogoutAllRevokes
    <3> QED BY <3>3, <3>4, <3>5 DEF VersionsInv
  <2>2. ASSUME NEW t \in TokenId, LoginStore(r, t) PROVE VersionsInv'
    <3>1. req[r] \in LoginRequest /\ req[r].at = "loginStore"
      BY <2>2, RequestAt DEF LoginStore
    <3> DEFINE i == [user |-> req[r].user, ver |-> req[r].ver, slot |-> t,
                     pw |-> req[r].pw, late |-> req[r].late]
    <3>2. /\ i \in TokenInfo /\ i.user = req[r].user /\ i.ver = req[r].ver
          /\ i.late = req[r].late
      BY <3>1 DEF LoginRequest
    <3>3. /\ t \notin Issued /\ Store(t, i) /\ req' = [req EXCEPT ![r] = Idle]
          /\ user' = user /\ revokedBelow' = revokedBelow
      BY <2>2 DEF LoginStore
    <3> HIDE DEF i
    <3> QED BY <3>1, <3>2, <3>3, VersionsStore DEF Storing
  <2>3. ASSUME NEW t \in TokenId, RefreshStore(r, t) PROVE VersionsInv'
    <3>1. req[r] \in RefreshRequest /\ req[r].at = "rotateStore"
      BY <2>3, RequestAt DEF RefreshStore
    <3> DEFINE i == [user |-> req[r].user, ver |-> req[r].ver,
                     slot |-> req[r].slot, pw |-> req[r].pw,
                     late |-> req[r].late]
    <3>2. /\ i \in TokenInfo /\ i.user = req[r].user /\ i.ver = req[r].ver
          /\ i.late = req[r].late
      BY <3>1 DEF RefreshRequest
    <3>3. /\ t \notin Issued /\ Store(t, i) /\ req' = [req EXCEPT ![r] = Idle]
          /\ user' = user /\ revokedBelow' = revokedBelow
      BY <2>3 DEF RefreshStore
    <3> HIDE DEF i
    <3> QED BY <3>1, <3>2, <3>3, VersionsStore DEF Storing
  <2>4. ASSUME NEW t \in Issued, NEW m \in rows, RefreshRead(r, t, m)
        PROVE  VersionsInv'
    <3> DEFINE u == info[t].user
    <3>1. /\ req'[r].at = "rotateDelete" /\ req'[r].user = u
          /\ req'[r].ver = user[u].ver /\ Others /\ u \in Users
          /\ info' = info /\ rows' = rows /\ user' = user
          /\ revokedBelow' = revokedBelow
      BY <2>4 DEF RefreshRead, TypeOK
    <3>2. user[u].ver \in Nat /\ revokedBelow[u] <= user[u].ver
      BY <3>1 DEF TypeOK, VersionsInv, VersionsBehind
    <3>3. VersionsBehind'
      BY <3>1, <3>2 DEF VersionsInv, VersionsBehind, Storing, Rotating
    <3>4. StoringAfterLogout'
      BY <3>1, <3>2 DEF VersionsInv, StoringAfterLogout, Storing, TypeOK
    <3>5. LogoutAllRevokes'
      BY <3>1 DEF VersionsInv, LogoutAllRevokes
    <3> QED BY <3>3, <3>4, <3>5 DEF VersionsInv
  <2>5. CASE RefreshDelete(r)
    <3>1. req[r] \in RefreshRequest /\ req[r].at = "rotateDelete"
      BY <2>5, RequestAt DEF RefreshDelete
    <3>2. /\ Others /\ info' = info /\ rows' \subseteq rows /\ user' = user
          /\ revokedBelow' = revokedBelow
      BY <2>5 DEF RefreshDelete, TypeOK
    <3>3. CASE req[r].row \in rows
      <4>1. /\ req'[r].at = "rotateStore" /\ req'[r].user = req[r].user
            /\ req'[r].ver = req[r].ver /\ req'[r].late = req[r].late
        BY <2>5, <3>1, <3>3 DEF RefreshDelete, TypeOK, RefreshRequest
      <4>2. VersionsBehind'
        BY <3>1, <3>2, <4>1 DEF VersionsInv, VersionsBehind, Storing, Rotating
      <4>3. StoringAfterLogout'
        BY <3>1, <3>2, <3>3, <4>1 DEF VersionsInv, StoringAfterLogout, Storing
      <4>4. LogoutAllRevokes'
        BY <3>2 DEF VersionsInv, LogoutAllRevokes
      <4> QED BY <4>2, <4>3, <4>4 DEF VersionsInv
    <3>4. CASE req[r].row \notin rows
      <4>1. ~Active(r)'
        BY <2>5, <3>4 DEF RefreshDelete, TypeOK, Idle, Storing, Rotating
      <4> QED BY <2>k, <3>2, <4>1
    <3> QED BY <3>3, <3>4
  <2>6. ASSUME NEW u \in Users, NEW op \in PasswordOps, ChangeRead(r, u, op)
        PROVE  VersionsInv'
    <3>1. ~Active(r)' /\ Others
      BY <2>6 DEF ChangeRead, TypeOK, Storing, Rotating
    <3> QED BY <2>6, <2>k, <3>1 DEF ChangeRead
  <2>7. CASE ChangeWrite(r)
    <3>1. ~Active(r)' /\ Others
      BY <2>7, RequestAt DEF ChangeWrite, TypeOK, PasswordRequest, Storing, Rotating
    <3> QED BY <2>7, <2>k, <3>1 DEF ChangeWrite
  <2>8. CASE ChangeRevoke(r)
    <3>1. PICK u \in Users : u = req[r].user
      BY <2>8, RequestAt DEF ChangeRevoke, PasswordRequest
    <3>2. DeleteAllRows(r, u) /\ info' = info /\ revokedBelow' = revokedBelow
      BY <2>8, <3>1 DEF ChangeRevoke
    <3>3. revokedBelow'[u] <= user'[u].ver
      BY <2>v, <3>2, VersionsGrow DEF TypeOK
    <3>4. TypeOK'
      BY TypeStep
    <3> QED BY <3>2, <3>3, <3>4, VersionsDelete
  <2>9. ASSUME NEW u \in Users, NEW next \in {"signOutFind", "signOutAll"},
               LogoutBump(r, u, next)
        PROVE  VersionsInv'
    <3>1. /\ req'[r].at = next /\ req'[r].user = u
          /\ req'[r].ver = user[u].ver + 1 /\ user'[u].ver = user[u].ver + 1
          /\ Others /\ info' = info /\ rows' = rows
          /\ revokedBelow' = revokedBelow
      BY <2>9 DEF LogoutBump, TypeOK
    <3>2. \A v \in Users : user'[v].ver \in Nat /\ user'[v].ver >= user[v].ver
      BY VersionsGrow
    <3>3. ASSUME NEW q \in Requests, Active(q)
          PROVE  req[q].user \in Users /\ req[q].ver \in Nat
      BY <3>3, RequestAt DEF Storing, Rotating, LoginRequest, RefreshRequest,
         LogoutRequest
    <3>4. VersionsBehind'
      BY <3>1, <3>2, <3>3
         DEF VersionsInv, VersionsBehind, Storing, Rotating, TypeOK
    <3>5. StoringAfterLogout'
      BY <3>1 DEF VersionsInv, StoringAfterLogout, Storing
    <3>6. LogoutAllRevokes'
      BY <3>1 DEF VersionsInv, LogoutAllRevokes
    <3> QED BY <3>4, <3>5, <3>6 DEF VersionsInv
  <2>10. CASE LogoutFind(r)
    <3>1. ~Active(r)' /\ Others
      BY <2>10 DEF LogoutFind, Storing, Rotating, TypeOK, Idle
    <3> QED BY <2>10, <2>k, <3>1 DEF LogoutFind
  <2>11. CASE LogoutDelete(r)
    <3>1. ~Active(r)' /\ Others
      BY <2>11 DEF LogoutDelete, Storing, Rotating, TypeOK, Idle
    <3> QED BY <2>11, <2>k, <3>1 DEF LogoutDelete
  <2>12. CASE LogoutAll(r)
    <3>1. PICK u \in Users : u = req[r].user
      BY <2>12, RequestAt DEF LogoutAll, LogoutRequest
    <3>2. req[r].ver \in Nat /\ req[r].ver <= user[u].ver
      BY <2>12, <3>1, RequestAt
         DEF LogoutAll, LogoutRequest, VersionsInv, VersionsBehind
    <3>3. /\ DeleteAllRows(r, u) /\ info' = info /\ user' = user
          /\ revokedBelow'[u] = revokedBelow[u] \/ revokedBelow'[u] = req[r].ver
          /\ \A v \in Users \ {u} : revokedBelow'[v] = revokedBelow[v]
      BY <2>12, <3>1 DEF LogoutAll, TypeOK
    <3>4. revokedBelow'[u] <= user'[u].ver
      BY <2>v, <3>2, <3>3
    <3>5. TypeOK'
      BY TypeStep
    <3> QED BY <3>3, <3>4, <3>5, VersionsDelete
  <2>13. CASE Fail(r)
    <3>1. ~Active(r)' /\ Others
      BY <2>13 DEF Fail, Storing, Rotating, TypeOK, Idle
    <3> QED BY <2>13, <2>k, <3>1 DEF Fail
  <2> QED BY <1>1, <2>1, <2>2, <2>3, <2>4, <2>5, <2>6, <2>7, <2>8, <2>9, <2>10,
             <2>11, <2>12, <2>13 DEF RequestStep
<1>2. CASE UNCHANGED <<info, rows, req, revokedBelow>>
  BY <1>2, VersionsKept DEF Storing, Rotating
<1> QED BY <1>1, <1>2 DEF Next, vars, SetStudentPassword, SetActive, Expire

\* After a sign-out of all sessions no row of before it is left, but for rows
\* of requests it overtook.
THEOREM LogoutEndsSessions == Spec => []LogoutAllRevokes
<1>1. Init => TypeOK /\ SlotsInv /\ VersionsInv
  BY TypeInit, SlotsInit, VersionsInit
<1>2. (TypeOK /\ SlotsInv /\ VersionsInv) /\ [Next]_vars
        => (TypeOK /\ SlotsInv /\ VersionsInv)'
  BY TypeStep, SlotsStep, VersionsStep
<1>3. VersionsInv => LogoutAllRevokes
  BY DEF VersionsInv
<1> QED BY <1>1, <1>2, <1>3, PTL DEF Spec

\* A refused access token stays refused: its version is behind the account's,
\* and the account's only grows.
THEOREM RefusedTokensStayRefused == Spec => RefusedForever
<1>1. Init => TypeOK /\ SlotsInv /\ VersionsInv
  BY TypeInit, SlotsInit, VersionsInit
<1>2. (TypeOK /\ SlotsInv /\ VersionsInv) /\ [Next]_vars
        => (TypeOK /\ SlotsInv /\ VersionsInv)'
  BY TypeStep, SlotsStep, VersionsStep
<1>3. TypeOK /\ VersionsInv /\ [Next]_vars
        => [\A t \in Issued :
              info[t].ver # user[info[t].user].ver
                => info'[t].ver # user'[info[t].user].ver]_vars
  <2> SUFFICES ASSUME TypeOK, VersionsInv, [Next]_vars, NEW t \in Issued,
                      info[t].ver # user[info[t].user].ver
               PROVE  info'[t].ver # user'[info[t].user].ver
    OBVIOUS
  <2>1. info'[t].ver = info[t].ver
    BY InfoKept
  <2>2. info[t].user \in Users /\ info[t].ver \in Nat
    BY DEF TypeOK
  <2>3. user[info[t].user].ver \in Nat
    BY <2>2 DEF TypeOK
  <2>4. info[t].ver <= user[info[t].user].ver
    BY DEF VersionsInv, VersionsBehind
  <2>5. /\ user'[info[t].user].ver \in Nat
        /\ user'[info[t].user].ver >= user[info[t].user].ver
    BY <2>2, VersionsGrow
  <2> QED BY <2>1, <2>2, <2>3, <2>4, <2>5
<1> QED BY <1>1, <1>2, <1>3, PTL DEF Spec, RefusedForever

-----------------------------------------------------------------------------
\* AuthSessions implements SessionRegistry: initial states map to initial
\* states and every step to a step of the registry or a stutter.

Slots == {info[t].slot : t \in Issued}

HeldSlots == {info[t].slot : t \in rows}

TurningSlots == {req[r].slot : r \in {q \in Requests : req[q].at = "rotateStore"}}

USE DEF TokenInfo, Issued

\* Open sessions are sessions, owned by the account of their first pair.
LEMMA OpenAreSlots ==
  ASSUME TypeOK, SlotsInv, NEW s \in OpenSlots
  PROVE  s \in Slots /\ s \in Issued /\ SlotOwner[s] = info[s].user
<1>1. s \in Slots
  <2>1. CASE s \in HeldSlots
    BY <2>1 DEF HeldSlots, Slots, TypeOK
  <2>2. ASSUME NEW r \in Requests, req[r].at = "rotateStore", s = req[r].slot
        PROVE  s \in Slots
    BY <2>2 DEF SlotsInv, SlotsRooted, Rotating, Slots
  <2> QED BY <2>1, <2>2 DEF OpenSlots, HeldSlots
<1>2. s \in Issued
  BY <1>1 DEF Slots, SlotsInv, SlotsRooted
<1> QED BY <1>1, <1>2 DEF SlotOwner, Slots

\* A step that only closes sessions of one account is the registry's Close.
LEMMA Closing ==
  ASSUME TypeOK, SlotsInv, NEW u \in Users, info' = info,
         OpenSlots' \subseteq OpenSlots,
         \A s \in OpenSlots \ OpenSlots' : info[s].user = u
  PROVE  Registry!RegistryNext
<1>1. SlotOwner' = SlotOwner
  BY DEF SlotOwner
<1>2. \A s \in OpenSlots \ OpenSlots' : SlotOwner[s] = u
  BY OpenAreSlots
<1>3. Registry!Close(u)
  BY <1>1, <1>2 DEF Registry!Close
<1> QED BY <1>3 DEF Registry!RegistryNext

\* Two steps with the same rows, tokens and turning refreshes map to a stutter.
LEMMA Stuttering ==
  ASSUME info' = info, OpenSlots' = OpenSlots
  PROVE  UNCHANGED Registry!registryVars
BY DEF SlotOwner, Registry!registryVars

LEMMA TurningKept ==
  ASSUME NEW r \in Requests, \A q \in Requests \ {r} : req'[q] = req[q],
         req[r].at # "rotateStore", req'[r].at # "rotateStore"
  PROVE  TurningSlots' = TurningSlots
BY DEF TurningSlots

\* deleteMany for u closes sessions of u.
LEMMA DeleteCloses ==
  ASSUME TypeOK, SlotsInv, NEW r \in Requests, NEW u \in Users,
         DeleteAllRows(r, u), info' = info, req[r].at # "rotateStore"
  PROVE  Registry!RegistryNext
<1>0. OpenSlots = HeldSlots \cup TurningSlots
        /\ OpenSlots' = HeldSlots' \cup TurningSlots'
  BY DEF OpenSlots, HeldSlots, TurningSlots
<1>1. ASSUME NEW q \in Requests
      PROVE  /\ req'[q].at = "rotateStore" <=> req[q].at = "rotateStore"
             /\ req[q].at = "rotateStore" => req'[q].slot = req[q].slot
  <2>1. CASE q = r /\ req'[q] = Idle
    BY <2>1 DEF Idle
  <2>2. CASE req'[q] = req[q]
    BY <2>2
  <2>3. CASE /\ req'[q].at = req[q].at
             /\ req[q].at = "rotateStore" => req'[q].slot = req[q].slot
    BY <2>3
  <2>4. \/ q = r /\ req'[q] = Idle
        \/ req'[q] = req[q]
        \/ /\ req'[q].at = req[q].at
           /\ req[q].at = "rotateStore" => req'[q].slot = req[q].slot
    BY DeleteKeeps
  <2> QED BY <2>1, <2>2, <2>3, <2>4
<1>2. TurningSlots' = TurningSlots
  BY <1>1 DEF TurningSlots
<1>3. /\ rows' \subseteq rows
      /\ \A t \in rows \ rows' : info[t].user = u
  BY DEF DeleteAllRows, RowsOf
<1>5. OpenSlots' \subseteq OpenSlots
  <2>1. HeldSlots' \subseteq HeldSlots
    BY <1>3 DEF HeldSlots
  <2> QED BY <1>0, <1>2, <2>1
<1>6. ASSUME NEW s \in OpenSlots \ OpenSlots'
      PROVE  info[s].user = u
  <2>1. PICK t \in rows : s = info[t].slot /\ t \notin rows'
    <3>1. s \in HeldSlots /\ s \notin HeldSlots'
      BY <1>0, <1>2, <1>6
    <3> QED BY <3>1 DEF HeldSlots
  <2>2. info[s].user = info[t].user
    BY <2>1 DEF SlotsInv, SlotsRooted, TypeOK
  <2> QED BY <1>3, <2>1, <2>2
<1> QED BY <1>5, <1>6, Closing

LEMMA RegistryStep ==
  ASSUME TypeOK, SlotsInv, [Next]_vars
  PROVE  [Registry!RegistryNext]_(Registry!registryVars)
<1>0. OpenSlots = HeldSlots \cup TurningSlots
        /\ OpenSlots' = HeldSlots' \cup TurningSlots'
  BY DEF OpenSlots, HeldSlots, TurningSlots
<1>1. ASSUME NEW r \in Requests, RequestStep(r)
      PROVE  [Registry!RegistryNext]_(Registry!registryVars)
  <2> DEFINE Others == \A q \in Requests \ {r} : req'[q] = req[q]
  <2>k. ASSUME Others, info' = info, rows' = rows,
               req[r].at # "rotateStore", req'[r].at # "rotateStore"
        PROVE  UNCHANGED Registry!registryVars
    <3>1. HeldSlots' = HeldSlots
      BY <2>k DEF HeldSlots
    <3>2. TurningSlots' = TurningSlots
      BY <2>k, TurningKept
    <3> QED BY <1>0, <2>k, <3>1, <3>2, Stuttering
  <2>1. ASSUME NEW u \in Users, LoginRead(r, u)
        PROVE  UNCHANGED Registry!registryVars
    BY <2>1, <2>k DEF LoginRead, TypeOK, Idle
  <2>2. ASSUME NEW t \in TokenId, LoginStore(r, t)
        PROVE  Registry!RegistryNext
    <3>1. PICK u \in Users : u = req[r].user /\ req[r].at = "loginStore"
      BY <2>2, RequestAt DEF LoginStore, LoginRequest
    <3>2. /\ t \notin Issued /\ Issued' = Issued \cup {t}
          /\ info'[t].slot = t /\ info'[t].user = u
          /\ \A x \in Issued : info'[x] = info[x]
          /\ rows' = rows \cup {t}
      BY <2>2, <3>1 DEF LoginStore, Store
    <3>3. req'[r].at = "idle" /\ Others
      BY <2>2 DEF LoginStore, TypeOK, Idle
    <3>4. Slots' = Slots \cup {t} /\ HeldSlots' = HeldSlots \cup {t}
      BY <3>2 DEF Slots, HeldSlots, TypeOK
    <3>5. TurningSlots' = TurningSlots
      BY <3>1, <3>3, TurningKept
    <3>6. Slots \subseteq Issued
      BY DEF Slots, SlotsInv, SlotsRooted
    <3>7. SlotOwner' = [x \in Slots \cup {t} |->
                          IF x = t THEN u ELSE SlotOwner[x]]
      <4>1. SlotOwner = [x \in Slots |-> info[x].user]
        BY DEF SlotOwner, Slots
      <4>2. SlotOwner' = [x \in Slots' |-> info'[x].user]
        BY DEF SlotOwner, Slots
      <4> QED BY <3>2, <3>4, <3>6, <4>1, <4>2
    <3>8. Slots = Registry!Opened
      BY DEF Slots, SlotOwner, Registry!Opened
    <3>9. Registry!Open(t, u)
      BY <1>0, <3>2, <3>4, <3>5, <3>6, <3>7, <3>8 DEF Registry!Open
    <3> QED BY <3>9 DEF Registry!RegistryNext
  <2>3. ASSUME NEW t \in TokenId, RefreshStore(r, t)
        PROVE  UNCHANGED Registry!registryVars
    <3>1. req[r].at = "rotateStore"
      BY <2>3 DEF RefreshStore
    <3>2. /\ t \notin Issued /\ Issued' = Issued \cup {t}
          /\ info'[t].slot = req[r].slot
          /\ \A x \in Issued : info'[x] = info[x]
          /\ rows' = rows \cup {t}
      BY <2>3 DEF RefreshStore, Store
    <3>3. req'[r].at = "idle" /\ Others
      BY <2>3 DEF RefreshStore, TypeOK, Idle
    <3>4. req[r].slot \in Slots
      BY <3>1 DEF SlotsInv, SlotsRooted, Rotating, Slots
    <3>5. Slots' = Slots /\ HeldSlots' = HeldSlots \cup {req[r].slot}
      BY <3>2, <3>4 DEF Slots, HeldSlots, TypeOK
    <3>6. TurningSlots = TurningSlots' \cup {req[r].slot}
      BY <3>1, <3>3 DEF TurningSlots
    <3>7. OpenSlots' = OpenSlots
      BY <1>0, <3>5, <3>6
    <3>8. Slots \subseteq Issued
      BY DEF Slots, SlotsInv, SlotsRooted
    <3>9. SlotOwner' = SlotOwner
      <4>1. SlotOwner = [x \in Slots |-> info[x].user]
        BY DEF SlotOwner, Slots
      <4>2. SlotOwner' = [x \in Slots' |-> info'[x].user]
        BY DEF SlotOwner, Slots
      <4> QED BY <3>2, <3>5, <3>8, <4>1, <4>2
    <3> QED BY <3>7, <3>9 DEF Registry!registryVars
  <2>4. ASSUME NEW t \in Issued, NEW m \in rows, RefreshRead(r, t, m)
        PROVE  UNCHANGED Registry!registryVars
    BY <2>4, <2>k DEF RefreshRead, TypeOK, Idle
  <2>5. CASE RefreshDelete(r)
    <3>1. req[r] \in RefreshRequest /\ req[r].at = "rotateDelete"
      BY <2>5, RequestAt DEF RefreshDelete
    <3>2. Others /\ info' = info /\ rows' = rows \ {req[r].row}
      BY <2>5 DEF RefreshDelete, TypeOK
    <3>3. CASE req[r].row \in rows
      <4>1. req'[r].at = "rotateStore" /\ req'[r].slot = req[r].slot
        BY <2>5, <3>1, <3>3 DEF RefreshDelete, TypeOK, RefreshRequest
      <4>2. req[r].slot = info[req[r].row].slot
        BY <3>1 DEF SlotsInv, SlotsRooted, Rotating
      <4>3. TurningSlots' = TurningSlots \cup {req[r].slot}
        BY <3>1, <3>2, <4>1 DEF TurningSlots
      <4>4. HeldSlots = HeldSlots' \cup {req[r].slot}
        BY <3>2, <3>3, <4>2 DEF HeldSlots
      <4> QED BY <1>0, <3>2, <4>3, <4>4, Stuttering
    <3>4. CASE req[r].row \notin rows
      <4>1. req'[r].at # "rotateStore" /\ rows' = rows
        BY <2>5, <3>2, <3>4 DEF RefreshDelete, TypeOK, Idle
      <4> QED BY <2>k, <3>1, <3>2, <4>1
    <3> QED BY <3>3, <3>4
  <2>6. ASSUME NEW u \in Users, NEW op \in PasswordOps, ChangeRead(r, u, op)
        PROVE  UNCHANGED Registry!registryVars
    BY <2>6, <2>k DEF ChangeRead, TypeOK, Idle
  <2>7. CASE ChangeWrite(r)
    BY <2>7, <2>k, RequestAt DEF ChangeWrite, TypeOK, PasswordRequest
  <2>8. CASE ChangeRevoke(r)
    <3>1. PICK u \in Users : u = req[r].user
      BY <2>8, RequestAt DEF ChangeRevoke, PasswordRequest
    <3> QED BY <2>8, <3>1, DeleteCloses DEF ChangeRevoke
  <2>9. ASSUME NEW u \in Users, NEW next \in {"signOutFind", "signOutAll"},
               LogoutBump(r, u, next)
        PROVE  UNCHANGED Registry!registryVars
    BY <2>9, <2>k DEF LogoutBump, TypeOK, Idle
  <2>10. CASE LogoutFind(r)
    BY <2>10, <2>k DEF LogoutFind, TypeOK, Idle
  <2>11. CASE LogoutDelete(r)
    <3>1. PICK m \in TokenId, u \in Users : m = req[r].row /\ u = req[r].user
      BY <2>11, RequestAt DEF LogoutDelete, SignOutOneRequest
    <3>2. /\ req[r].at = "signOutDelete" /\ req'[r].at = "idle" /\ Others
          /\ info' = info /\ rows' = rows \ {m}
      BY <2>11, <3>1 DEF LogoutDelete, TypeOK, Idle
    <3>3. TurningSlots' = TurningSlots
      BY <3>2, TurningKept
    <3>4. CASE m \in rows
      <4>1. info[m].user \in Users
        BY <3>4 DEF TypeOK
      <4>2. OpenSlots' \subseteq OpenSlots
        BY <1>0, <3>2, <3>3 DEF HeldSlots
      <4>3. \A s \in OpenSlots \ OpenSlots' : s = info[m].slot
        BY <1>0, <3>2, <3>3 DEF HeldSlots
      <4>4. info[info[m].slot].user = info[m].user
        BY <3>4 DEF SlotsInv, SlotsRooted, TypeOK
      <4> QED BY <3>2, <4>1, <4>2, <4>3, <4>4, Closing
    <3>5. CASE m \notin rows
      <4>1. HeldSlots' = HeldSlots
        BY <3>2, <3>5 DEF HeldSlots
      <4> QED BY <1>0, <3>2, <3>3, <4>1, Stuttering
    <3> QED BY <3>4, <3>5
  <2>12. CASE LogoutAll(r)
    <3>1. PICK u \in Users : u = req[r].user
      BY <2>12, RequestAt DEF LogoutAll, LogoutRequest
    <3> QED BY <2>12, <3>1, DeleteCloses DEF LogoutAll
  <2>13. CASE Fail(r)
    <3>1. Others /\ req'[r].at = "idle" /\ info' = info /\ rows' = rows
      BY <2>13 DEF Fail, TypeOK, Idle
    <3>2. HeldSlots' = HeldSlots
      BY <3>1 DEF HeldSlots
    <3>3. CASE req[r].at = "rotateStore"
      <4>1. /\ req[r].user \in Users
            /\ info[req[r].slot].user = req[r].user
        BY <3>3, RequestAt DEF RefreshRequest, SlotsInv, SlotsRooted, Rotating
      <4>2. TurningSlots = TurningSlots' \cup {req[r].slot}
        BY <3>1, <3>3 DEF TurningSlots
      <4>3. OpenSlots' \subseteq OpenSlots
            /\ \A s \in OpenSlots \ OpenSlots' : s = req[r].slot
        BY <1>0, <3>2, <4>2
      <4>4. PICK u \in Users : u = req[r].user
        BY <4>1
      <4> QED BY <3>1, <4>1, <4>3, <4>4, Closing
    <3>4. CASE req[r].at # "rotateStore"
      BY <2>k, <3>1, <3>4
    <3> QED BY <3>3, <3>4
  <2> QED BY <1>1, <2>1, <2>2, <2>3, <2>4, <2>5, <2>6, <2>7, <2>8, <2>9, <2>10,
             <2>11, <2>12, <2>13 DEF RequestStep
<1>2. CASE UNCHANGED <<info, rows, req>>
  BY <1>2, Stuttering DEF OpenSlots
<1> QED BY <1>1, <1>2 DEF Next, vars, SetStudentPassword, SetActive, Expire

\* The handlers implement the session registry: no interleaving of logins,
\* rotations, logouts and password changes reopens a session that was closed.
THEOREM SessionsImplementRegistry == Spec => ImplementsRegistry
<1>1. Init => Registry!RegistryInit
  BY DEF Init, Registry!RegistryInit, SlotOwner, OpenSlots, Idle
<1>2. Init => TypeOK /\ SlotsInv
  BY TypeInit, SlotsInit
<1>3. (TypeOK /\ SlotsInv) /\ [Next]_vars => (TypeOK /\ SlotsInv)'
  BY TypeStep, SlotsStep
<1>4. (TypeOK /\ SlotsInv) /\ [Next]_vars
        => [Registry!RegistryNext]_(Registry!registryVars)
  BY RegistryStep
<1> QED
  BY <1>1, <1>2, <1>3, <1>4, PTL
     DEF Spec, ImplementsRegistry, Registry!RegistrySpec

-----------------------------------------------------------------------------
(***************************************************************************)
(* PasswordResets.                                                         *)
(***************************************************************************)
\* What a handler holds when there are n requests and the rows of notifications
\* have changed ch times.
Knows(q, n, ch) ==
    /\ q.at \in Deciding \cup {"route"} => q.row \in 1..n
    /\ q.at = "insert" => q.seen <= n
    /\ q.at = "emit" => q.knew <= ch

Typed == ResetsTypeOK /\ \A r \in Workers : Knows(task[r], Len(resets), changes)

\* A handler of the notifications runs where the account does, or unscoped.
Serving == {"mark", "count", "emit", "push", "compute"} \cup Deciding

Within(u, q) ==
    /\ q.at \in Serving => q.ctx = SuperAdmin \/ q.ctx \in ContextsOf(u)
    /\ q.at = "refused" => u.role \in {"teacher", "school_admin"}
                            /\ \E s \in u.schools : s # u.tenant

OfProfile == \A i \in DOMAIN resets : resets[i].school = ProfileSchool

ContextsKept == OfProfile /\ \A r \in Workers : Within(account, task[r])

\* A count that knows all changes is that of the rows.
EmitsRight == \A r \in Workers :
    task[r].at = "emit" /\ task[r].knew = changes => task[r].count = Unread

Fresh(r) ==
    task[r].at = "emit" =>
        \/ task[r].count = Unread \/ task[r].knew < emitted
        \/ \E o \in Workers : task[o].at = "count"
        \/ \E o \in Workers : task[o].at = "emit" /\ task[r].knew < task[o].knew

CountsKept == EmitsRight /\ (excused \/ \A r \in Workers : Fresh(r)) /\ ShownExplained

\* How far q has brought the request x that nobody else decides.
Decides(q, x) ==
    /\ x.told = 0
    /\ q.at # "tell" => x.status = "pending"
    /\ q.at = "tell" => x.status = q.as
    /\ q.at = "password" => q.as = "approved" /\ ~x.set
    /\ q.at = "revoke" => q.as = "approved" /\ x.set
    /\ q.at \in {"decide", "tell"} =>
         IF q.as = "approved" THEN x.set /\ x.cleared ELSE ~x.set

\* A request that no handler decides.
Rests(x) ==
    /\ x.status = "pending" => x.told = 0 /\ (x.gone \/ ~x.set)
    /\ x.status # "pending" => x.told = 1
    /\ x.status = "approved" => x.set /\ x.cleared
    /\ x.status = "rejected" => ~x.set

RowKept(i) ==
    i \in contested \cup broken \/
        /\ \A r, o \in DecidersOf(i) : r = o
        /\ \A r \in DecidersOf(i) : Decides(task[r], resets[i])
        /\ DecidersOf(i) = {} => Rests(resets[i])

RowsKept ==
    /\ \A i \in DOMAIN resets : RowKept(i)
    /\ \A i \in DOMAIN resets : password = i => resets[i].set

RoutesKept == \A i \in DOMAIN resets : resets[i].routed \in {None, RoutedTo(i)}

\* Of the requests a form has seen none is pending, nor will be.
SeenKept ==
    /\ \A r \in Workers : task[r].at = "insert" =>
         \A i \in DOMAIN resets : i <= task[r].seen => ~Pending(i)
    /\ DuplicatesOverlapped

Inv == Typed /\ ContextsKept /\ CountsKept /\ RowsKept /\ RoutesKept /\ SeenKept

-----------------------------------------------------------------------------
(***************************************************************************)
(* What the steps have in common.                                          *)
(***************************************************************************)
OthersStay(r) == \A o \in Workers : o # r => task'[o] = task[o]

Task == InboxRequest \cup DecideRequest \cup SubmitRequest

LEMMA Bounds ==
  /\ MaxNotes \in Nat /\ MaxStarted \in Nat /\ MaxFaults \in Nat /\ MaxResets \in Nat
  /\ None \notin Contexts /\ NoContext \notin Tenants /\ SuperAdmin \notin Tenants
  /\ NoContext # SuperAdmin /\ Accounts \subseteq UserRecord
BY InboxBounds, ResetBounds, ContextsDiffer

LEMMA Types ==
  ASSUME Typed
  PROVE  /\ account \in UserRecord
         /\ notes \in Seq(Note) /\ DOMAIN notes = 1..Len(notes) /\ Len(notes) \in Nat
         /\ Len(notes) <= MaxNotes
         /\ resets \in Seq(Reset) /\ DOMAIN resets = 1..Len(resets) /\ Len(resets) \in Nat
         /\ Len(resets) <= MaxResets
         /\ task \in [Workers -> Task]
         /\ changes \in Nat /\ emitted \in 0..changes /\ excused \in BOOLEAN
         /\ \A r \in Workers : Knows(task[r], Len(resets), changes)
BY Bounds DEF Typed, ResetsTypeOK, InboxTypeOK, Task

\* What a task of a phase is.
LEMMA Kinds ==
  ASSUME NEW q \in Task
  PROVE  /\ q.at = "mark" => q \in MarkRequest
         /\ q.at \in {"count", "push", "compute"} => q \in CountRequest
         /\ q.at = "emit" => q \in EmitRequest
         /\ q.at \in Deciding => q \in DecideRequest
         /\ q.at \in Submitters => q \in SubmitRequest
BY DEF Task, InboxRequest, NoTask, MarkRequest, CountRequest, EmitRequest, DecideRequest,
       SubmitRequest, Deciding, Submitters

LEMMA Goes ==
  ASSUME Typed, NEW r \in Workers, NEW q, Becomes(r, q)
  PROVE  task'[r] = q /\ OthersStay(r) /\ (q \in Task => task' \in [Workers -> Task])
BY Types DEF Becomes, OthersStay

LEMMA StartsGoes ==
  ASSUME Typed, NEW r \in Workers, NEW q, Starts(r, q)
  PROVE  /\ task[r] = NoTask /\ Becomes(r, q) /\ started' \in 0..MaxStarted
BY Bounds DEF Typed, ResetsTypeOK, InboxTypeOK, Starts, Becomes

\* The tasks a handler goes on to.
LEMMA Tasks ==
  /\ NoTask \in Task /\ [at |-> "refused"] \in Task /\ [at |-> "fill"] \in Task
  /\ \A stats \in BOOLEAN, ctx \in Contexts :
        Counting(stats, ctx) \in Task /\ Pushing(stats, ctx) \in Task
BY DEF NoTask, Task, InboxRequest, Counting, Pushing, CountRequest

LEMMA UnreadType ==
  ASSUME Typed
  PROVE  Unread \in Nat
<1> DEFINE S == {i \in DOMAIN notes : ~notes[i].read /\ ~notes[i].deleted}
<1>1. S \subseteq 1..Len(notes) /\ Len(notes) \in Nat
  BY Types
<1>2. IsFiniteSet(S)
  BY <1>1, FS_Interval, FS_Subset
<1> QED BY <1>2, FS_CardinalityType DEF Unread

\* A row that is rewritten, if it is there.
LEMMA NoteRewritten ==
  ASSUME NEW q \in Seq(Note), NEW i, NEW v, i \in DOMAIN q => v \in Note
  PROVE  /\ [q EXCEPT ![i] = v] \in Seq(Note)
         /\ Len([q EXCEPT ![i] = v]) = Len(q)
<1>1. CASE i \in DOMAIN q
  BY <1>1
<1>2. CASE i \notin DOMAIN q
  <2>1. [q EXCEPT ![i] = v] = q
    BY <1>2
  <2> QED BY <2>1
<1> QED BY <1>1, <1>2

\* A notification that is added.
LEMMA NoteAdded ==
  ASSUME Typed, NewNote
  PROVE  /\ notes' \in Seq(Note) /\ Len(notes') <= MaxNotes
         /\ changes' = changes + 1
BY Types, Bounds DEF NewNote, Note

-----------------------------------------------------------------------------
(***************************************************************************)
(* Types.                                                                  *)
(***************************************************************************)
\* The inbox after a step, and the requests after a step.
InboxFine ==
    /\ account' = account
    /\ notes' \in Seq(Note) /\ Len(notes') <= MaxNotes
    /\ socket' \in {"off", "joined", "on"}
    /\ shown' \in Nat \cup {None}
    /\ cache' \in BOOLEAN
    /\ started' \in 0..MaxStarted /\ faults' \in 0..MaxFaults
    /\ changes' \in Nat /\ changes <= changes' /\ emitted' \in 0..changes'
    /\ excused' \in BOOLEAN

ResetsFine ==
    /\ resets' \in Seq(Reset) /\ Len(resets') <= MaxResets /\ Len(resets) <= Len(resets')
    /\ password' \in 0..Len(resets')
    /\ contested' \subseteq DOMAIN resets'
    /\ broken' \subseteq DOMAIN resets'

HandlersFine ==
    /\ task' \in [Workers -> Task]
    /\ \A o \in Workers : task'[o] # task[o] => Knows(task'[o], Len(resets'), changes')

LEMMA TypedKeeps ==
  ASSUME Typed, InboxFine, ResetsFine, HandlersFine
  PROVE  Typed'
<1>1. StatsQueries' = StatsQueries
  BY DEF InboxFine, StatsQueries, SchoolAdminStats, TeacherStats, StudentStats, Scoped, Own
<1>2. ResetsTypeOK'
  BY <1>1 DEF Typed, ResetsTypeOK, InboxTypeOK, InboxFine, ResetsFine, HandlersFine, Task
<1>3. ASSUME NEW o \in Workers PROVE Knows(task'[o], Len(resets'), changes')
  <2>1. CASE task'[o] # task[o]
    BY <2>1 DEF HandlersFine
  <2>2. CASE task'[o] = task[o]
    <3>1. /\ Knows(task[o], Len(resets), changes)
          /\ Len(resets) \in Nat /\ Len(resets') \in Nat /\ changes \in Nat
          /\ task[o] \in Task
      BY Types DEF ResetsFine
    <3>2. /\ Len(resets) <= Len(resets') /\ changes <= changes' /\ changes' \in Nat
      BY DEF ResetsFine, InboxFine
    <3>3. CASE task[o].at = "insert"
      BY <2>2, <3>1, <3>2, <3>3 DEF Knows, Task, InboxRequest, NoTask, MarkRequest, CountRequest,
                                    EmitRequest, DecideRequest, SubmitRequest, Deciding
    <3>4. CASE task[o].at = "emit"
      BY <2>2, <3>1, <3>2, <3>4 DEF Knows, Task, InboxRequest, NoTask, MarkRequest, CountRequest,
                                    EmitRequest, DecideRequest, SubmitRequest, Deciding
    <3>5. CASE task[o].at \notin {"insert", "emit"}
      BY <2>2, <3>1, <3>2, <3>5 DEF Knows
    <3> QED BY <3>3, <3>4, <3>5
  <2> QED BY <2>1, <2>2
<1> QED BY <1>2, <1>3 DEF Typed

\* What stays keeps its type.
LEMMA Fine ==
  ASSUME Typed
  PROVE  /\ UNCHANGED <<account, notes, socket, shown, cache, started, faults, changes,
                        emitted, excused>> => InboxFine
         /\ UNCHANGED resetVars => ResetsFine
BY DEF Typed, ResetsTypeOK, InboxTypeOK, InboxFine, ResetsFine, resetVars

LEMMA RoomFine ==
  ASSUME Typed, UNCHANGED <<account, notes, started, faults, changes, emitted, excused>>,
         socket' \in {"off", "joined", "on"}, shown' \in {shown, None}, cache' \in BOOLEAN
  PROVE  InboxFine
<1>1. /\ account' = account /\ notes' \in Seq(Note) /\ Len(notes') <= MaxNotes
      /\ shown' \in Nat \cup {None} /\ excused' \in BOOLEAN
      /\ started' \in 0..MaxStarted /\ faults' \in 0..MaxFaults
      /\ changes' \in Nat /\ changes <= changes' /\ emitted' \in 0..changes'
  BY DEF Typed, ResetsTypeOK, InboxTypeOK
<1> QED BY <1>1 DEF InboxFine

LEMMA HandlerFine ==
  ASSUME Typed, NEW r \in Workers, NEW q \in Task, Becomes(r, q),
         Knows(q, Len(resets'), changes')
  PROVE  HandlersFine
BY Goes DEF HandlersFine, OthersStay

\* A handler that holds no count and no request knows what it must.
LEMMA KnowsNothing ==
  ASSUME NEW q, NEW n, NEW ch, q.at \in {"idle", "refused", "fill", "mark", "count", "push", "compute"}
  PROVE  Knows(q, n, ch)
BY DEF Knows, Deciding

\* The steps of the handlers of notifications.
LEMMA InboxStepTyped ==
  ASSUME Typed, NEW r \in Workers, InboxStep(r), UNCHANGED resetVars
  PROVE  Typed'
<1>0. ResetsFine
  BY Fine
<1>1. task[r] \in Task /\ Knows(task[r], Len(resets), changes)
  BY Types
<1>2. CASE MarkWrite(r)
  <2> DEFINE q == task[r]
             more == IF q.kind = "delete" /\ q.was THEN Pushing(q.stats, q.ctx)
                     ELSE Counting(q.stats, q.ctx)
             row == Marked(notes[q.note], q.kind)
  <2>1. /\ q.at = "mark" /\ Becomes(r, more) /\ changes' = changes + 1
        /\ notes' = [notes EXCEPT ![q.note] = row]
        /\ UNCHANGED <<account, socket, shown, cache, started, faults, emitted>>
        /\ excused' \in BOOLEAN
    BY <1>2 DEF MarkWrite
  <2>2. q \in MarkRequest
    BY <1>1, <2>1, Kinds
  <2>3. more \in Task /\ more.at \in {"idle", "count", "push"}
    BY <2>2, Tasks DEF MarkRequest, Pushing, Counting, NoTask
  <2>4. notes' \in Seq(Note) /\ Len(notes') <= MaxNotes
    <3>1. \A n \in Note : Marked(n, q.kind) \in Note
      BY <2>2 DEF MarkRequest, MarkKinds, Marked, Note
    <3>2. q.note \in DOMAIN notes => row \in Note
      BY <3>1, Types
    <3> HIDE DEF row
    <3>3. /\ [notes EXCEPT ![q.note] = row] \in Seq(Note)
          /\ Len([notes EXCEPT ![q.note] = row]) = Len(notes)
      BY <3>2, NoteRewritten, Types
    <3> QED BY <2>1, <3>3, Types
  <2>5. InboxFine
    BY <2>1, <2>4 DEF InboxFine, Typed, ResetsTypeOK, InboxTypeOK
  <2> HIDE DEF more
  <2> QED BY <1>0, <2>1, <2>3, <2>5, KnowsNothing, HandlerFine, TypedKeeps
<1>3. CASE Count(r)
  <2> DEFINE q == [at |-> "emit", count |-> Unread, knew |-> changes,
                   stats |-> task[r].stats, ctx |-> task[r].ctx]
  <2>1. task[r] \in CountRequest
    BY <1>1, <1>3, Kinds DEF Count
  <2>2. q \in EmitRequest /\ Knows(q, Len(resets'), changes')
    BY <1>3, <2>1, UnreadType, Types DEF Count, CountRequest, EmitRequest, Knows, Deciding
  <2>3. q \in Task
    BY <2>2 DEF Task, InboxRequest
  <2>4. Becomes(r, q) /\ InboxFine
    BY <1>3, Fine DEF Count
  <2> QED BY <1>0, <2>2, <2>3, <2>4, HandlerFine, TypedKeeps
<1>4. CASE Emit(r)
  <2> DEFINE q == task[r]
             more == Pushing(q.stats, q.ctx)
  <2>1. /\ q.at = "emit" /\ Becomes(r, more)
        /\ shown' = IF socket = "off" THEN None ELSE q.count
        /\ emitted' = IF q.knew > emitted THEN q.knew ELSE emitted
        /\ excused' = (q.knew < changes /\ (excused \/ q.knew < emitted))
        /\ UNCHANGED <<account, notes, socket, cache, started, faults, changes>>
    BY <1>4 DEF Emit
  <2>2. q \in EmitRequest /\ q.knew <= changes
    BY <1>1, <2>1, Kinds DEF Knows
  <2>3. more \in Task /\ more.at \in {"idle", "push"}
    BY <2>2, Tasks DEF EmitRequest, Pushing, NoTask
  <2>4. InboxFine
    BY <2>1, <2>2 DEF InboxFine, Typed, ResetsTypeOK, InboxTypeOK, EmitRequest
  <2> HIDE DEF more
  <2> QED BY <1>0, <2>1, <2>3, <2>4, KnowsNothing, HandlerFine, TypedKeeps
<1>5. CASE Push(r)
  <2> DEFINE q == task[r]
             more == IF cache THEN NoTask ELSE [q EXCEPT !.at = "compute"]
  <2>1. q \in CountRequest /\ Becomes(r, more) /\ InboxFine
    BY <1>1, <1>5, Fine, Kinds DEF Push
  <2>2. more \in Task /\ more.at \in {"idle", "compute"}
    BY <2>1 DEF CountRequest, Task, InboxRequest, NoTask
  <2> HIDE DEF more
  <2> QED BY <1>0, <2>1, <2>2, KnowsNothing, HandlerFine, TypedKeeps
<1>6. CASE Compute(r)
  <2> DEFINE more == [at |-> IF StatsRefused(task[r].ctx) THEN "refused" ELSE "fill"]
  <2>1. Becomes(r, more) /\ InboxFine
    BY <1>6, Fine DEF Compute
  <2>2. more \in Task /\ more.at \in {"refused", "fill"}
    BY DEF Task, InboxRequest
  <2> HIDE DEF more
  <2> QED BY <1>0, <2>1, <2>2, KnowsNothing, HandlerFine, TypedKeeps
<1>7. CASE Fill(r) \/ AnswerRefused(r) \/ FailInbox(r)
  <2>1. Becomes(r, NoTask)
    BY <1>7 DEF Fill, AnswerRefused, FailInbox
  <2>2. InboxFine
    <3>1. CASE Fill(r) \/ AnswerRefused(r)
      <4>1. socket' \in {"off", "joined", "on"} /\ cache' \in BOOLEAN
        BY <3>1 DEF Fill, AnswerRefused, Typed, ResetsTypeOK, InboxTypeOK
      <4>2. UNCHANGED <<account, notes, started, faults, changes, emitted, excused, shown>>
        BY <3>1 DEF Fill, AnswerRefused
      <4> QED BY <4>1, <4>2, RoomFine
    <3>2. CASE FailInbox(r)
      <4>1. excused' \in BOOLEAN
        BY <3>2 DEF FailInbox
      <4>2. faults' \in 0..MaxFaults
        BY <3>2, Bounds DEF FailInbox, Faulty, Typed, ResetsTypeOK, InboxTypeOK
      <4>3. UNCHANGED <<account, notes, socket, shown, cache, started, changes, emitted>>
        BY <3>2 DEF FailInbox
      <4>4. /\ account' = account /\ notes' \in Seq(Note) /\ Len(notes') <= MaxNotes
            /\ socket' \in {"off", "joined", "on"} /\ shown' \in Nat \cup {None}
            /\ cache' \in BOOLEAN /\ started' \in 0..MaxStarted
            /\ changes' \in Nat /\ changes <= changes' /\ emitted' \in 0..changes'
        BY <4>3 DEF Typed, ResetsTypeOK, InboxTypeOK
      <4> QED BY <4>1, <4>2, <4>4 DEF InboxFine
    <3> QED BY <1>7, <3>1, <3>2
  <2>3. NoTask \in Task /\ NoTask.at = "idle"
    BY Tasks DEF NoTask
  <2> QED BY <1>0, <2>1, <2>2, <2>3, KnowsNothing, HandlerFine, TypedKeeps
<1> QED BY <1>2, <1>3, <1>4, <1>5, <1>6, <1>7 DEF InboxStep

\* A handler of notifications that starts.
LEMMA InboxStartTyped ==
  ASSUME Typed, NEW r \in Workers, InboxStart(r), UNCHANGED resetVars
  PROVE  Typed'
<1>0. ResetsFine
  BY Fine
<1>1. CASE SendOne(r)
  <2> DEFINE q == Counting(FALSE, SuperAdmin)
  <2>1. /\ NewNote /\ Starts(r, q)
        /\ UNCHANGED <<account, socket, shown, cache, faults, emitted, excused>>
    BY <1>1 DEF SendOne
  <2>2. q \in Task /\ q.at = "count"
    BY Tasks DEF Counting, Contexts
  <2> HIDE DEF q
  <2>3. InboxFine
    BY <2>1, NoteAdded, StartsGoes DEF InboxFine, Typed, ResetsTypeOK, InboxTypeOK
  <2> QED BY <1>0, <2>1, <2>2, <2>3, StartsGoes, KnowsNothing, HandlerFine, TypedKeeps
<1>2. ASSUME NEW ctx \in Contexts, MarkAll(r, ctx) PROVE Typed'
  <2> DEFINE q == Counting(TRUE, ctx)
  <2>1. /\ Starts(r, q) /\ changes' = changes + 1
        /\ notes' = [i \in DOMAIN notes |->
                       IF notes[i].deleted THEN notes[i] ELSE [notes[i] EXCEPT !.read = TRUE]]
        /\ UNCHANGED <<account, socket, shown, cache, faults, emitted, excused>>
    BY <1>2 DEF MarkAll
  <2>2. q \in Task /\ q.at = "count"
    BY Tasks DEF Counting
  <2> HIDE DEF q
  <2>3. notes' \in Seq(Note) /\ Len(notes') <= MaxNotes
    <3>1. \A i \in 1..Len(notes) : notes[i] \in Note
      BY Types
    <3>2. \A n \in Note : [n EXCEPT !.read = TRUE] \in Note
      BY DEF Note
    <3>3. notes' \in [1..Len(notes) -> Note]
      BY <2>1, <3>1, <3>2, Types
    <3> QED BY <3>3, Types
  <2>4. InboxFine
    BY <2>1, <2>3, StartsGoes DEF InboxFine, Typed, ResetsTypeOK, InboxTypeOK
  <2> QED BY <1>0, <2>1, <2>2, <2>4, StartsGoes, KnowsNothing, HandlerFine, TypedKeeps
<1>3. ASSUME NEW i \in 1..MaxNotes, NEW kind \in MarkKinds, NEW stats \in BOOLEAN,
             NEW ctx \in Contexts, MarkFind(r, i, kind, stats, ctx)
      PROVE  Typed'
  <2>1. PICK q : q = [at |-> "mark", note |-> i, kind |-> kind, was |-> notes[i].read,
                      stats |-> stats, ctx |-> ctx]
    OBVIOUS
  <2>2. /\ Starts(r, q) /\ i \in DOMAIN notes
        /\ UNCHANGED <<account, notes, socket, shown, cache, faults, changes, emitted, excused>>
    BY <1>3, <2>1 DEF MarkFind
  <2>3. notes[i] \in Note
    BY <2>2, Types
  <2>4. q \in Task /\ q.at = "mark"
    BY <2>1, <2>3 DEF Task, InboxRequest, MarkRequest, Note
  <2>5. InboxFine
    BY <2>2, StartsGoes DEF InboxFine, Typed, ResetsTypeOK, InboxTypeOK
  <2> QED BY <1>0, <2>2, <2>4, <2>5, StartsGoes, KnowsNothing, HandlerFine, TypedKeeps
<1> QED BY <1>1, <1>2, <1>3 DEF InboxStart

\* The broadcast, the socket and the cache.
LEMMA RoomTyped ==
  ASSUME Typed, SendBroadcast \/ Join \/ Greet \/ Disconnect \/ ExpireStats,
         UNCHANGED resetVars
  PROVE  Typed'
<1>0. ResetsFine
  BY Fine
<1>1. task' = task
  BY DEF SendBroadcast, Join, Greet, Disconnect, ExpireStats
<1>2. HandlersFine
  BY <1>1, Types DEF HandlersFine
<1>3. CASE SendBroadcast
  <2>1. InboxFine
    BY <1>3, NoteAdded, Bounds DEF SendBroadcast, InboxFine, Typed, ResetsTypeOK, InboxTypeOK
  <2> QED BY <1>0, <1>2, <2>1, TypedKeeps
<1>4. CASE Join \/ Greet \/ Disconnect \/ ExpireStats
  <2>1. UNCHANGED <<account, notes, started, faults, changes, emitted, excused>>
    BY <1>4 DEF Join, Greet, Disconnect, ExpireStats
  <2>2. socket' \in {"off", "joined", "on"} /\ shown' \in {shown, None}
    BY <1>4 DEF Join, Greet, Disconnect, ExpireStats, Typed, ResetsTypeOK, InboxTypeOK
  <2>3. cache' \in BOOLEAN
    <3>1. CASE Greet
      <4>1. cache' = (cache \/ ~StatsRefused(NoContext))
        BY <3>1 DEF Greet
      <4> QED BY <4>1
    <3>2. CASE Join \/ Disconnect \/ ExpireStats
      BY <3>2 DEF Join, Disconnect, ExpireStats, Typed, ResetsTypeOK, InboxTypeOK
    <3> QED BY <1>4, <3>1, <3>2
  <2>4. InboxFine
    BY <2>1, <2>2, <2>3, RoomFine
  <2> QED BY <1>0, <1>2, <2>4, TypedKeeps
<1> QED BY <1>3, <1>4

\* The steps that leave the rows, the room and the cache alone.
Calm == UNCHANGED <<account, notes, socket, shown, cache, changes, emitted, excused>>

\* A handler of reset requests that starts or goes on, the inbox left alone.
LEMMA CalmFine ==
  ASSUME Typed, Calm, started' \in 0..MaxStarted, faults' \in 0..MaxFaults
  PROVE  InboxFine
<1>1. /\ account' = account /\ notes' \in Seq(Note) /\ Len(notes') <= MaxNotes
      /\ socket' \in {"off", "joined", "on"} /\ shown' \in Nat \cup {None}
      /\ cache' \in BOOLEAN /\ excused' \in BOOLEAN
      /\ changes' \in Nat /\ changes <= changes' /\ emitted' \in 0..changes'
  BY DEF Calm, Typed, ResetsTypeOK, InboxTypeOK
<1> QED BY <1>1 DEF InboxFine

\* The request i becomes x, the others stay.
Rewrites(i, x) ==
    /\ i \in DOMAIN resets /\ x \in Reset
    /\ Len(resets') = Len(resets) /\ DOMAIN resets' = DOMAIN resets
    /\ resets' \in Seq(Reset)
    /\ resets'[i] = x
    /\ \A j \in DOMAIN resets : j # i => resets'[j] = resets[j]

LEMMA ResetRewritten ==
  ASSUME Typed, NEW i \in DOMAIN resets, NEW x \in Reset, resets' = [resets EXCEPT ![i] = x]
  PROVE  Rewrites(i, x)
BY Types DEF Rewrites

\* What a handler that decides holds, and what it may go on to.
LEMMA DeciderKnows ==
  ASSUME Typed, NEW r \in Workers, task[r].at \in Deciding
  PROVE  /\ task[r] \in DecideRequest /\ task[r].row \in DOMAIN resets
         /\ resets[task[r].row] \in Reset
         /\ \A a \in Deciding : LET q == [task[r] EXCEPT !.at = a] IN
              /\ q \in DecideRequest /\ q.at = a /\ q.row = task[r].row
              /\ q.as = task[r].as /\ q.ctx = task[r].ctx
<1>1. task[r] \in Task /\ Knows(task[r], Len(resets), changes)
  BY Types
<1>2. task[r] \in DecideRequest
  BY <1>1, Kinds
<1>3. task[r].row \in DOMAIN resets /\ resets[task[r].row] \in Reset
  BY <1>1, Types DEF Knows
<1> QED BY <1>2, <1>3 DEF DecideRequest

LEMMA RouteDoes ==
  ASSUME Typed, NEW r \in Workers, SubmitRoute(r)
  PROVE  LET i == task[r].row IN
         /\ task[r].at = "route"
         /\ Rewrites(i, [resets[i] EXCEPT !.routed = RoutedTo(i)])
         /\ Becomes(r, NoTask) /\ Calm
         /\ UNCHANGED <<started, faults, password, contested, broken>>
<1> DEFINE i == task[r].row
           x == [resets[i] EXCEPT !.routed = RoutedTo(i)]
<1>1. task[r].at = "route" /\ i \in DOMAIN resets /\ resets[i] \in Reset
  BY Types DEF SubmitRoute, Knows
<1>2. RoutedTo(i) \in Contexts \cup {None}
  BY <1>1, Types DEF RoutedTo, Reset, Contexts, UserRecord
<1>3. x \in Reset
  BY <1>1, <1>2 DEF Reset
<1>4. resets' = [resets EXCEPT ![i] = x]
  BY DEF SubmitRoute
<1> HIDE DEF x
<1>5. Rewrites(i, x)
  BY <1>1, <1>3, <1>4, ResetRewritten
<1> QED BY <1>1, <1>5 DEF SubmitRoute, Calm, x

LEMMA PasswordDoes ==
  ASSUME Typed, NEW r \in Workers, SetPassword(r)
  PROVE  LET i == task[r].row IN
         /\ task[r].at = "password"
         /\ Rewrites(i, [resets[i] EXCEPT !.set = TRUE]) /\ password' = i
         /\ Becomes(r, [task[r] EXCEPT !.at = "revoke"]) /\ Calm
         /\ UNCHANGED <<started, faults, contested, broken>>
<1> DEFINE i == task[r].row
           x == [resets[i] EXCEPT !.set = TRUE]
<1>1. task[r].at = "password" /\ i \in DOMAIN resets /\ resets[i] \in Reset
  BY DeciderKnows DEF SetPassword, Deciding
<1>2. x \in Reset
  BY <1>1 DEF Reset
<1>3. resets' = [resets EXCEPT ![i] = x]
  BY DEF SetPassword
<1> HIDE DEF x
<1>4. Rewrites(i, x)
  BY <1>1, <1>2, <1>3, ResetRewritten
<1> QED BY <1>1, <1>4 DEF SetPassword, Calm, x

LEMMA RevokeDoes ==
  ASSUME Typed, NEW r \in Workers, Revoke(r)
  PROVE  LET i == task[r].row IN
         /\ task[r].at = "revoke"
         /\ Rewrites(i, [resets[i] EXCEPT !.cleared = TRUE])
         /\ Becomes(r, [task[r] EXCEPT !.at = "decide"]) /\ Calm
         /\ UNCHANGED <<started, faults, password, contested, broken>>
<1> DEFINE i == task[r].row
           x == [resets[i] EXCEPT !.cleared = TRUE]
<1>1. task[r].at = "revoke" /\ i \in DOMAIN resets /\ resets[i] \in Reset
  BY DeciderKnows DEF Revoke, Deciding
<1>2. x \in Reset
  BY <1>1 DEF Reset
<1>3. resets' = [resets EXCEPT ![i] = x]
  BY DEF Revoke
<1> HIDE DEF x
<1>4. Rewrites(i, x)
  BY <1>1, <1>2, <1>3, ResetRewritten
<1> QED BY <1>1, <1>4 DEF Revoke, Calm, x

\* A request that is there is marked.
LEMMA MarkDoes ==
  ASSUME Typed, NEW r \in Workers, Mark(r), ~resets[task[r].row].gone
  PROVE  LET i == task[r].row IN
         /\ task[r].at = "decide"
         /\ Rewrites(i, [resets[i] EXCEPT !.status = task[r].as])
         /\ Becomes(r, [task[r] EXCEPT !.at = "tell"]) /\ Calm
         /\ UNCHANGED <<started, faults, password, contested, broken>>
<1> DEFINE i == task[r].row
           x == [resets[i] EXCEPT !.status = task[r].as]
<1>1. /\ task[r].at = "decide" /\ i \in DOMAIN resets /\ resets[i] \in Reset
      /\ task[r].as \in Decisions
  BY DeciderKnows DEF Mark, Deciding, DecideRequest
<1>2. x \in Reset
  BY <1>1 DEF Reset
<1>3. resets' = [resets EXCEPT ![i] = x]
  BY DEF Mark
<1> HIDE DEF x
<1>4. Rewrites(i, x)
  BY <1>1, <1>2, <1>3, ResetRewritten
<1> QED BY <1>1, <1>4 DEF Mark, Calm, x

LEMMA TellDoes ==
  ASSUME Typed, NEW r \in Workers, Tell(r)
  PROVE  LET i == task[r].row IN
         /\ task[r].at = "tell"
         /\ Rewrites(i, [resets[i] EXCEPT !.told = resets[i].told + 1])
         /\ NewNote
         /\ \E stats \in BOOLEAN : Becomes(r, Counting(stats, task[r].ctx))
         /\ UNCHANGED <<account, socket, shown, cache, started, faults, emitted, excused,
                        password, contested, broken>>
<1> DEFINE i == task[r].row
           x == [resets[i] EXCEPT !.told = resets[i].told + 1]
<1>1. task[r].at = "tell" /\ i \in DOMAIN resets /\ resets[i] \in Reset
  BY DeciderKnows DEF Tell, Deciding
<1>2. x \in Reset
  BY <1>1 DEF Reset
<1>3. resets' = [resets EXCEPT ![i] = x]
  BY DEF Tell
<1> HIDE DEF x
<1>4. Rewrites(i, x)
  BY <1>1, <1>2, <1>3, ResetRewritten
<1>5. \E stats \in BOOLEAN : Becomes(r, Counting(stats, task[r].ctx))
  <2>1. (task[r].as = "approved") \in BOOLEAN
    OBVIOUS
  <2> QED BY <2>1 DEF Tell
<1> QED BY <1>1, <1>4, <1>5 DEF Tell, x

LEMMA DeleteDoes ==
  ASSUME Typed, NEW i, NEW ctx, DeleteReset(i, ctx)
  PROVE  /\ Rewrites(i, [resets[i] EXCEPT !.gone = TRUE])
         /\ UNCHANGED <<inboxVars, password, contested, broken>>
<1> DEFINE x == [resets[i] EXCEPT !.gone = TRUE]
<1>1. i \in DOMAIN resets /\ resets[i] \in Reset
  BY Types DEF DeleteReset
<1>2. x \in Reset
  BY <1>1 DEF Reset
<1>3. resets' = [resets EXCEPT ![i] = x]
  BY DEF DeleteReset
<1> HIDE DEF x
<1>4. Rewrites(i, x)
  BY <1>1, <1>2, <1>3, ResetRewritten
<1> QED BY <1>4 DEF DeleteReset, x

\* A request that is inserted.
Fresher(r) == [status |-> "pending", gone |-> FALSE, school |-> ProfileSchool,
               seen |-> task[r].seen, routed |-> None,
               set |-> FALSE, cleared |-> FALSE, told |-> 0]

LEMMA InsertDoes ==
  ASSUME Typed, NEW r \in Workers, SubmitInsert(r)
  PROVE  /\ task[r].at = "insert" /\ task[r].seen \in 0..Len(resets)
         /\ Fresher(r) \in Reset
         /\ resets' \in Seq(Reset) /\ Len(resets') = Len(resets) + 1
         /\ Len(resets') <= MaxResets
         /\ DOMAIN resets' = DOMAIN resets \cup {Len(resets) + 1}
         /\ \A j \in DOMAIN resets : resets'[j] = resets[j]
         /\ resets'[Len(resets) + 1] = Fresher(r)
         /\ Becomes(r, [at |-> "route", row |-> Len(resets) + 1]) /\ Calm
         /\ UNCHANGED <<started, faults, password, contested, broken>>
<1>1. task[r].at = "insert" /\ task[r] \in SubmitRequest /\ task[r].seen <= Len(resets)
  BY Types, Kinds DEF SubmitInsert, Submitters, Knows
<1>2. task[r].seen \in 0..MaxResets /\ task[r].seen \in 0..Len(resets)
  BY <1>1, Types DEF SubmitRequest
<1>3. ProfileSchool \in Tenants \cup {None}
  BY Types DEF ProfileSchool, UserRecord
<1>4. Fresher(r) \in Reset
  BY <1>2, <1>3 DEF Fresher, Reset
<1>5. resets' = Append(resets, Fresher(r)) /\ Len(resets) < MaxResets
  BY DEF SubmitInsert, Fresher
<1>6. /\ resets' \in Seq(Reset) /\ Len(resets') = Len(resets) + 1
      /\ Len(resets') <= MaxResets
      /\ DOMAIN resets' = DOMAIN resets \cup {Len(resets) + 1}
      /\ \A j \in DOMAIN resets : resets'[j] = resets[j]
      /\ resets'[Len(resets) + 1] = Fresher(r)
  BY <1>4, <1>5, Types, Bounds
<1> QED BY <1>1, <1>2, <1>4, <1>6 DEF SubmitInsert, Calm

\* The form finds no pending request; an administrator finds one.
LEMMA FindDoes ==
  ASSUME Typed, NEW r \in Workers, SubmitFind(r)
  PROVE  /\ \A i \in DOMAIN resets : ~Pending(i)
         /\ task[r] = NoTask /\ Becomes(r, [at |-> "insert", seen |-> Len(resets)])
         /\ started' \in 0..MaxStarted /\ Calm
         /\ UNCHANGED <<faults, resets, password, contested, broken>>
BY StartsGoes DEF SubmitFind, Calm, resetVars

Chosen(i, as, ctx) ==
    [at |-> IF as = "approved" THEN "password" ELSE "decide", row |-> i, as |-> as, ctx |-> ctx]

LEMMA DecideDoes ==
  ASSUME Typed, NEW r \in Workers, NEW i \in 1..MaxResets, NEW as \in Decisions,
         NEW ctx \in Contexts, DecideFind(r, i, as, ctx)
  PROVE  /\ i \in DOMAIN resets /\ Listed(i, ctx) /\ Pending(i)
         /\ task[r] = NoTask /\ Becomes(r, Chosen(i, as, ctx))
         /\ started' \in 0..MaxStarted /\ Calm
         /\ contested' = IF DecidersOf(i) = {} THEN contested ELSE contested \cup {i}
         /\ UNCHANGED <<faults, resets, password, broken>>
<1>1. Starts(r, Chosen(i, as, ctx))
  BY DEF DecideFind, Chosen
<1> QED BY <1>1, StartsGoes DEF DecideFind, Calm

\* A request that is rewritten keeps the types.
LEMMA RewrittenFine ==
  ASSUME Typed, NEW i, NEW x, Rewrites(i, x), password' = i \/ password' = password,
         UNCHANGED <<contested, broken>>
  PROVE  ResetsFine
<1>1. /\ resets' \in Seq(Reset) /\ Len(resets') <= MaxResets /\ Len(resets) <= Len(resets')
      /\ Len(resets') = Len(resets) /\ DOMAIN resets' = DOMAIN resets
  BY Types DEF Rewrites
<1>2. i \in 0..Len(resets)
  BY Types DEF Rewrites
<1>3. password' \in 0..Len(resets')
  BY <1>1, <1>2 DEF Typed, ResetsTypeOK
<1> QED BY <1>1, <1>3 DEF ResetsFine, Typed, ResetsTypeOK

\* A handler that decides on.
LEMMA DecidesOn ==
  ASSUME Typed, NEW r \in Workers, task[r].at \in Deciding, NEW a \in Deciding,
         Len(resets') = Len(resets), Becomes(r, [task[r] EXCEPT !.at = a])
  PROVE  HandlersFine
<1>1. PICK q : q = [task[r] EXCEPT !.at = a]
  OBVIOUS
<1>2. q \in DecideRequest /\ q.at = a /\ q.row \in DOMAIN resets
  BY <1>1, DeciderKnows
<1>3. q \in Task
  BY <1>2 DEF Task
<1>4. Knows(q, Len(resets'), changes')
  BY <1>2, Types DEF Knows, Deciding
<1>5. Becomes(r, q)
  BY <1>1
<1> QED BY <1>3, <1>4, <1>5, HandlerFine

\* A handler that ends.
LEMMA EndsFine ==
  ASSUME Typed, NEW r \in Workers, Becomes(r, NoTask)
  PROVE  HandlersFine
<1>1. NoTask \in Task /\ NoTask.at = "idle"
  BY Tasks DEF NoTask
<1> QED BY <1>1, KnowsNothing, HandlerFine

LEMMA SteadyFine ==
  ASSUME Typed, Calm, UNCHANGED <<started, faults>>
  PROVE  InboxFine
BY CalmFine DEF Typed, ResetsTypeOK, InboxTypeOK

LEMMA ResetStepTyped ==
  ASSUME Typed, NEW r \in Workers, ResetStep(r)
  PROVE  Typed'
<1>1. CASE SubmitFind(r)
  <2>1. PICK q : q = [at |-> "insert", seen |-> Len(resets)]
    OBVIOUS
  <2>2. q \in Task /\ Knows(q, Len(resets), changes')
    BY <2>1, Types, Bounds DEF Task, SubmitRequest, Knows, Deciding
  <2>3. /\ Becomes(r, q) /\ InboxFine /\ ResetsFine /\ resets' = resets
    BY <1>1, <2>1, FindDoes, CalmFine, Fine DEF Typed, ResetsTypeOK, InboxTypeOK, resetVars
  <2> QED BY <2>2, <2>3, HandlerFine, TypedKeeps
<1>2. CASE SubmitInsert(r)
  <2>1. PICK q : q = [at |-> "route", row |-> Len(resets) + 1]
    OBVIOUS
  <2>2. Becomes(r, q) /\ InboxFine
    BY <1>2, <2>1, InsertDoes, SteadyFine
  <2>3. q \in Task /\ Knows(q, Len(resets'), changes')
    <3>1. Len(resets') = Len(resets) + 1 /\ Len(resets') <= MaxResets
      BY <1>2, InsertDoes
    <3> QED BY <2>1, <3>1, Types, Bounds DEF Task, SubmitRequest, Knows, Deciding
  <2>4. ResetsFine
    BY <1>2, InsertDoes, Types DEF ResetsFine, Typed, ResetsTypeOK
  <2> QED BY <2>2, <2>3, <2>4, HandlerFine, TypedKeeps
<1>3. CASE SubmitRoute(r)
  BY <1>3, RouteDoes, RewrittenFine, SteadyFine, EndsFine, TypedKeeps
<1>4. CASE SetPassword(r)
  <2>1. InboxFine /\ ResetsFine /\ Len(resets') = Len(resets)
    <3>1. PICK i, x : /\ Rewrites(i, x) /\ password' \in {i, password} /\ Calm
                      /\ UNCHANGED <<started, faults, contested, broken>>
      BY <1>4, PasswordDoes
    <3> QED BY <3>1, RewrittenFine, SteadyFine DEF Rewrites
  <2>2. HandlersFine
    BY <1>4, <2>1, PasswordDoes, DecidesOn DEF Deciding
  <2> QED BY <2>1, <2>2, TypedKeeps
<1>5. CASE Revoke(r)
  <2>1. InboxFine /\ ResetsFine /\ Len(resets') = Len(resets)
    <3>1. PICK i, x : /\ Rewrites(i, x) /\ password' \in {i, password} /\ Calm
                      /\ UNCHANGED <<started, faults, contested, broken>>
      BY <1>5, RevokeDoes
    <3> QED BY <3>1, RewrittenFine, SteadyFine DEF Rewrites
  <2>2. HandlersFine
    BY <1>5, <2>1, RevokeDoes, DecidesOn DEF Deciding
  <2> QED BY <2>1, <2>2, TypedKeeps
<1>6. CASE Mark(r) /\ ~resets[task[r].row].gone
  <2>1. InboxFine /\ ResetsFine /\ Len(resets') = Len(resets)
    <3>1. PICK i, x : /\ Rewrites(i, x) /\ password' \in {i, password} /\ Calm
                      /\ UNCHANGED <<started, faults, contested, broken>>
      BY <1>6, MarkDoes
    <3> QED BY <3>1, RewrittenFine, SteadyFine DEF Rewrites
  <2>2. HandlersFine
    BY <1>6, <2>1, MarkDoes, DecidesOn DEF Deciding
  <2> QED BY <2>1, <2>2, TypedKeeps
<1>7. CASE Mark(r) /\ resets[task[r].row].gone
  <2>1. /\ Becomes(r, NoTask) /\ Calm /\ UNCHANGED <<started, faults>>
        /\ UNCHANGED resetVars
    BY <1>7 DEF Mark, Calm, resetVars
  <2> QED BY <2>1, SteadyFine, Fine, EndsFine, TypedKeeps
<1>8. CASE Tell(r)
  <2>1. ResetsFine
    BY <1>8, TellDoes, RewrittenFine
  <2>2. InboxFine
    <3>1. NewNote /\ UNCHANGED <<account, socket, shown, cache, started, faults, emitted, excused>>
      BY <1>8, TellDoes
    <3>2. /\ account' = account /\ socket' \in {"off", "joined", "on"}
          /\ shown' \in Nat \cup {None} /\ cache' \in BOOLEAN /\ excused' \in BOOLEAN
          /\ started' \in 0..MaxStarted /\ faults' \in 0..MaxFaults
      BY <3>1 DEF Typed, ResetsTypeOK, InboxTypeOK
    <3>3. changes' \in Nat /\ changes <= changes' /\ emitted' \in 0..changes'
      BY <3>1, NoteAdded DEF Typed, ResetsTypeOK, InboxTypeOK
    <3> QED BY <3>1, <3>2, <3>3, NoteAdded DEF InboxFine
  <2>3. PICK stats \in BOOLEAN : Becomes(r, Counting(stats, task[r].ctx))
    BY <1>8, TellDoes
  <2>4. PICK q : q = Counting(stats, task[r].ctx)
    OBVIOUS
  <2>5. task[r].ctx \in Contexts
    BY <1>8, TellDoes, DeciderKnows DEF Deciding, DecideRequest
  <2>6. q \in Task /\ q.at = "count"
    BY <2>4, <2>5, Tasks DEF Counting
  <2> QED BY <2>1, <2>2, <2>3, <2>4, <2>6, KnowsNothing, HandlerFine, TypedKeeps
<1>9. CASE FailReset(r)
  <2>1. /\ Becomes(r, NoTask) /\ Calm /\ UNCHANGED <<started, resets, password, contested>>
        /\ faults' \in 0..MaxFaults
    BY <1>9, Bounds DEF FailReset, Calm, Faulty, Typed, ResetsTypeOK, InboxTypeOK
  <2>2. broken' \subseteq DOMAIN resets
    <3>1. broken \subseteq DOMAIN resets
      BY DEF Typed, ResetsTypeOK
    <3>2. CASE task[r].at \in Deciding
      BY <1>9, <3>1, <3>2, DeciderKnows DEF FailReset
    <3>3. CASE task[r].at \notin Deciding
      BY <1>9, <3>1, <3>3 DEF FailReset
    <3> QED BY <3>2, <3>3
  <2>3. ResetsFine
    BY <2>1, <2>2 DEF ResetsFine, Typed, ResetsTypeOK
  <2>4. InboxFine
    BY <2>1, CalmFine DEF Typed, ResetsTypeOK, InboxTypeOK
  <2> QED BY <2>1, <2>3, <2>4, EndsFine, TypedKeeps
<1> QED BY <1>1, <1>2, <1>3, <1>4, <1>5, <1>6, <1>7, <1>8, <1>9 DEF ResetStep

LEMMA DecideTyped ==
  ASSUME Typed, NEW r \in Workers, NEW i \in 1..MaxResets, DecideSome(r, i)
  PROVE  Typed'
<1>1. PICK as \in Decisions, ctx \in Contexts : DecideFind(r, i, as, ctx)
  BY DEF DecideSome
<1>2. PICK q : q = Chosen(i, as, ctx)
  OBVIOUS
<1>3. q \in Task /\ (i \in 1..Len(resets) => Knows(q, Len(resets), changes'))
  BY <1>2 DEF Task, DecideRequest, Chosen, Knows, Deciding, Decisions
<1>4. /\ i \in DOMAIN resets /\ Becomes(r, q) /\ resets' = resets
      /\ started' \in 0..MaxStarted /\ Calm /\ UNCHANGED <<faults, password, broken>>
      /\ contested' \in {contested, contested \cup {i}}
  BY <1>1, <1>2, DecideDoes
<1>5. InboxFine /\ ResetsFine
  BY <1>4, CalmFine DEF Typed, ResetsTypeOK, InboxTypeOK, ResetsFine
<1> QED BY <1>3, <1>4, <1>5, Types, HandlerFine, TypedKeeps

\* The steps no handler makes.
LEMMA OtherTyped ==
  ASSUME Typed,
         \/ \E i \in 1..MaxResets, ctx \in Contexts : DeleteReset(i, ctx)
         \/ ChoosePassword \/ RestartAll
  PROVE  Typed'
<1>1. ASSUME NEW i, NEW ctx, DeleteReset(i, ctx) PROVE Typed'
  <2>1. ResetsFine /\ UNCHANGED inboxVars
    BY <1>1, DeleteDoes, RewrittenFine
  <2>2. InboxFine /\ HandlersFine
    BY <2>1, Fine, Types DEF inboxVars, HandlersFine
  <2> QED BY <2>1, <2>2, TypedKeeps
<1>2. CASE ChoosePassword
  <2>1. InboxFine /\ HandlersFine
    BY <1>2, Fine, Types DEF ChoosePassword, inboxVars, HandlersFine
  <2>2. ResetsFine
    BY <1>2, Types DEF ChoosePassword, ResetsFine, Typed, ResetsTypeOK
  <2> QED BY <2>1, <2>2, TypedKeeps
<1>3. CASE RestartAll
  <2>1. /\ task' = [r \in Workers |-> NoTask] /\ socket' = "off" /\ shown' = None
        /\ cache' = FALSE /\ faults' = faults + 1 /\ faults < MaxFaults
        /\ UNCHANGED <<account, notes, started, changes, emitted, excused>>
        /\ UNCHANGED <<resets, password, contested>>
        /\ broken' = broken \cup {i \in DOMAIN resets : DecidersOf(i) # {}}
    BY <1>3 DEF RestartAll, Restart, Faulty
  <2>2. faults' \in 0..MaxFaults
    BY <2>1, Bounds DEF Typed, ResetsTypeOK, InboxTypeOK
  <2>3. /\ account' = account /\ notes' \in Seq(Note) /\ Len(notes') <= MaxNotes
        /\ started' \in 0..MaxStarted /\ excused' \in BOOLEAN
        /\ changes' \in Nat /\ changes <= changes' /\ emitted' \in 0..changes'
    BY <2>1 DEF Typed, ResetsTypeOK, InboxTypeOK
  <2>4. InboxFine
    BY <2>1, <2>2, <2>3 DEF InboxFine
  <2>5. ResetsFine
    BY <2>1 DEF ResetsFine, Typed, ResetsTypeOK
  <2>6. NoTask \in Task /\ NoTask.at = "idle"
    BY Tasks DEF NoTask
  <2>7. HandlersFine
    BY <2>1, <2>6, KnowsNothing DEF HandlersFine
  <2> QED BY <2>4, <2>5, <2>7, TypedKeeps
<1> QED BY <1>1, <1>2, <1>3

LEMMA TypedInit == ResetsInit => Typed
<1> SUFFICES ASSUME ResetsInit PROVE Typed
  OBVIOUS
<1>1. account \in UserRecord
  BY Bounds DEF ResetsInit, InboxInit
<1>2. StatsQueries \subseteq Query
  <2>1. account.schools \subseteq Tenants
    BY <1>1 DEF UserRecord
  <2> QED BY <1>1, <2>1 DEF StatsQueries, SchoolAdminStats, TeacherStats, StudentStats, Scoped,
                      Own, Query, TenantKeys, UserRecord, Roles
<1>3. InboxTypeOK
  <2>1. /\ account \in Accounts /\ notes = <<>> /\ socket = "off" /\ shown = None
        /\ cache = FALSE /\ started = 0 /\ faults = 0 /\ changes = 0 /\ emitted = 0
        /\ excused = FALSE
    BY DEF ResetsInit, InboxInit
  <2>2. /\ notes \in Seq(Note) /\ Len(notes) <= MaxNotes
        /\ started \in 0..MaxStarted /\ faults \in 0..MaxFaults
        /\ changes \in Nat /\ emitted \in 0..changes
    BY <2>1, Bounds
  <2> QED BY <1>2, <2>1, <2>2 DEF InboxTypeOK
<1>4. NoTask \in Task /\ NoTask.at = "idle"
  BY Tasks DEF NoTask
<1>5. task = [r \in Workers |-> NoTask] /\ resets = <<>> /\ password = 0
      /\ contested = {} /\ broken = {}
  BY DEF ResetsInit, InboxInit
<1>6. ResetsTypeOK
  BY <1>3, <1>4, <1>5, Bounds DEF ResetsTypeOK, Task
<1>7. \A r \in Workers : Knows(task[r], Len(resets), changes)
  BY <1>4, <1>5, KnowsNothing
<1> QED BY <1>6, <1>7 DEF Typed

LEMMA TypedStep ==
  ASSUME Typed, ResetsNext
  PROVE  Typed'
<1>1. CASE InboxNext /\ UNCHANGED resetVars
  BY <1>1, InboxStepTyped, InboxStartTyped, RoomTyped DEF InboxNext
<1> QED BY <1>1, ResetStepTyped, DecideTyped, OtherTyped DEF ResetsNext

\* The rows, the room and the handlers in flight have their types.
THEOREM ResetsTyped == ResetsSpec => []ResetsTypeOK
<1>1. ASSUME Typed, UNCHANGED allVars PROVE Typed'
  <2>1. /\ InboxFine /\ ResetsFine /\ HandlersFine
    BY <1>1, Fine, Types DEF allVars, inboxVars, HandlersFine
  <2> QED BY <1>1, <2>1, TypedKeeps
<1>2. Typed => ResetsTypeOK
  BY DEF Typed
<1> QED BY <1>1, <1>2, TypedInit, TypedStep, PTL DEF ResetsSpec

-----------------------------------------------------------------------------
(***************************************************************************)
(* Contexts.                                                               *)
(***************************************************************************)
LEMMA ContextsStay ==
  ASSUME Typed, ContextsKept, account' = account,
         \A i \in DOMAIN resets' : resets'[i].school = ProfileSchool,
         \A o \in Workers : task'[o] # task[o] => Within(account, task'[o])
  PROVE  ContextsKept'
<1>1. ProfileSchool' = ProfileSchool
  BY DEF ProfileSchool
<1>2. OfProfile'
  BY <1>1 DEF OfProfile
<1>3. ASSUME NEW o \in Workers PROVE Within(account', task'[o])
  BY DEF ContextsKept
<1> QED BY <1>2, <1>3 DEF ContextsKept

\* A phase in no context.
LEMMA WithinNothing ==
  ASSUME NEW u, NEW q, q.at \in {"idle", "fill", "insert", "route"}
  PROVE  Within(u, q)
BY DEF Within, Serving, Deciding

\* A handler that goes on stays in its context.
LEMMA WithinOn ==
  ASSUME NEW u, NEW q, NEW p, Within(u, q), q.at \in Serving, p.at \in Serving, p.ctx = q.ctx
  PROVE  Within(u, p)
BY DEF Within, Serving, Deciding

\* The statistics are refused to nobody but an account of another school.
LEMMA RefusedAway ==
  ASSUME Typed, NEW ctx \in ContextsOf(account), StatsRefused(ctx)
  PROVE  /\ account.role \in {"teacher", "school_admin"}
         /\ \E s \in account.schools : s # account.tenant
<1>1. account.role \in Roles /\ account.tenant \in Tenants /\ account.schools \subseteq Tenants
  BY Types DEF UserRecord, Roles
<1>2. PICK q \in StatsQueries : Refuses(ctx, q)
  BY DEF StatsRefused
<1>3. account.role # "admin" /\ ctx \in Tenants /\ ctx # NoContext
  BY <1>1, <1>2, Bounds DEF StatsQueries, ContextsOf
<1>4. "schoolId" \in q.keys /\ ~(q.schools \subseteq {ctx})
  BY <1>2, <1>3 DEF Refuses
<1>5. CASE account.role = "student"
  BY <1>2, <1>4, <1>5 DEF StatsQueries, StudentStats, Own
<1>6. CASE account.role = "school_admin"
  <2>1. q = Scoped("schoolId") \/ q = Own("userId")
    BY <1>2, <1>6 DEF StatsQueries, SchoolAdminStats
  <2>2. q.schools = account.schools
    BY <1>4, <2>1 DEF Scoped, Own
  <2>3. ctx = account.tenant
    BY <1>6 DEF ContextsOf
  <2> QED BY <1>4, <1>6, <2>2, <2>3
<1>7. CASE account.role = "teacher"
  <2>1. q = Scoped("teacherId") \/ q = Own("teacherId")
    BY <1>2, <1>7 DEF StatsQueries, TeacherStats
  <2>2. q.schools = account.schools
    BY <1>4, <2>1 DEF Scoped, Own
  <2>3. ctx = account.tenant \/ ctx \in account.schools
    BY <1>7 DEF ContextsOf
  <2> QED BY <1>4, <1>7, <2>2, <2>3
<1> QED BY <1>1, <1>3, <1>5, <1>6, <1>7 DEF Roles

\* One handler goes on, the requests keep their schools.
LEMMA ContextOf ==
  ASSUME Typed, ContextsKept, NEW r \in Workers, NEW q, Becomes(r, q), account' = account,
         Within(account, q), \A i \in DOMAIN resets' : resets'[i].school = ProfileSchool
  PROVE  ContextsKept'
BY Goes, ContextsStay DEF OthersStay

LEMMA SameSchools ==
  ASSUME ContextsKept, UNCHANGED resets
  PROVE  \A i \in DOMAIN resets' : resets'[i].school = ProfileSchool
BY DEF ContextsKept, OfProfile

LEMMA RewrittenSchools ==
  ASSUME ContextsKept, NEW i, NEW x, Rewrites(i, x), x.school = resets[i].school
  PROVE  \A j \in DOMAIN resets' : resets'[j].school = ProfileSchool
BY DEF ContextsKept, OfProfile, Rewrites

LEMMA InboxContexts ==
  ASSUME Typed, ContextsKept, InboxNext, UNCHANGED resetVars
  PROVE  ContextsKept'
<1>1. account' = account /\ UNCHANGED resets
  BY DEF InboxNext, InboxStep, InboxStart, MarkWrite, Count, Emit, Push, Compute, Fill,
         AnswerRefused, FailInbox, SendOne, MarkAll, MarkFind, SendBroadcast, Join, Greet,
         Disconnect, ExpireStats, resetVars
<1>2. \A i \in DOMAIN resets' : resets'[i].school = ProfileSchool
  BY <1>1, SameSchools
<1>3. ASSUME NEW r \in Workers, InboxStep(r) PROVE ContextsKept'
  <2>1. Within(account, task[r]) /\ Within(account, NoTask)
    BY WithinNothing DEF ContextsKept, NoTask
  <2>2. ASSUME NEW stats \in BOOLEAN, NEW ctx \in Contexts, task[r].at \in Serving,
               task[r].ctx = ctx
        PROVE  Within(account, Counting(stats, ctx)) /\ Within(account, Pushing(stats, ctx))
    <3>1. Within(account, Counting(stats, ctx))
      BY <2>1, <2>2, WithinOn DEF Counting, Serving
    <3>2. Within(account, Pushing(stats, ctx))
      BY <2>1, <2>2, WithinOn DEF Pushing, Serving
    <3> QED BY <3>1, <3>2
  <2>3. CASE MarkWrite(r)
    <3>1. task[r] \in MarkRequest /\ task[r].at = "mark"
      BY <2>3, Types, Kinds DEF MarkWrite
    <3>2. PICK q \in {Pushing(task[r].stats, task[r].ctx), Counting(task[r].stats, task[r].ctx)} :
            Becomes(r, q)
      BY <2>3 DEF MarkWrite
    <3>3. Within(account, q)
      BY <2>2, <3>1, <3>2 DEF MarkRequest, Serving
    <3> QED BY <1>1, <1>2, <3>2, <3>3, ContextOf
  <2>4. CASE Count(r)
    <3>1. PICK q : /\ q = [at |-> "emit", count |-> Unread, knew |-> changes,
                           stats |-> task[r].stats, ctx |-> task[r].ctx]
                   /\ Becomes(r, q)
      BY <2>4 DEF Count
    <3>2. Within(account, q)
      BY <2>1, <2>4, <3>1, WithinOn DEF Count, Serving
    <3> QED BY <1>1, <1>2, <3>1, <3>2, ContextOf
  <2>5. CASE Emit(r)
    <3>1. task[r] \in EmitRequest /\ task[r].at = "emit"
      BY <2>5, Types, Kinds DEF Emit
    <3>2. PICK q : q = Pushing(task[r].stats, task[r].ctx) /\ Becomes(r, q)
      BY <2>5 DEF Emit
    <3>3. Within(account, q)
      BY <2>2, <3>1, <3>2 DEF EmitRequest, Serving
    <3> QED BY <1>1, <1>2, <3>2, <3>3, ContextOf
  <2>6. CASE Push(r)
    <3>1. task[r] \in CountRequest /\ task[r].at = "push"
      BY <2>6, Types, Kinds DEF Push
    <3>2. PICK q \in {NoTask, [task[r] EXCEPT !.at = "compute"]} : Becomes(r, q)
      BY <2>6 DEF Push
    <3>3. Within(account, q)
      BY <2>1, <3>1, <3>2, WithinOn DEF CountRequest, Serving
    <3> QED BY <1>1, <1>2, <3>2, <3>3, ContextOf
  <2>7. CASE Compute(r)
    <3>1. PICK q : /\ q = [at |-> IF StatsRefused(task[r].ctx) THEN "refused" ELSE "fill"]
                   /\ Becomes(r, q)
      BY <2>7 DEF Compute
    <3>2. CASE ~StatsRefused(task[r].ctx)
      <4>1. Within(account, q)
        BY <3>1, <3>2, WithinNothing
      <4> QED BY <1>1, <1>2, <3>1, <4>1, ContextOf
    <3>3. CASE StatsRefused(task[r].ctx)
      <4>1. task[r].ctx # SuperAdmin
        BY <3>3 DEF StatsRefused, Refuses
      <4>2. task[r].ctx \in ContextsOf(account)
        BY <2>1, <2>7, <4>1 DEF Compute, Within, Serving
      <4>3. Within(account, q)
        BY <3>1, <3>3, <4>2, RefusedAway DEF Within, Serving, Deciding
      <4> QED BY <1>1, <1>2, <3>1, <4>3, ContextOf
    <3> QED BY <3>2, <3>3
  <2>8. CASE Fill(r) \/ AnswerRefused(r) \/ FailInbox(r)
    <3>1. Becomes(r, NoTask)
      BY <2>8 DEF Fill, AnswerRefused, FailInbox
    <3> QED BY <1>1, <1>2, <2>1, <3>1, ContextOf
  <2> QED BY <1>3, <2>3, <2>4, <2>5, <2>6, <2>7, <2>8 DEF InboxStep
<1>4. ASSUME NEW r \in Workers, InboxStart(r) PROVE ContextsKept'
  <2>1. PICK q : Becomes(r, q) /\ Within(account, q)
    <3>1. CASE SendOne(r)
      <4>1. Becomes(r, Counting(FALSE, SuperAdmin))
        BY <3>1, StartsGoes DEF SendOne
      <4>2. Within(account, Counting(FALSE, SuperAdmin))
        BY DEF Within, Counting
      <4> QED BY <4>1, <4>2
    <3>2. ASSUME NEW ctx \in Contexts, MarkAll(r, ctx)
          PROVE  \E q : Becomes(r, q) /\ Within(account, q)
      <4>1. Becomes(r, Counting(TRUE, ctx)) /\ ctx \in ContextsOf(account)
        BY <3>2, StartsGoes DEF MarkAll
      <4>2. Within(account, Counting(TRUE, ctx))
        BY <4>1 DEF Within, Counting
      <4> QED BY <4>1, <4>2
    <3>3. ASSUME NEW i \in 1..MaxNotes, NEW kind \in MarkKinds, NEW stats \in BOOLEAN,
                 NEW ctx \in Contexts, MarkFind(r, i, kind, stats, ctx)
          PROVE  \E q : Becomes(r, q) /\ Within(account, q)
      <4>1. PICK q : /\ q = [at |-> "mark", note |-> i, kind |-> kind, was |-> notes[i].read,
                             stats |-> stats, ctx |-> ctx]
                     /\ Starts(r, q)
        BY <3>3 DEF MarkFind
      <4>2. Becomes(r, q) /\ ctx \in ContextsOf(account)
        BY <3>3, <4>1, StartsGoes DEF MarkFind
      <4>3. Within(account, q)
        BY <4>1, <4>2 DEF Within
      <4> QED BY <4>2, <4>3
    <3> QED BY <1>4, <3>1, <3>2, <3>3 DEF InboxStart
  <2> QED BY <1>1, <1>2, <2>1, ContextOf
<1>5. CASE SendBroadcast \/ Join \/ Greet \/ Disconnect \/ ExpireStats
  <2>1. task' = task
    BY <1>5 DEF SendBroadcast, Join, Greet, Disconnect, ExpireStats
  <2> QED BY <1>1, <1>2, <2>1, ContextsStay
<1> QED BY <1>3, <1>4, <1>5 DEF InboxNext

LEMMA ResetContexts ==
  ASSUME Typed, ContextsKept, NEW r \in Workers, ResetStep(r)
  PROVE  ContextsKept'
<1>0. /\ account' = account
      /\ Within(account, task[r]) /\ Within(account, NoTask)
  BY WithinNothing DEF ResetStep, SubmitFind, SubmitInsert, SubmitRoute, SetPassword, Revoke,
     Mark, Tell, FailReset, ContextsKept, NoTask
<1>1. CASE SubmitFind(r)
  <2>1. PICK q : q = [at |-> "insert", seen |-> Len(resets)]
    OBVIOUS
  <2>2. Becomes(r, q) /\ UNCHANGED resets /\ Within(account, q)
    BY <1>1, <2>1, FindDoes, WithinNothing
  <2> QED BY <1>0, <2>2, SameSchools, ContextOf
<1>2. CASE SubmitInsert(r)
  <2>1. PICK q : q = [at |-> "route", row |-> Len(resets) + 1]
    OBVIOUS
  <2>2. Becomes(r, q) /\ Within(account, q)
    BY <1>2, <2>1, InsertDoes, WithinNothing
  <2>3. \A i \in DOMAIN resets' : resets'[i].school = ProfileSchool
    <3>1. /\ DOMAIN resets' = DOMAIN resets \cup {Len(resets) + 1}
          /\ \A j \in DOMAIN resets : resets'[j] = resets[j]
          /\ resets'[Len(resets) + 1] = Fresher(r)
      BY <1>2, InsertDoes
    <3>2. Fresher(r).school = ProfileSchool
      BY DEF Fresher
    <3> QED BY <3>1, <3>2 DEF ContextsKept, OfProfile
  <2> QED BY <1>0, <2>2, <2>3, ContextOf
<1>3. CASE SubmitRoute(r)
  <2>1. PICK i, x : Rewrites(i, x) /\ x = [resets[i] EXCEPT !.routed = RoutedTo(i)] /\ Becomes(r, NoTask)
    BY <1>3, RouteDoes
  <2>2. x.school = resets[i].school
    BY <2>1, Types DEF Rewrites, Reset
  <2> QED BY <1>0, <2>1, <2>2, RewrittenSchools, ContextOf
<1>4. ASSUME NEW i, NEW x, NEW q, task[r].at \in Deciding, Rewrites(i, x),
             x.school = resets[i].school, Becomes(r, q), q.at \in Deciding, q.ctx = task[r].ctx
      PROVE  ContextsKept'
  <2>1. Within(account, q)
    BY <1>0, <1>4, WithinOn DEF Serving
  <2> QED BY <1>0, <1>4, <2>1, RewrittenSchools, ContextOf
<1>5. CASE SetPassword(r)
  <2>1. PICK i, x : /\ Rewrites(i, x) /\ x = [resets[i] EXCEPT !.set = TRUE]
                    /\ task[r].at = "password" /\ Becomes(r, [task[r] EXCEPT !.at = "revoke"])
    BY <1>5, PasswordDoes
  <2>2. x.school = resets[i].school
    BY <2>1, Types DEF Rewrites, Reset
  <2>3. PICK q : q = [task[r] EXCEPT !.at = "revoke"]
    OBVIOUS
  <2>4. task[r].at \in Deciding /\ "revoke" \in Deciding
    BY <2>1 DEF Deciding
  <2>5. q.at \in Deciding /\ q.ctx = task[r].ctx /\ Becomes(r, q)
    BY <2>1, <2>3, <2>4, DeciderKnows
  <2> QED BY <1>4, <2>1, <2>2, <2>4, <2>5
<1>6. CASE Revoke(r)
  <2>1. PICK i, x : /\ Rewrites(i, x) /\ x = [resets[i] EXCEPT !.cleared = TRUE]
                    /\ task[r].at = "revoke" /\ Becomes(r, [task[r] EXCEPT !.at = "decide"])
    BY <1>6, RevokeDoes
  <2>2. x.school = resets[i].school
    BY <2>1, Types DEF Rewrites, Reset
  <2>3. PICK q : q = [task[r] EXCEPT !.at = "decide"]
    OBVIOUS
  <2>4. task[r].at \in Deciding /\ "decide" \in Deciding
    BY <2>1 DEF Deciding
  <2>5. q.at \in Deciding /\ q.ctx = task[r].ctx /\ Becomes(r, q)
    BY <2>1, <2>3, <2>4, DeciderKnows
  <2> QED BY <1>4, <2>1, <2>2, <2>4, <2>5
<1>7. CASE Mark(r) /\ ~resets[task[r].row].gone
  <2>1. PICK i, x : /\ Rewrites(i, x) /\ x = [resets[i] EXCEPT !.status = task[r].as]
                    /\ task[r].at = "decide" /\ Becomes(r, [task[r] EXCEPT !.at = "tell"])
    BY <1>7, MarkDoes
  <2>2. x.school = resets[i].school
    BY <2>1, Types DEF Rewrites, Reset
  <2>3. PICK q : q = [task[r] EXCEPT !.at = "tell"]
    OBVIOUS
  <2>4. task[r].at \in Deciding /\ "tell" \in Deciding
    BY <2>1 DEF Deciding
  <2>5. q.at \in Deciding /\ q.ctx = task[r].ctx /\ Becomes(r, q)
    BY <2>1, <2>3, <2>4, DeciderKnows
  <2> QED BY <1>4, <2>1, <2>2, <2>4, <2>5
<1>8. CASE (Mark(r) /\ resets[task[r].row].gone) \/ FailReset(r)
  <2>1. Becomes(r, NoTask) /\ UNCHANGED resets
    BY <1>8 DEF Mark, FailReset
  <2> QED BY <1>0, <2>1, SameSchools, ContextOf
<1>9. CASE Tell(r)
  <2>1. PICK i, x : /\ Rewrites(i, x) /\ x = [resets[i] EXCEPT !.told = resets[i].told + 1]
                    /\ task[r].at = "tell"
    BY <1>9, TellDoes
  <2>2. x.school = resets[i].school
    BY <2>1, Types DEF Rewrites, Reset
  <2>3. PICK q : /\ \E stats \in BOOLEAN : q = Counting(stats, task[r].ctx)
                 /\ Becomes(r, q)
    BY <1>9, TellDoes
  <2>4. Within(account, q)
    BY <1>0, <2>1, <2>3, WithinOn DEF Counting, Serving, Deciding
  <2> QED BY <1>0, <2>1, <2>2, <2>3, <2>4, RewrittenSchools, ContextOf
<1> QED BY <1>1, <1>2, <1>3, <1>5, <1>6, <1>7, <1>8, <1>9 DEF ResetStep

LEMMA ContextsStep ==
  ASSUME Typed, ContextsKept, ResetsNext
  PROVE  ContextsKept'
<1>1. ASSUME NEW r \in Workers, NEW i \in 1..MaxResets, DecideSome(r, i) PROVE ContextsKept'
  <2>1. PICK as \in Decisions, ctx \in Contexts : DecideFind(r, i, as, ctx)
    BY <1>1 DEF DecideSome
  <2>2. PICK q : q = Chosen(i, as, ctx)
    OBVIOUS
  <2>3. /\ i \in DOMAIN resets /\ Listed(i, ctx) /\ Becomes(r, q) /\ UNCHANGED resets
        /\ account' = account
    BY <2>1, <2>2, DecideDoes DEF Calm
  <2>4. ctx = SuperAdmin \/ ctx \in ContextsOf(account)
    <3>1. ctx = SuperAdmin \/ ctx = ProfileSchool
      BY <2>3 DEF Listed, ContextsKept, OfProfile
    <3>2. ProfileSchool \in {None, account.tenant}
      BY DEF ProfileSchool
    <3>3. ProfileSchool = account.tenant => account.role # "admin" \/ ProfileSchool = None
      BY <3>2 DEF ProfileSchool
    <3> QED BY <3>1, <3>2, <3>3, Bounds DEF ContextsOf
  <2>5. Within(account, q)
    BY <2>2, <2>4 DEF Within, Chosen
  <2> QED BY <2>3, <2>5, SameSchools, ContextOf
<1>2. ASSUME NEW i, NEW ctx, DeleteReset(i, ctx) PROVE ContextsKept'
  <2>1. PICK x : Rewrites(i, x) /\ x = [resets[i] EXCEPT !.gone = TRUE] /\ UNCHANGED inboxVars
    BY <1>2, DeleteDoes
  <2>2. x.school = resets[i].school
    BY <2>1, Types DEF Rewrites, Reset
  <2> QED BY <2>1, <2>2, RewrittenSchools, ContextsStay DEF inboxVars
<1>3. CASE ChoosePassword
  BY <1>3, SameSchools, ContextsStay DEF ChoosePassword, inboxVars
<1>4. CASE RestartAll
  <2>1. task' = [r \in Workers |-> NoTask] /\ account' = account /\ UNCHANGED resets
    BY <1>4 DEF RestartAll, Restart
  <2>2. Within(account, NoTask)
    BY WithinNothing DEF NoTask
  <2> QED BY <2>1, <2>2, SameSchools, ContextsStay
<1>5. CASE InboxNext /\ UNCHANGED resetVars
  BY <1>5, InboxContexts
<1> QED BY <1>1, <1>2, <1>3, <1>4, <1>5, ResetContexts DEF ResetsNext

-----------------------------------------------------------------------------
(***************************************************************************)
(* Counts.                                                                 *)
(***************************************************************************)
Owing == {"count", "emit"}

LEMMA EmitsStay ==
  ASSUME Typed, EmitsRight, UNCHANGED <<notes, changes>> \/ changes' = changes + 1,
         \A o \in Workers : task'[o].at = "emit" => task'[o] = task[o]
  PROVE  EmitsRight'
<1> SUFFICES ASSUME NEW o \in Workers, task'[o].at = "emit", task'[o].knew = changes'
             PROVE  task'[o].count = Unread'
  BY DEF EmitsRight
<1>1. task[o].at = "emit" /\ task'[o] = task[o] /\ task[o] \in EmitRequest
      /\ task[o].knew <= changes /\ task[o].knew \in Nat /\ changes \in Nat
  BY Types, Kinds DEF Knows, EmitRequest
<1>2. UNCHANGED <<notes, changes>>
  BY <1>1
<1>3. Unread' = Unread
  BY <1>2 DEF Unread
<1> QED BY <1>1, <1>2, <1>3 DEF EmitsRight

\* Nobody counts and nothing that matters is written.
LEMMA CountsQuiet ==
  ASSUME Typed, CountsKept, EmitsRight', Unread' = Unread, emitted' = emitted,
         excused => excused', shown' \in {shown, None},
         \A o \in Workers : \/ task'[o] = task[o]
                            \/ task[o].at \notin Owing /\ task'[o].at \notin Owing
  PROVE  CountsKept'
<1>1. excused' \/ \A r \in Workers : Fresh(r)'
  <2> SUFFICES ASSUME ~excused', NEW r \in Workers, task'[r].at = "emit"
               PROVE  Fresh(r)'
    BY DEF Fresh
  <2>1. task'[r] = task[r] /\ Fresh(r)
    BY DEF CountsKept, Owing
  <2>2. CASE task[r].count = Unread \/ task[r].knew < emitted
    BY <2>1, <2>2 DEF Fresh
  <2>3. CASE \E o \in Workers : task[o].at = "count"
    BY <2>3 DEF Fresh, Owing
  <2>4. ASSUME NEW o \in Workers, task[o].at = "emit", task[r].knew < task[o].knew
        PROVE  Fresh(r)'
    <3>1. task'[o] = task[o]
      BY <2>4 DEF Owing
    <3> QED BY <2>1, <2>4, <3>1 DEF Fresh
  <2> QED BY <2>1, <2>2, <2>3, <2>4 DEF Fresh
<1>2. ShownExplained'
  <2> SUFFICES ASSUME shown' # None, ~excused', \A r \in Workers : ~OwesCount(r)'
               PROVE  shown' = Unread'
    BY DEF ShownExplained
  <2>1. \A r \in Workers : ~OwesCount(r)
    BY DEF OwesCount, Owing
  <2> QED BY <2>1 DEF CountsKept, ShownExplained
<1> QED BY <1>1, <1>2 DEF CountsKept

\* The room has missed a count.
LEMMA CountsExcused ==
  ASSUME EmitsRight', excused'
  PROVE  CountsKept'
BY DEF CountsKept, ShownExplained

\* A handler has changed the rows and is about to count.
LEMMA CountsOwed ==
  ASSUME Typed, EmitsRight, changes' = changes + 1, NEW r \in Workers, OthersStay(r),
         task'[r].at = "count"
  PROVE  CountsKept'
<1>1. EmitsRight'
  BY EmitsStay DEF OthersStay
<1>2. \A o \in Workers : Fresh(o)'
  BY DEF Fresh
<1>3. ShownExplained'
  BY DEF ShownExplained, OwesCount
<1> QED BY <1>1, <1>2, <1>3 DEF CountsKept

\* A handler that does not count starts, goes on or ends.
LEMMA CountsIdle ==
  ASSUME Typed, CountsKept, UNCHANGED <<notes, changes, emitted, excused>>,
         shown' \in {shown, None}, NEW r \in Workers, NEW q, Becomes(r, q),
         task[r].at \notin Owing, q.at \notin Owing
  PROVE  CountsKept'
<1>1. \A o \in Workers : \/ task'[o] = task[o]
                         \/ task[o].at \notin Owing /\ task'[o].at \notin Owing
  BY Goes DEF OthersStay
<1>2. EmitsRight'
  BY <1>1, EmitsStay DEF CountsKept, Owing
<1>3. Unread' = Unread
  BY DEF Unread
<1> QED BY <1>1, <1>2, <1>3, CountsQuiet

LEMMA MarkCounts ==
  ASSUME Typed, CountsKept, NEW r \in Workers, MarkWrite(r)
  PROVE  CountsKept'
<1> DEFINE q == task[r]
           silent == q.kind = "delete" /\ q.was
<1>1. /\ q.at = "mark" /\ q \in MarkRequest /\ changes' = changes + 1
      /\ emitted' = emitted /\ shown' = shown
  BY Types, Kinds DEF MarkWrite
<1>2. CASE ~silent
  <2>1. Becomes(r, Counting(q.stats, q.ctx))
    BY <1>2 DEF MarkWrite
  <2>2. task'[r].at = "count" /\ OthersStay(r)
    BY <2>1, Goes DEF Counting
  <2> QED BY <1>1, <2>2, CountsOwed DEF CountsKept
<1>3. CASE silent
  <2>1. PICK p : p = Pushing(q.stats, q.ctx) /\ Becomes(r, p)
    BY <1>3 DEF MarkWrite
  <2>2. p.at \notin Owing
    BY <2>1 DEF Pushing, NoTask, Owing
  <2>3. /\ task[r].at \notin Owing /\ task'[r].at \notin Owing
        /\ \A o \in Workers : o # r => task'[o] = task[o]
    BY <1>1, <2>1, <2>2, Goes DEF OthersStay, Owing
  <2>4. EmitsRight'
    BY <1>1, <2>3, EmitsStay DEF CountsKept, Owing
  <2>5. CASE excused'
    BY <2>4, <2>5, CountsExcused
  <2>6. CASE ~excused'
    <3>1. ~excused /\ notes[q.note].read
      BY <1>3, <2>6 DEF MarkWrite
    <3>2. notes' = [notes EXCEPT ![q.note] = [notes[q.note] EXCEPT !.deleted = TRUE]]
      BY <1>3 DEF MarkWrite, Marked
    <3>3. q.note \in DOMAIN notes => notes[q.note] \in Note
      BY Types
    <3>4. \A i \in DOMAIN notes : (~notes'[i].read /\ ~notes'[i].deleted)
                                    <=> (~notes[i].read /\ ~notes[i].deleted)
      BY <3>1, <3>2, <3>3 DEF Note
    <3>5. DOMAIN notes' = DOMAIN notes
      BY <3>2
    <3>6. Unread' = Unread
      BY <3>4, <3>5 DEF Unread
    <3> QED BY <1>1, <2>3, <2>4, <3>1, <3>6, CountsQuiet
  <2> QED BY <2>5, <2>6
<1> QED BY <1>2, <1>3

LEMMA CountCounts ==
  ASSUME Typed, CountsKept, NEW r \in Workers, Count(r)
  PROVE  CountsKept'
<1>1. PICK q : /\ q = [at |-> "emit", count |-> Unread, knew |-> changes,
                       stats |-> task[r].stats, ctx |-> task[r].ctx]
               /\ Becomes(r, q)
  BY DEF Count
<1>2. /\ task'[r] = q /\ OthersStay(r) /\ task[r].at = "count"
      /\ UNCHANGED <<notes, changes, emitted, excused>> /\ Unread' = Unread
  BY <1>1, Goes DEF Count, Unread
<1>3. q.at = "emit" /\ q.count = Unread /\ q.knew = changes
  BY <1>1
<1>4. EmitsRight'
  BY <1>2, <1>3 DEF CountsKept, EmitsRight, OthersStay
<1>5. ASSUME ~excused, NEW o \in Workers, o # r, task[o].at = "emit"
      PROVE  Fresh(o)'
  <2>1. Fresh(o) /\ task'[o] = task[o]
    BY <1>2, <1>5 DEF CountsKept, OthersStay
  <2>2. /\ task[o].knew \in Nat /\ changes \in Nat /\ task[o].knew <= changes
        /\ (task[o].knew = changes => task[o].count = Unread)
    BY <1>5, Types, Kinds DEF CountsKept, EmitsRight, Knows, EmitRequest
  <2>3. CASE task[o].count = Unread \/ task[o].knew < emitted
    BY <1>2, <2>1, <2>3 DEF Fresh
  <2>4. CASE task[o].knew < changes
    BY <1>2, <1>3, <2>1, <2>4 DEF Fresh
  <2> QED BY <2>2, <2>3, <2>4
<1>6. Fresh(r)'
  BY <1>2, <1>3 DEF Fresh
<1>7. \A o \in Workers : task'[o].at # "emit" => Fresh(o)'
  BY DEF Fresh
<1>8. excused' \/ \A o \in Workers : Fresh(o)'
  BY <1>2, <1>5, <1>6, <1>7 DEF OthersStay
<1>9. ShownExplained'
  BY <1>2, <1>3 DEF ShownExplained, OwesCount
<1> QED BY <1>4, <1>8, <1>9 DEF CountsKept

LEMMA EmitCounts ==
  ASSUME Typed, CountsKept, NEW r \in Workers, Emit(r)
  PROVE  CountsKept'
<1> DEFINE q == task[r]
<1>1. /\ q.at = "emit" /\ UNCHANGED <<notes, changes>> /\ Unread' = Unread
      /\ shown' = IF socket = "off" THEN None ELSE q.count
      /\ emitted' = IF q.knew > emitted THEN q.knew ELSE emitted
      /\ excused' = (q.knew < changes /\ (excused \/ q.knew < emitted))
  BY DEF Emit, Unread
<1>2. PICK p : p = Pushing(q.stats, q.ctx) /\ Becomes(r, p)
  BY DEF Emit
<1>3. p.at \notin Owing /\ task'[r] = p /\ OthersStay(r)
  BY <1>2, Goes DEF Pushing, NoTask, Owing
<1>4. EmitsRight'
  BY <1>1, <1>3, EmitsStay DEF CountsKept, OthersStay, Owing
<1>5. \A o \in Workers : task[o].at = "emit" =>
        task[o].knew \in Nat /\ task[o].knew <= changes
  BY Types, Kinds DEF Knows, EmitRequest
<1>6. changes \in Nat /\ emitted \in Nat /\ emitted <= changes /\ emitted' \in Nat
      /\ emitted <= emitted' /\ q.knew <= emitted'
  BY <1>1, <1>5, Types
<1>7. CASE excused'
  BY <1>4, <1>7, CountsExcused
<1>8. CASE ~excused' /\ q.knew = changes
  <2>1. q.count = Unread
    BY <1>1, <1>8 DEF CountsKept, EmitsRight
  <2>2. ASSUME NEW o \in Workers, task'[o].at = "emit"
        PROVE  Fresh(o)'
    <3>1. o # r /\ task'[o] = task[o] /\ task[o].knew \in Nat /\ task[o].knew <= changes
      BY <1>3, <1>5, <2>2 DEF OthersStay, Owing
    <3>2. task[o].knew = changes => task[o].count = Unread
      BY <2>2, <3>1 DEF CountsKept, EmitsRight
    <3> QED BY <1>1, <1>6, <1>8, <3>1, <3>2 DEF Fresh
  <2>3. \A o \in Workers : Fresh(o)'
    BY <2>2 DEF Fresh
  <2>4. ShownExplained'
    BY <1>1, <2>1 DEF ShownExplained
  <2> QED BY <1>4, <2>3, <2>4 DEF CountsKept
<1>9. CASE ~excused' /\ q.knew # changes
  <2>1. ~excused /\ ~(q.knew < emitted) /\ emitted' = q.knew
    <3>1. q.knew < changes /\ q.knew \in Nat
      BY <1>1, <1>5, <1>6, <1>9
    <3>2. ~(excused \/ q.knew < emitted)
      BY <1>1, <1>9, <3>1, Zenon
    <3>3. emitted' = q.knew
      BY <1>1, <1>6, <3>1, <3>2
    <3> QED BY <3>2, <3>3
  <2>2. ASSUME NEW o \in Workers, task'[o].at = "emit"
        PROVE  Fresh(o)'
    <3>1. o # r /\ task'[o] = task[o] /\ Fresh(o) /\ task[o].knew \in Nat
      BY <1>3, <1>5, <2>1, <2>2 DEF OthersStay, Owing, CountsKept
    <3>2. CASE task[o].count = Unread \/ task[o].knew < emitted
      BY <1>1, <1>6, <3>1, <3>2 DEF Fresh
    <3>3. ASSUME NEW w \in Workers, task[w].at = "count" PROVE Fresh(o)'
      BY <1>1, <1>3, <3>3 DEF Fresh, OthersStay
    <3>4. ASSUME NEW w \in Workers, task[w].at = "emit", task[o].knew < task[w].knew
          PROVE  Fresh(o)'
      <4>1. CASE w = r
        BY <2>1, <3>1, <3>4, <4>1 DEF Fresh
      <4>2. CASE w # r
        BY <1>3, <3>1, <3>4, <4>2 DEF Fresh, OthersStay
      <4> QED BY <4>1, <4>2
    <3> QED BY <2>2, <3>1, <3>2, <3>3, <3>4 DEF Fresh
  <2>3. \A o \in Workers : Fresh(o)'
    BY <2>2 DEF Fresh
  <2>4. ShownExplained'
    <3> SUFFICES ASSUME \A w \in Workers : ~OwesCount(w)' PROVE q.count = Unread
      BY <1>1 DEF ShownExplained
    <3>1. \A w \in Workers : w # r => task[w].at \notin Owing
      BY <1>3 DEF OwesCount, OthersStay, Owing
    <3>2. Fresh(r)
      BY <2>1 DEF CountsKept
    <3>3. ~(task[r].knew < task[r].knew)
      BY <1>1, <1>5
    <3> QED BY <1>1, <2>1, <3>1, <3>2, <3>3 DEF Fresh, Owing
  <2> QED BY <1>4, <2>3, <2>4 DEF CountsKept
<1> QED BY <1>7, <1>8, <1>9

LEMMA InboxCounts ==
  ASSUME Typed, CountsKept, InboxNext, UNCHANGED resetVars
  PROVE  CountsKept'
<1>1. ASSUME NEW r \in Workers, InboxStep(r) PROVE CountsKept'
  <2>1. CASE Push(r)
    <3>1. task[r] \in CountRequest /\ task[r].at = "push"
      BY <2>1, Types, Kinds DEF Push
    <3>2. PICK q \in {NoTask, [task[r] EXCEPT !.at = "compute"]} : Becomes(r, q)
      BY <2>1 DEF Push
    <3>3. task[r].at \notin Owing /\ q.at \notin Owing
      BY <3>1, <3>2 DEF CountRequest, NoTask, Owing
    <3>4. UNCHANGED <<notes, changes, emitted, excused, shown>>
      BY <2>1 DEF Push
    <3> QED BY <3>2, <3>3, <3>4, CountsIdle
  <2>2. CASE Compute(r) \/ Fill(r) \/ AnswerRefused(r)
    <3>1. PICK q \in {NoTask, [at |-> "refused"], [at |-> "fill"]} : Becomes(r, q)
      BY <2>2 DEF Compute, Fill, AnswerRefused
    <3>2. task[r].at \notin Owing /\ q.at \notin Owing
      BY <2>2, <3>1 DEF Compute, Fill, AnswerRefused, NoTask, Owing
    <3>3. UNCHANGED <<notes, changes, emitted, excused, shown>>
      BY <2>2 DEF Compute, Fill, AnswerRefused
    <3> QED BY <3>1, <3>2, <3>3, CountsIdle
  <2>3. CASE FailInbox(r)
    <3>1. /\ Becomes(r, NoTask) /\ UNCHANGED <<notes, changes, emitted, shown>>
          /\ task[r].at # "emit" /\ NoTask.at \notin Owing
          /\ excused' = (excused \/ task[r].at = "count")
      BY <2>3 DEF FailInbox, NoTask, Owing
    <3>2. CASE task[r].at = "count"
      <4>1. EmitsRight'
        BY <3>1, Goes, EmitsStay DEF CountsKept, OthersStay, NoTask
      <4> QED BY <3>1, <3>2, <4>1, CountsExcused
    <3>3. CASE task[r].at # "count"
      <4>1. excused' = excused
        <5>1. excused' = (excused \/ FALSE)
          BY <3>1, <3>3
        <5> QED BY <5>1, Types
      <4> QED BY <3>1, <3>3, <4>1, CountsIdle DEF Owing
    <3> QED BY <3>2, <3>3
  <2> QED BY <1>1, <2>1, <2>2, <2>3, MarkCounts, CountCounts, EmitCounts DEF InboxStep
<1>2. ASSUME NEW r \in Workers, InboxStart(r) PROVE CountsKept'
  <2>1. CASE SendOne(r)
    <3>1. changes' = changes + 1 /\ Becomes(r, Counting(FALSE, SuperAdmin))
      BY <2>1, StartsGoes DEF SendOne, NewNote
    <3>2. task'[r].at = "count" /\ OthersStay(r)
      BY <3>1, Goes DEF Counting
    <3> QED BY <3>1, <3>2, CountsOwed DEF CountsKept
  <2>2. ASSUME NEW ctx \in Contexts, MarkAll(r, ctx) PROVE CountsKept'
    <3>1. changes' = changes + 1 /\ Becomes(r, Counting(TRUE, ctx))
      BY <2>2, StartsGoes DEF MarkAll
    <3>2. task'[r].at = "count" /\ OthersStay(r)
      BY <3>1, Goes DEF Counting
    <3> QED BY <3>1, <3>2, CountsOwed DEF CountsKept
  <2>3. ASSUME NEW i \in 1..MaxNotes, NEW kind \in MarkKinds, NEW stats \in BOOLEAN,
               NEW ctx \in Contexts, MarkFind(r, i, kind, stats, ctx)
        PROVE  CountsKept'
    <3>1. PICK q : /\ q = [at |-> "mark", note |-> i, kind |-> kind, was |-> notes[i].read,
                           stats |-> stats, ctx |-> ctx]
                   /\ Starts(r, q)
      BY <2>3 DEF MarkFind
    <3>2. Becomes(r, q) /\ task[r] = NoTask
      BY <3>1, StartsGoes
    <3>3. task[r].at \notin Owing /\ q.at \notin Owing
      BY <3>1, <3>2 DEF NoTask, Owing
    <3>4. UNCHANGED <<notes, changes, emitted, excused, shown>>
      BY <2>3 DEF MarkFind
    <3> QED BY <3>2, <3>3, <3>4, CountsIdle
  <2> QED BY <1>2, <2>1, <2>2, <2>3 DEF InboxStart
<1>3. CASE SendBroadcast
  <2>1. changes' = changes + 1 /\ task' = task /\ excused'
    BY <1>3 DEF SendBroadcast, NewNote
  <2>2. EmitsRight'
    BY <2>1, EmitsStay DEF CountsKept
  <2> QED BY <2>1, <2>2, CountsExcused
<1>4. CASE Join \/ Greet \/ Disconnect \/ ExpireStats
  <2>1. task' = task /\ UNCHANGED <<notes, changes, emitted, excused>>
    BY <1>4 DEF Join, Greet, Disconnect, ExpireStats
  <2>2. shown' \in {shown, None}
    BY <1>4 DEF Join, Greet, Disconnect, ExpireStats
  <2>3. EmitsRight' /\ Unread' = Unread
    BY <2>1, EmitsStay DEF CountsKept, Unread
  <2> QED BY <2>1, <2>2, <2>3, CountsQuiet
<1> QED BY <1>1, <1>2, <1>3, <1>4 DEF InboxNext

\* A handler of reset requests counts nothing until it has told the account.
LEMMA ResetCounts ==
  ASSUME Typed, CountsKept, NEW r \in Workers, ResetStep(r)
  PROVE  CountsKept'
<1>1. ASSUME NEW q, Calm, Becomes(r, q), task[r].at \notin Owing, q.at \notin Owing
      PROVE  CountsKept'
  BY <1>1, CountsIdle DEF Calm
<1>2. NoTask.at \notin Owing /\ \A a \in Deciding \cup Submitters : a \notin Owing
  BY DEF NoTask, Owing, Deciding, Submitters
<1>3. CASE SubmitFind(r)
  <2>1. PICK q : q = [at |-> "insert", seen |-> Len(resets)]
    OBVIOUS
  <2>2. Calm /\ Becomes(r, q) /\ task[r] = NoTask /\ q.at = "insert"
    BY <1>3, <2>1, FindDoes
  <2> QED BY <1>1, <1>2, <2>2 DEF Submitters
<1>4. CASE SubmitInsert(r)
  <2>1. PICK q : q = [at |-> "route", row |-> Len(resets) + 1]
    OBVIOUS
  <2>2. Calm /\ Becomes(r, q) /\ task[r].at = "insert" /\ q.at = "route"
    BY <1>4, <2>1, InsertDoes
  <2> QED BY <1>1, <1>2, <2>2 DEF Submitters
<1>5. CASE SubmitRoute(r)
  BY <1>1, <1>2, <1>5, RouteDoes DEF Submitters
<1>6. ASSUME NEW a \in Deciding, task[r].at \in Deciding, Calm,
             Becomes(r, [task[r] EXCEPT !.at = a])
      PROVE  CountsKept'
  <2>1. PICK q : q = [task[r] EXCEPT !.at = a]
    OBVIOUS
  <2>2. q.at = a /\ Becomes(r, q)
    BY <1>6, <2>1, DeciderKnows
  <2> QED BY <1>1, <1>2, <1>6, <2>2
<1>7. CASE SetPassword(r)
  BY <1>6, <1>7, PasswordDoes DEF Deciding
<1>8. CASE Revoke(r)
  BY <1>6, <1>8, RevokeDoes DEF Deciding
<1>9. CASE Mark(r) /\ ~resets[task[r].row].gone
  BY <1>6, <1>9, MarkDoes DEF Deciding
<1>10. CASE (Mark(r) /\ resets[task[r].row].gone) \/ FailReset(r)
  <2>1. Becomes(r, NoTask) /\ Calm /\ task[r].at \in Submitters \cup Deciding
    BY <1>10 DEF Mark, FailReset, Calm, Deciding
  <2> QED BY <1>1, <1>2, <2>1
<1>11. CASE Tell(r)
  <2>1. changes' = changes + 1 /\ \E stats \in BOOLEAN : Becomes(r, Counting(stats, task[r].ctx))
    BY <1>11, TellDoes DEF NewNote
  <2>2. task'[r].at = "count" /\ OthersStay(r)
    BY <2>1, Goes DEF Counting
  <2> QED BY <2>1, <2>2, CountsOwed DEF CountsKept
<1> QED BY <1>3, <1>4, <1>5, <1>7, <1>8, <1>9, <1>10, <1>11 DEF ResetStep

LEMMA CountsStep ==
  ASSUME Typed, CountsKept, ResetsNext
  PROVE  CountsKept'
<1>1. ASSUME NEW r \in Workers, NEW i \in 1..MaxResets, DecideSome(r, i) PROVE CountsKept'
  <2>1. PICK as \in Decisions, ctx \in Contexts : DecideFind(r, i, as, ctx)
    BY <1>1 DEF DecideSome
  <2>2. PICK q : q = Chosen(i, as, ctx)
    OBVIOUS
  <2>3. task[r] = NoTask /\ Becomes(r, q) /\ Calm
    BY <2>1, <2>2, DecideDoes
  <2>4. task[r].at \notin Owing /\ q.at \notin Owing
    BY <2>2, <2>3 DEF Chosen, NoTask, Owing
  <2> QED BY <2>3, <2>4, CountsIdle DEF Calm
<1>2. CASE \/ \E i \in 1..MaxResets, ctx \in Contexts : DeleteReset(i, ctx)
           \/ ChoosePassword
  <2>1. UNCHANGED inboxVars
    BY <1>2 DEF DeleteReset, ChoosePassword
  <2>2. EmitsRight' /\ Unread' = Unread
    BY <2>1, EmitsStay DEF inboxVars, CountsKept, Unread
  <2> QED BY <2>1, <2>2, CountsQuiet DEF inboxVars
<1>3. CASE RestartAll
  <2>1. /\ task' = [r \in Workers |-> NoTask] /\ shown' = None
        /\ UNCHANGED <<notes, changes, emitted, excused>>
    BY <1>3 DEF RestartAll, Restart
  <2>2. \A o \in Workers : task'[o].at = "idle"
    BY <2>1 DEF NoTask
  <2> QED BY <2>1, <2>2 DEF CountsKept, EmitsRight, Fresh, ShownExplained
<1>4. CASE InboxNext /\ UNCHANGED resetVars
  BY <1>4, InboxCounts
<1> QED BY <1>1, <1>2, <1>3, <1>4, ResetCounts DEF ResetsNext

-----------------------------------------------------------------------------
(***************************************************************************)
(* Requests and the handlers that decide them.                             *)
(***************************************************************************)
\* The request y is x as far as a decision goes, but may have been deleted.
Alike(x, y) ==
    /\ y.status = x.status /\ y.set = x.set /\ y.cleared = x.cleared /\ y.told = x.told
    /\ x.gone => y.gone

LEMMA AlikeKeeps ==
  ASSUME NEW x, NEW y, Alike(x, y)
  PROVE  /\ Rests(x) => Rests(y)
         /\ \A q : Decides(q, x) => Decides(q, y)
BY DEF Alike, Rests, Decides

Excepted(i) == i \in contested \cup broken

\* A request that no handler has come to or gone from.
LEMMA RowStays ==
  ASSUME NEW i, RowKept(i), Alike(resets[i], resets'[i]), Excepted(i) => Excepted(i)',
         DecidersOf(i)' = DecidersOf(i), \A o \in DecidersOf(i) : task'[o] = task[o]
  PROVE  RowKept(i)'
<1> SUFFICES ASSUME ~Excepted(i)' PROVE RowKept(i)'
  BY DEF RowKept, Excepted
<1>1. /\ \A r, o \in DecidersOf(i) : r = o
      /\ \A r \in DecidersOf(i) : Decides(task[r], resets[i])
      /\ DecidersOf(i) = {} => Rests(resets[i])
  BY DEF RowKept, Excepted
<1>2. \A r \in DecidersOf(i)' : Decides(task'[r], resets'[i])
  BY <1>1, AlikeKeeps
<1>3. DecidersOf(i)' = {} => Rests(resets'[i])
  BY <1>1, AlikeKeeps
<1> QED BY <1>1, <1>2, <1>3 DEF RowKept

\* A handler is not at the request j, neither before nor after.
LEMMA OthersKeep ==
  ASSUME Typed, RowsKept, NEW r \in Workers, NEW q, Becomes(r, q), NEW j \in DOMAIN resets,
         task[r].at \in Deciding => task[r].row # j,
         q.at \in Deciding => q.row # j,
         Alike(resets[j], resets'[j]), Excepted(j) => Excepted(j)'
  PROVE  RowKept(j)'
<1>1. task'[r] = q /\ \A o \in Workers : o # r => task'[o] = task[o]
  BY Goes DEF OthersStay
<1>2. DecidersOf(j)' = DecidersOf(j) /\ r \notin DecidersOf(j)
  BY <1>1 DEF DecidersOf
<1>3. \A o \in DecidersOf(j) : task'[o] = task[o]
  BY <1>1, <1>2 DEF DecidersOf
<1> QED BY <1>2, <1>3, RowStays DEF RowsKept

\* The only handler of a request has brought it so far.
LEMMA OnlyDecider ==
  ASSUME RowsKept, NEW r \in Workers, task[r].at \in Deciding, task[r].row \in DOMAIN resets,
         ~Excepted(task[r].row)
  PROVE  DecidersOf(task[r].row) = {r} /\ Decides(task[r], resets[task[r].row])
<1>1. r \in DecidersOf(task[r].row) /\ RowKept(task[r].row)
  BY DEF DecidersOf, RowsKept
<1> QED BY <1>1 DEF RowKept, Excepted

\* A handler at request i goes on or ends.
LEMMA DeciderKeeps ==
  ASSUME Typed, RowsKept, NEW r \in Workers, task[r].at \in Deciding, NEW q, Becomes(r, q),
         NEW x, Rewrites(task[r].row, x), UNCHANGED <<contested, broken>>,
         IF q.at \in Deciding THEN q.row = task[r].row /\ (~Excepted(task[r].row) => Decides(q, x))
         ELSE ~Excepted(task[r].row) => Rests(x)
  PROVE  \A j \in DOMAIN resets' : RowKept(j)'
<1>0. PICK i : i = task[r].row
  OBVIOUS
<1>1. i \in DOMAIN resets /\ resets'[i] = x /\ DOMAIN resets' = DOMAIN resets
  BY <1>0 DEF Rewrites
<1>2. \A j : Excepted(j)' <=> Excepted(j)
  BY DEF Excepted
<1>3. ASSUME NEW j \in DOMAIN resets, j # i PROVE RowKept(j)'
  <2>1. Alike(resets[j], resets'[j])
    BY <1>0, <1>3 DEF Rewrites, Alike
  <2> QED BY <1>0, <1>2, <1>3, <2>1, OthersKeep
<1>4. RowKept(i)'
  <2> SUFFICES ASSUME ~Excepted(i) PROVE RowKept(i)'
    BY <1>2 DEF RowKept, Excepted
  <2>1. DecidersOf(i) = {r}
    BY <1>0, <1>1, OnlyDecider
  <2>2. task'[r] = q /\ \A o \in Workers : o # r => task'[o] = task[o]
    BY Goes DEF OthersStay
  <2>3. CASE q.at \in Deciding
    <3>1. DecidersOf(i)' = {r}
      BY <1>0, <2>1, <2>2, <2>3 DEF DecidersOf
    <3> QED BY <1>0, <1>1, <2>2, <2>3, <3>1 DEF RowKept
  <2>4. CASE q.at \notin Deciding
    <3>1. DecidersOf(i)' = {}
      BY <1>0, <2>1, <2>2, <2>4 DEF DecidersOf
    <3> QED BY <1>0, <1>1, <2>2, <2>4, <3>1 DEF RowKept
  <2> QED BY <2>3, <2>4
<1> QED BY <1>1, <1>3, <1>4

\* What is set belongs to the password that is in force.
TemporaryKept == \A i \in DOMAIN resets : password = i => resets[i].set

LEMMA PasswordStays ==
  ASSUME Typed, RowsKept, NEW i, NEW x, Rewrites(i, x), resets[i].set => x.set,
         password' = password \/ (password' = i /\ x.set)
  PROVE  TemporaryKept'
BY DEF TemporaryKept, RowsKept, Rewrites

LEMMA RowsOfBoth ==
  ASSUME \A i \in DOMAIN resets' : RowKept(i)', TemporaryKept'
  PROVE  RowsKept'
BY DEF RowsKept, TemporaryKept

\* Nothing that is about requests happens.
LEMMA RowsQuiet ==
  ASSUME Typed, RowsKept, NEW r \in Workers, NEW q, Becomes(r, q),
         task[r].at \notin Deciding, q.at \notin Deciding,
         UNCHANGED <<resets, password, contested, broken>>
  PROVE  RowsKept'
<1>1. ASSUME NEW j \in DOMAIN resets PROVE RowKept(j)'
  <2>1. Alike(resets[j], resets'[j])
    BY DEF Alike
  <2> QED BY <2>1, OthersKeep DEF Excepted
<1>2. TemporaryKept'
  BY DEF RowsKept, TemporaryKept
<1> QED BY <1>1, <1>2, RowsOfBoth

\* What a handler of notifications is about has nothing to do with requests.
LEMMA InboxApart ==
  ASSUME Typed, InboxNext
  PROVE  \/ task' = task
         \/ \E r \in Workers : \E q :
              /\ Becomes(r, q) /\ task[r].at \notin Deciding \cup Submitters
              /\ q.at \notin Deciding \cup Submitters
<1> DEFINE Apart == \E r \in Workers : \E q :
                      /\ Becomes(r, q) /\ task[r].at \notin Deciding \cup Submitters
                      /\ q.at \notin Deciding \cup Submitters
<1>0. /\ NoTask.at \notin Deciding \cup Submitters
      /\ \A stats, ctx : /\ Counting(stats, ctx).at \notin Deciding \cup Submitters
                         /\ Pushing(stats, ctx).at \notin Deciding \cup Submitters
  BY DEF NoTask, Counting, Pushing, Deciding, Submitters
<1>1. ASSUME NEW r \in Workers, InboxStep(r) PROVE Apart
  <2>1. task[r].at \notin Deciding \cup Submitters
    BY <1>1 DEF InboxStep, MarkWrite, Count, Emit, Push, Compute, Fill, AnswerRefused, FailInbox,
       Deciding, Submitters
  <2>2. \E q : Becomes(r, q) /\ q.at \notin Deciding \cup Submitters
    <3>1. CASE MarkWrite(r)
      <4>1. PICK q \in {Pushing(task[r].stats, task[r].ctx), Counting(task[r].stats, task[r].ctx)} :
              Becomes(r, q)
        BY <3>1 DEF MarkWrite
      <4> QED BY <1>0, <4>1
    <3>2. CASE Count(r)
      <4>1. PICK q : /\ q = [at |-> "emit", count |-> Unread, knew |-> changes,
                             stats |-> task[r].stats, ctx |-> task[r].ctx]
                     /\ Becomes(r, q)
        BY <3>2 DEF Count
      <4>2. q.at \notin Deciding \cup Submitters
        BY <4>1 DEF Deciding, Submitters
      <4> QED BY <4>1, <4>2
    <3>3. CASE Emit(r)
      BY <1>0, <3>3 DEF Emit
    <3>4. CASE Push(r)
      <4>1. task[r] \in CountRequest
        BY <3>4, Types, Kinds DEF Push
      <4>2. PICK q \in {NoTask, [task[r] EXCEPT !.at = "compute"]} : Becomes(r, q)
        BY <3>4 DEF Push
      <4>3. q.at \notin Deciding \cup Submitters
        BY <4>1, <4>2 DEF CountRequest, NoTask, Deciding, Submitters
      <4> QED BY <4>2, <4>3
    <3>5. CASE Compute(r) \/ Fill(r) \/ AnswerRefused(r) \/ FailInbox(r)
      <4>1. PICK q \in {NoTask, [at |-> "refused"], [at |-> "fill"]} : Becomes(r, q)
        BY <3>5 DEF Compute, Fill, AnswerRefused, FailInbox
      <4>2. q.at \notin Deciding \cup Submitters
        BY <4>1 DEF NoTask, Deciding, Submitters
      <4> QED BY <4>1, <4>2
    <3> QED BY <1>1, <3>1, <3>2, <3>3, <3>4, <3>5 DEF InboxStep
  <2> QED BY <2>1, <2>2
<1>2. ASSUME NEW r \in Workers, InboxStart(r) PROVE Apart
  <2>1. PICK q : Starts(r, q) /\ q.at \notin Deciding \cup Submitters
    <3>1. CASE SendOne(r)
      BY <1>0, <3>1 DEF SendOne
    <3>2. ASSUME NEW ctx \in Contexts, MarkAll(r, ctx)
          PROVE  \E q : Starts(r, q) /\ q.at \notin Deciding \cup Submitters
      BY <1>0, <3>2 DEF MarkAll
    <3>3. ASSUME NEW i \in 1..MaxNotes, NEW kind \in MarkKinds, NEW stats \in BOOLEAN,
                 NEW ctx \in Contexts, MarkFind(r, i, kind, stats, ctx)
          PROVE  \E q : Starts(r, q) /\ q.at \notin Deciding \cup Submitters
      <4>1. PICK q : /\ q = [at |-> "mark", note |-> i, kind |-> kind, was |-> notes[i].read,
                             stats |-> stats, ctx |-> ctx]
                     /\ Starts(r, q)
        BY <3>3 DEF MarkFind
      <4>2. q.at \notin Deciding \cup Submitters
        BY <4>1 DEF Deciding, Submitters
      <4> QED BY <4>1, <4>2
    <3> QED BY <1>2, <3>1, <3>2, <3>3 DEF InboxStart
  <2>2. Becomes(r, q) /\ task[r] = NoTask
    BY <2>1, StartsGoes
  <2> QED BY <1>0, <2>1, <2>2
<1>3. CASE SendBroadcast \/ Join \/ Greet \/ Disconnect \/ ExpireStats
  BY <1>3 DEF SendBroadcast, Join, Greet, Disconnect, ExpireStats
<1> QED BY <1>1, <1>2, <1>3 DEF InboxNext

\* No task and no request changes.
LEMMA RowsIdle ==
  ASSUME RowsKept, UNCHANGED <<task, resets, contested, broken>>, TemporaryKept'
  PROVE  RowsKept'
<1>1. ASSUME NEW j \in DOMAIN resets PROVE RowKept(j)'
  BY DEF RowsKept, RowKept, DecidersOf
<1> QED BY <1>1, RowsOfBoth

LEMMA InboxRows ==
  ASSUME Typed, RowsKept, InboxNext, UNCHANGED resetVars
  PROVE  RowsKept'
<1>1. CASE task' = task
  <2>1. TemporaryKept'
    BY DEF RowsKept, TemporaryKept, resetVars
  <2> QED BY <1>1, <2>1, RowsIdle DEF resetVars
<1>2. ASSUME NEW r \in Workers, NEW q, Becomes(r, q), task[r].at \notin Deciding \cup Submitters,
             q.at \notin Deciding \cup Submitters
      PROVE  RowsKept'
  BY <1>2, RowsQuiet DEF resetVars
<1> QED BY <1>1, <1>2, InboxApart

LEMMA ResetRows ==
  ASSUME Typed, RowsKept, NEW r \in Workers, ResetStep(r)
  PROVE  RowsKept'
<1>0. NoTask.at \notin Deciding \cup Submitters /\ \A a \in Submitters : a \notin Deciding
  BY DEF NoTask, Deciding, Submitters
<1>1. PICK i : i = task[r].row
  OBVIOUS
<1>2. ASSUME task[r].at \in Deciding
      PROVE  /\ resets[i] \in Reset /\ i \in DOMAIN resets
             /\ (~Excepted(i) => Decides(task[r], resets[i]))
             /\ task[r].as \in Decisions
             /\ \A a \in Deciding : LET q == [task[r] EXCEPT !.at = a] IN
                  q.at = a /\ q.row = i /\ q.as = task[r].as
  BY <1>1, <1>2, DeciderKnows, OnlyDecider DEF DecideRequest
<1>3. CASE SubmitFind(r)
  <2>1. PICK q : q = [at |-> "insert", seen |-> Len(resets)]
    OBVIOUS
  <2>2. Becomes(r, q) /\ task[r] = NoTask /\ q.at \in Submitters
        /\ UNCHANGED <<resets, password, contested, broken>>
    BY <1>3, <2>1, FindDoes DEF Submitters
  <2> QED BY <1>0, <2>2, RowsQuiet
<1>4. CASE SubmitInsert(r)
  <2>1. PICK q, n : q = [at |-> "route", row |-> Len(resets) + 1] /\ n = Len(resets) + 1
    OBVIOUS
  <2>2. /\ Becomes(r, q) /\ task[r].at \notin Deciding /\ q.at \notin Deciding
        /\ UNCHANGED <<password, contested, broken>>
        /\ DOMAIN resets' = DOMAIN resets \cup {n}
        /\ \A j \in DOMAIN resets : resets'[j] = resets[j]
        /\ resets'[n] = Fresher(r)
    BY <1>4, <2>1, InsertDoes DEF Deciding
  <2>3. ASSUME NEW j \in DOMAIN resets PROVE RowKept(j)'
    <3>1. Alike(resets[j], resets'[j])
      BY <2>2 DEF Alike
    <3> QED BY <2>2, <3>1, OthersKeep DEF Excepted
  <2>4. RowKept(n)'
    <3>1. n \notin DOMAIN resets /\ Len(resets) \in Nat
      BY <2>1, Types
    <3>2. \A o \in Workers : task[o].at \in Deciding => task[o].row \in DOMAIN resets
      BY DeciderKnows
    <3>3. DecidersOf(n)' = {}
      BY <2>2, <3>1, <3>2, Goes DEF DecidersOf, OthersStay
    <3>4. Rests(Fresher(r))
      BY DEF Rests, Fresher
    <3> QED BY <2>2, <3>3, <3>4 DEF RowKept
  <2>5. TemporaryKept'
    <3>1. password \in 0..Len(resets) /\ Len(resets) \in Nat
      BY Types DEF Typed, ResetsTypeOK
    <3>2. password # n
      BY <2>1, <3>1
    <3> QED BY <2>2, <3>2 DEF TemporaryKept, RowsKept
  <2> QED BY <2>2, <2>3, <2>4, <2>5, RowsOfBoth
<1>5. CASE SubmitRoute(r)
  <2>1. PICK x : /\ Rewrites(i, x) /\ x = [resets[i] EXCEPT !.routed = RoutedTo(i)]
                 /\ Becomes(r, NoTask) /\ UNCHANGED <<password, contested, broken>>
                 /\ task[r].at = "route"
    BY <1>1, <1>5, RouteDoes
  <2>2. /\ Alike(resets[i], x) /\ (resets[i].set => x.set)
        /\ DOMAIN resets' = DOMAIN resets /\ task[r].at \notin Deciding
    BY <2>1, Types DEF Rewrites, Reset, Alike, Deciding
  <2>3. ASSUME NEW j \in DOMAIN resets PROVE RowKept(j)'
    <3>1. Alike(resets[j], resets'[j])
      BY <2>1, <2>2 DEF Rewrites, Alike
    <3> QED BY <1>0, <2>1, <2>2, <3>1, OthersKeep DEF Excepted
  <2>4. TemporaryKept'
    BY <2>1, <2>2, PasswordStays
  <2> QED BY <2>2, <2>3, <2>4, RowsOfBoth
<1>6. CASE SetPassword(r)
  <2>1. PICK x, q : /\ x = [resets[i] EXCEPT !.set = TRUE] /\ q = [task[r] EXCEPT !.at = "revoke"]
                    /\ Rewrites(i, x) /\ password' = i /\ Becomes(r, q)
                    /\ task[r].at = "password" /\ UNCHANGED <<contested, broken>>
    BY <1>1, <1>6, PasswordDoes
  <2>2. task[r].at \in Deciding /\ "revoke" \in Deciding
    BY <2>1 DEF Deciding
  <2>3. q.at = "revoke" /\ q.row = i /\ q.as = task[r].as /\ resets[i] \in Reset
    BY <1>2, <2>1, <2>2
  <2>4. x.set /\ x.status = resets[i].status /\ x.told = resets[i].told
    BY <2>1, <2>3 DEF Reset
  <2>5. ~Excepted(i) => Decides(q, x)
    BY <1>2, <2>1, <2>2, <2>3, <2>4 DEF Decides
  <2>6. \A j \in DOMAIN resets' : RowKept(j)'
    BY <1>1, <2>1, <2>2, <2>3, <2>5, DeciderKeeps
  <2>7. TemporaryKept'
    BY <2>1, <2>4, PasswordStays
  <2> QED BY <2>6, <2>7, RowsOfBoth
<1>7. CASE Revoke(r)
  <2>1. PICK x, q : /\ x = [resets[i] EXCEPT !.cleared = TRUE]
                    /\ q = [task[r] EXCEPT !.at = "decide"]
                    /\ Rewrites(i, x) /\ Becomes(r, q)
                    /\ task[r].at = "revoke" /\ UNCHANGED <<password, contested, broken>>
    BY <1>1, <1>7, RevokeDoes
  <2>2. task[r].at \in Deciding /\ "decide" \in Deciding
    BY <2>1 DEF Deciding
  <2>3. q.at = "decide" /\ q.row = i /\ q.as = task[r].as /\ resets[i] \in Reset
    BY <1>2, <2>1, <2>2
  <2>4. /\ x.cleared /\ x.set = resets[i].set /\ x.status = resets[i].status
        /\ x.told = resets[i].told
    BY <2>1, <2>3 DEF Reset
  <2>5. ~Excepted(i) => Decides(q, x)
    BY <1>2, <2>1, <2>2, <2>3, <2>4 DEF Decides
  <2>6. \A j \in DOMAIN resets' : RowKept(j)'
    BY <1>1, <2>1, <2>2, <2>3, <2>5, DeciderKeeps
  <2>7. TemporaryKept'
    BY <2>1, <2>4, PasswordStays
  <2> QED BY <2>6, <2>7, RowsOfBoth
<1>8. CASE Mark(r) /\ ~resets[task[r].row].gone
  <2>1. PICK x, q : /\ x = [resets[i] EXCEPT !.status = task[r].as]
                    /\ q = [task[r] EXCEPT !.at = "tell"]
                    /\ Rewrites(i, x) /\ Becomes(r, q)
                    /\ task[r].at = "decide" /\ UNCHANGED <<password, contested, broken>>
    BY <1>1, <1>8, MarkDoes
  <2>2. task[r].at \in Deciding /\ "tell" \in Deciding
    BY <2>1 DEF Deciding
  <2>3. q.at = "tell" /\ q.row = i /\ q.as = task[r].as /\ resets[i] \in Reset
    BY <1>2, <2>1, <2>2
  <2>4. /\ x.cleared = resets[i].cleared /\ x.set = resets[i].set /\ x.status = task[r].as
        /\ x.told = resets[i].told
    BY <2>1, <2>3 DEF Reset
  <2>5. ~Excepted(i) => Decides(q, x)
    BY <1>2, <2>1, <2>2, <2>3, <2>4 DEF Decides
  <2>6. \A j \in DOMAIN resets' : RowKept(j)'
    BY <1>1, <2>1, <2>2, <2>3, <2>5, DeciderKeeps
  <2>7. TemporaryKept'
    BY <2>1, <2>4, PasswordStays
  <2> QED BY <2>6, <2>7, RowsOfBoth
<1>9. CASE Mark(r) /\ resets[task[r].row].gone
  <2>1. /\ task[r].at = "decide" /\ Becomes(r, NoTask) /\ resets[i].gone
        /\ UNCHANGED <<resets, password, contested, broken>>
    BY <1>1, <1>9 DEF Mark
  <2>2. task[r].at \in Deciding
    BY <2>1 DEF Deciding
  <2>3. Rewrites(i, resets[i])
    BY <1>2, <2>1, <2>2, Types DEF Rewrites
  <2>4. ~Excepted(i) => Rests(resets[i])
    BY <1>2, <2>1, <2>2 DEF Decides, Rests
  <2>5. \A j \in DOMAIN resets' : RowKept(j)'
    <3>1. PICK x : x = resets[i]
      OBVIOUS
    <3> QED BY <1>0, <1>1, <2>1, <2>2, <2>3, <2>4, <3>1, DeciderKeeps
  <2>6. TemporaryKept'
    BY <2>1 DEF TemporaryKept, RowsKept
  <2> QED BY <2>5, <2>6, RowsOfBoth
<1>10. CASE Tell(r)
  <2>1. PICK x, q : /\ x = [resets[i] EXCEPT !.told = resets[i].told + 1]
                    /\ \E stats \in BOOLEAN : q = Counting(stats, task[r].ctx)
                    /\ Rewrites(i, x) /\ Becomes(r, q)
                    /\ task[r].at = "tell" /\ UNCHANGED <<password, contested, broken>>
    BY <1>1, <1>10, TellDoes
  <2>2. task[r].at \in Deciding /\ q.at \notin Deciding
    BY <2>1 DEF Deciding, Counting
  <2>3. resets[i] \in Reset /\ task[r].as \in Decisions
    BY <1>2, <2>2
  <2>4. /\ x.cleared = resets[i].cleared /\ x.set = resets[i].set /\ x.gone = resets[i].gone
        /\ x.status = resets[i].status /\ x.told = resets[i].told + 1
    BY <2>1, <2>3 DEF Reset
  <2>5. ~Excepted(i) => Rests(x)
    BY <1>2, <2>1, <2>2, <2>3, <2>4 DEF Decides, Rests, Decisions
  <2>6. \A j \in DOMAIN resets' : RowKept(j)'
    BY <1>1, <2>1, <2>2, <2>5, DeciderKeeps
  <2>7. TemporaryKept'
    BY <2>1, <2>4, PasswordStays
  <2> QED BY <2>6, <2>7, RowsOfBoth
<1>11. CASE FailReset(r)
  <2>1. /\ Becomes(r, NoTask) /\ UNCHANGED <<resets, password, contested>>
        /\ broken \subseteq broken' /\ (task[r].at \in Deciding => i \in broken')
    BY <1>1, <1>11 DEF FailReset
  <2>2. ASSUME NEW j \in DOMAIN resets PROVE RowKept(j)'
    <3>1. CASE task[r].at \in Deciding /\ j = i
      BY <2>1, <3>1 DEF RowKept
    <3>2. CASE ~(task[r].at \in Deciding /\ j = i)
      <4>1. Alike(resets[j], resets'[j]) /\ (Excepted(j) => Excepted(j)')
        BY <2>1 DEF Alike, Excepted
      <4> QED BY <1>0, <1>1, <2>1, <3>2, <4>1, OthersKeep
    <3> QED BY <3>1, <3>2
  <2>3. TemporaryKept'
    BY <2>1 DEF TemporaryKept, RowsKept
  <2> QED BY <2>1, <2>2, <2>3, RowsOfBoth
<1> QED BY <1>3, <1>4, <1>5, <1>6, <1>7, <1>8, <1>9, <1>10, <1>11 DEF ResetStep

LEMMA RowsStep ==
  ASSUME Typed, RowsKept, ResetsNext
  PROVE  RowsKept'
<1>1. ASSUME NEW r \in Workers, NEW i \in 1..MaxResets, DecideSome(r, i) PROVE RowsKept'
  <2>1. PICK as \in Decisions, ctx \in Contexts : DecideFind(r, i, as, ctx)
    BY <1>1 DEF DecideSome
  <2>2. PICK q : q = Chosen(i, as, ctx)
    OBVIOUS
  <2>3. /\ i \in DOMAIN resets /\ Pending(i) /\ task[r] = NoTask /\ Becomes(r, q)
        /\ contested' = IF DecidersOf(i) = {} THEN contested ELSE contested \cup {i}
        /\ UNCHANGED <<resets, password, broken>>
    BY <2>1, <2>2, DecideDoes
  <2>4. /\ q.row = i /\ q.as = as /\ q.at \in Deciding
        /\ q.at = IF as = "approved" THEN "password" ELSE "decide"
        /\ task[r].at \notin Deciding /\ as \in {"approved", "rejected"}
    <3>1. q.row = i /\ q.as = as /\ q.at = IF as = "approved" THEN "password" ELSE "decide"
      BY <2>2 DEF Chosen
    <3>2. task[r].at \notin Deciding /\ "password" \in Deciding /\ "decide" \in Deciding
      BY <2>3 DEF NoTask, Deciding
    <3>3. as \in {"approved", "rejected"}
      BY DEF Decisions
    <3>4. q.at \in Deciding
      BY <3>1, <3>2
    <3> QED BY <3>1, <3>2, <3>3, <3>4
  <2>5. ASSUME NEW j \in DOMAIN resets, j # i PROVE RowKept(j)'
    <3>1. Alike(resets[j], resets'[j]) /\ (Excepted(j) => Excepted(j)')
      BY <2>3 DEF Alike, Excepted
    <3> QED BY <2>3, <2>4, <2>5, <3>1, OthersKeep
  <2>6. RowKept(i)'
    <3>1. CASE DecidersOf(i) # {}
      BY <2>3, <3>1 DEF RowKept
    <3>2. CASE DecidersOf(i) = {}
      <4>1. Excepted(i) \/ Rests(resets[i])
        BY <2>3, <3>2 DEF RowsKept, RowKept, Excepted
      <4>2. Rests(resets[i]) => Decides(q, resets[i])
        BY <2>3, <2>4 DEF Rests, Decides, Pending
      <4>3. DecidersOf(i)' = {r} /\ task'[r] = q
        <5>1. task'[r] = q /\ OthersStay(r)
          BY <2>3, Goes
        <5>2. \A o \in Workers \ {r} : ~(task[o].at \in Deciding /\ task[o].row = i)
          BY <3>2 DEF DecidersOf
        <5>3. \A o \in Workers \ {r} : ~(task'[o].at \in Deciding /\ task'[o].row = i)
          BY <5>1, <5>2 DEF OthersStay
        <5> QED BY <2>4, <5>1, <5>3 DEF DecidersOf
      <4> QED BY <2>3, <3>2, <4>1, <4>2, <4>3 DEF RowKept, Excepted
    <3> QED BY <3>1, <3>2
  <2>7. TemporaryKept'
    BY <2>3 DEF TemporaryKept, RowsKept
  <2> QED BY <2>3, <2>5, <2>6, <2>7, RowsOfBoth
<1>2. ASSUME NEW i, NEW ctx, DeleteReset(i, ctx) PROVE RowsKept'
  <2>1. PICK x : /\ Rewrites(i, x) /\ x = [resets[i] EXCEPT !.gone = TRUE]
                 /\ task' = task /\ UNCHANGED <<password, contested, broken>>
    BY <1>2, DeleteDoes DEF inboxVars
  <2>2. /\ Alike(resets[i], x) /\ (resets[i].set => x.set) /\ DOMAIN resets' = DOMAIN resets
    BY <2>1, Types DEF Rewrites, Reset, Alike
  <2>3. ASSUME NEW j \in DOMAIN resets PROVE RowKept(j)'
    <3>1. Alike(resets[j], resets'[j])
      BY <2>1, <2>2 DEF Rewrites, Alike
    <3>2. DecidersOf(j)' = DecidersOf(j)
      BY <2>1 DEF DecidersOf
    <3> QED BY <2>1, <3>1, <3>2, RowStays DEF RowsKept, Excepted
  <2>4. TemporaryKept'
    BY <2>1, <2>2, PasswordStays
  <2> QED BY <2>2, <2>3, <2>4, RowsOfBoth
<1>3. CASE ChoosePassword
  <2>1. password' = 0 /\ UNCHANGED <<task, resets, contested, broken>>
    BY <1>3 DEF ChoosePassword, inboxVars
  <2>2. TemporaryKept'
    BY <2>1, Types DEF TemporaryKept
  <2> QED BY <2>1, <2>2, RowsIdle
<1>4. CASE RestartAll
  <2>1. /\ task' = [r \in Workers |-> NoTask] /\ UNCHANGED <<resets, password, contested>>
        /\ broken' = broken \cup {i \in DOMAIN resets : DecidersOf(i) # {}}
    BY <1>4 DEF RestartAll, Restart
  <2>2. ASSUME NEW j \in DOMAIN resets PROVE RowKept(j)'
    <3>1. DecidersOf(j)' = {}
      BY <2>1 DEF DecidersOf, NoTask, Deciding
    <3>2. CASE DecidersOf(j) # {}
      BY <2>1, <3>2 DEF RowKept
    <3>3. CASE DecidersOf(j) = {}
      BY <2>1, <3>1, <3>3 DEF RowsKept, RowKept
    <3> QED BY <3>2, <3>3
  <2>3. TemporaryKept'
    BY <2>1 DEF TemporaryKept, RowsKept
  <2> QED BY <2>1, <2>2, <2>3, RowsOfBoth
<1>5. CASE InboxNext /\ UNCHANGED resetVars
  BY <1>5, InboxRows
<1> QED BY <1>1, <1>2, <1>3, <1>4, <1>5, ResetRows DEF ResetsNext

-----------------------------------------------------------------------------
(***************************************************************************)
(* Where requests are routed, and what the forms have seen.                *)
(***************************************************************************)
LEMMA AccountStays ==
  ASSUME ResetsNext
  PROVE  account' = account
BY DEF ResetsNext, InboxNext, InboxStep, InboxStart, MarkWrite, Count, Emit, Push, Compute, Fill,
       AnswerRefused, FailInbox, SendOne, MarkAll, MarkFind, SendBroadcast, Join, Greet,
       Disconnect, ExpireStats, ResetStep, SubmitFind, SubmitInsert, SubmitRoute, SetPassword,
       Revoke, Mark, Tell, FailReset, DecideSome, DecideFind, DeleteReset, ChoosePassword,
       RestartAll, Restart, inboxVars

\* A request grows older: what is not pending stays so.
Ages(x, y) ==
    /\ y.school = x.school /\ y.seen = x.seen
    /\ y.status = "pending" /\ ~y.gone => x.status = "pending" /\ ~x.gone

SeenBy(q) == q.at = "insert" => \A i \in DOMAIN resets : i <= q.seen => ~Pending(i)

\* The requests age, and a form that has looked has just looked or had before.
LEMMA SeenStays ==
  ASSUME Typed, SeenKept, DOMAIN resets' = DOMAIN resets,
         \A i \in DOMAIN resets : Ages(resets[i], resets'[i]),
         \A o \in Workers : task'[o].at = "insert" => SeenBy(task'[o])
  PROVE  SeenKept'
<1>1. \A i \in DOMAIN resets : Pending(i)' => Pending(i)
  BY DEF Pending, Ages
<1>2. DuplicatesOverlapped'
  BY <1>1, Types DEF SeenKept, DuplicatesOverlapped, Ages
<1>3. ASSUME NEW o \in Workers, task'[o].at = "insert", NEW i \in DOMAIN resets,
             i <= task'[o].seen
      PROVE  ~Pending(i)'
  BY <1>1, <1>3 DEF SeenBy
<1> QED BY <1>2, <1>3 DEF SeenKept

LEMMA SeenBefore ==
  ASSUME SeenKept, NEW o \in Workers
  PROVE  SeenBy(task[o])
BY DEF SeenKept, SeenBy

LEMMA RoutesStay ==
  ASSUME ContextsKept, RoutesKept, account' = account, DOMAIN resets' = DOMAIN resets,
         \A i \in DOMAIN resets : /\ resets'[i].school = resets[i].school
                                  /\ resets'[i].routed \in {resets[i].routed, RoutedTo(i)}
  PROVE  RoutesKept'
<1> SUFFICES ASSUME NEW i \in DOMAIN resets PROVE resets'[i].routed \in {None, RoutedTo(i)'}
  BY DEF RoutesKept
<1>1. RoutedTo(i)' = RoutedTo(i)
  BY DEF RoutedTo
<1> QED BY <1>1 DEF RoutesKept

\* A task that is no form's.
LEMMA SeenNothing ==
  ASSUME NEW q, q.at # "insert"
  PROVE  SeenBy(q)
BY DEF SeenBy

\* One handler goes on, one request or none is rewritten.
LEMMA SeenOf ==
  ASSUME Typed, SeenKept, ContextsKept, RoutesKept, account' = account,
         NEW r \in Workers, NEW q, Becomes(r, q), SeenBy(q),
         NEW i, NEW x, Rewrites(i, x), Ages(resets[i], x),
         x.routed \in {resets[i].routed, RoutedTo(i)}
  PROVE  SeenKept' /\ RoutesKept'
<1>1. \A o \in Workers : SeenBy(task'[o])
  BY Goes, SeenBefore DEF OthersStay
<1>2. \A j \in DOMAIN resets : Ages(resets[j], resets'[j])
  BY DEF Rewrites, Ages
<1>3. \A j \in DOMAIN resets : /\ resets'[j].school = resets[j].school
                               /\ resets'[j].routed \in {resets[j].routed, RoutedTo(j)}
  BY DEF Rewrites, Ages
<1> QED BY <1>1, <1>2, <1>3, SeenStays, RoutesStay DEF Rewrites

LEMMA SeenIdle ==
  ASSUME Typed, SeenKept, ContextsKept, RoutesKept, account' = account, UNCHANGED resets,
         \A o \in Workers : SeenBy(task'[o])
  PROVE  SeenKept' /\ RoutesKept'
<1>1. \A j \in DOMAIN resets : Ages(resets[j], resets'[j])
  BY DEF Ages
<1> QED BY <1>1, SeenStays, RoutesStay

LEMMA SeenOn ==
  ASSUME Typed, SeenKept, ContextsKept, RoutesKept, account' = account, UNCHANGED resets,
         NEW r \in Workers, NEW q, Becomes(r, q), SeenBy(q)
  PROVE  SeenKept' /\ RoutesKept'
<1>1. \A o \in Workers : SeenBy(task'[o])
  BY Goes, SeenBefore DEF OthersStay
<1> QED BY <1>1, SeenIdle

LEMMA ResetSeen ==
  ASSUME Typed, ContextsKept, RoutesKept, SeenKept, NEW r \in Workers, ResetStep(r),
         account' = account
  PROVE  SeenKept' /\ RoutesKept'
<1>0. SeenBy(NoTask)
  BY SeenNothing DEF NoTask
<1>1. CASE SubmitFind(r)
  <2>1. PICK q : q = [at |-> "insert", seen |-> Len(resets)]
    OBVIOUS
  <2>2. Becomes(r, q) /\ UNCHANGED resets /\ SeenBy(q)
    BY <1>1, <2>1, FindDoes DEF SeenBy
  <2> QED BY <2>2, SeenOn
<1>2. CASE SubmitInsert(r)
  <2>1. PICK q, n : q = [at |-> "route", row |-> Len(resets) + 1] /\ n = Len(resets) + 1
    OBVIOUS
  <2>2. /\ Becomes(r, q) /\ task[r].at = "insert" /\ task[r].seen \in 0..Len(resets)
        /\ DOMAIN resets' = DOMAIN resets \cup {n}
        /\ \A j \in DOMAIN resets : resets'[j] = resets[j]
        /\ resets'[n] = Fresher(r)
    BY <1>2, <2>1, InsertDoes
  <2>3. DOMAIN resets = 1..Len(resets) /\ Len(resets) \in Nat /\ n = Len(resets) + 1
    BY <2>1, Types
  <2>4. \A i \in DOMAIN resets : Pending(i)' <=> Pending(i)
    BY <2>2 DEF Pending
  <2>5. ASSUME NEW i \in DOMAIN resets', NEW j \in DOMAIN resets', i < j, Pending(i)', Pending(j)'
        PROVE  resets'[j].seen < i
    <3>1. CASE j \in DOMAIN resets
      <4>1. i \in DOMAIN resets
        BY <2>2, <2>3, <2>5, <3>1
      <4> QED BY <2>2, <2>4, <2>5, <3>1, <4>1 DEF SeenKept, DuplicatesOverlapped
    <3>2. CASE j = n
      <4>1. i \in DOMAIN resets /\ Pending(i)
        BY <2>2, <2>3, <2>4, <2>5, <3>2
      <4>2. resets'[j].seen = task[r].seen
        BY <2>2, <3>2 DEF Fresher
      <4>3. ~(i <= task[r].seen)
        BY <2>2, <4>1 DEF SeenKept
      <4> QED BY <2>2, <2>3, <4>1, <4>2, <4>3
    <3> QED BY <2>2, <3>1, <3>2
  <2>6. DuplicatesOverlapped'
    BY <2>5 DEF DuplicatesOverlapped
  <2>7. ASSUME NEW o \in Workers, task'[o].at = "insert", NEW i \in DOMAIN resets',
               i <= task'[o].seen
        PROVE  ~Pending(i)'
    <3>1. o # r /\ task'[o] = task[o]
      BY <2>1, <2>2, <2>7, Goes DEF OthersStay
    <3>2. task[o].seen <= Len(resets) /\ task[o].seen \in 0..MaxResets
      BY <2>7, <3>1, Types, Kinds DEF Knows, Submitters, SubmitRequest
    <3>3. i \in DOMAIN resets
      BY <2>2, <2>3, <2>7, <3>1, <3>2, Bounds
    <3> QED BY <2>4, <2>7, <3>1, <3>3 DEF SeenKept
  <2>8. SeenKept'
    BY <2>6, <2>7 DEF SeenKept
  <2>9. RoutesKept'
    <3>1. \A i \in DOMAIN resets : RoutedTo(i)' = RoutedTo(i)
      BY <2>2 DEF RoutedTo
    <3>2. resets'[n].routed = None
      BY <2>2 DEF Fresher
    <3> QED BY <2>2, <3>1, <3>2 DEF RoutesKept
  <2> QED BY <2>8, <2>9
<1>3. CASE SubmitRoute(r)
  <2>1. PICK i, x : /\ Rewrites(i, x) /\ x = [resets[i] EXCEPT !.routed = RoutedTo(i)]
                    /\ Becomes(r, NoTask)
    BY <1>3, RouteDoes
  <2>2. Ages(resets[i], x) /\ x.routed = RoutedTo(i)
    BY <2>1, Types DEF Rewrites, Reset, Ages
  <2> QED BY <1>0, <2>1, <2>2, SeenOf
<1>4. ASSUME NEW a \in Deciding, task[r].at \in Deciding
      PROVE  SeenBy([task[r] EXCEPT !.at = a])
  <2>1. PICK q : q = [task[r] EXCEPT !.at = a]
    OBVIOUS
  <2>2. q.at = a
    BY <1>4, <2>1, DeciderKnows
  <2> QED BY <1>4, <2>1, <2>2, SeenNothing DEF Deciding
<1>5. CASE SetPassword(r)
  <2>1. PICK i, x, q : /\ Rewrites(i, x) /\ x = [resets[i] EXCEPT !.set = TRUE]
                       /\ q = [task[r] EXCEPT !.at = "revoke"] /\ Becomes(r, q)
                       /\ task[r].at = "password"
    BY <1>5, PasswordDoes
  <2>2. Ages(resets[i], x) /\ x.routed = resets[i].routed
    BY <2>1, Types DEF Rewrites, Reset, Ages
  <2>3. SeenBy(q)
    BY <1>4, <2>1 DEF Deciding
  <2> QED BY <2>1, <2>2, <2>3, SeenOf
<1>6. CASE Revoke(r)
  <2>1. PICK i, x, q : /\ Rewrites(i, x) /\ x = [resets[i] EXCEPT !.cleared = TRUE]
                       /\ q = [task[r] EXCEPT !.at = "decide"] /\ Becomes(r, q)
                       /\ task[r].at = "revoke"
    BY <1>6, RevokeDoes
  <2>2. Ages(resets[i], x) /\ x.routed = resets[i].routed
    BY <2>1, Types DEF Rewrites, Reset, Ages
  <2>3. SeenBy(q)
    BY <1>4, <2>1 DEF Deciding
  <2> QED BY <2>1, <2>2, <2>3, SeenOf
<1>7. CASE Mark(r) /\ ~resets[task[r].row].gone
  <2>1. PICK i, x, q : /\ Rewrites(i, x) /\ x = [resets[i] EXCEPT !.status = task[r].as]
                       /\ q = [task[r] EXCEPT !.at = "tell"] /\ Becomes(r, q)
                       /\ task[r].at = "decide"
    BY <1>7, MarkDoes
  <2>2. task[r].as # "pending"
    BY <2>1, DeciderKnows DEF Deciding, DecideRequest, Decisions
  <2>3. Ages(resets[i], x) /\ x.routed = resets[i].routed
    BY <2>1, <2>2, Types DEF Rewrites, Reset, Ages
  <2>4. SeenBy(q)
    BY <1>4, <2>1 DEF Deciding
  <2> QED BY <2>1, <2>3, <2>4, SeenOf
<1>8. CASE (Mark(r) /\ resets[task[r].row].gone) \/ FailReset(r)
  <2>1. Becomes(r, NoTask) /\ UNCHANGED resets
    BY <1>8 DEF Mark, FailReset
  <2> QED BY <1>0, <2>1, SeenOn
<1>9. CASE Tell(r)
  <2>1. PICK i, x, q : /\ Rewrites(i, x) /\ x = [resets[i] EXCEPT !.told = resets[i].told + 1]
                       /\ \E stats \in BOOLEAN : q = Counting(stats, task[r].ctx)
                       /\ Becomes(r, q)
    BY <1>9, TellDoes
  <2>2. Ages(resets[i], x) /\ x.routed = resets[i].routed
    BY <2>1, Types DEF Rewrites, Reset, Ages
  <2>3. SeenBy(q)
    BY <2>1, SeenNothing DEF Counting
  <2> QED BY <2>1, <2>2, <2>3, SeenOf
<1> QED BY <1>1, <1>2, <1>3, <1>5, <1>6, <1>7, <1>8, <1>9 DEF ResetStep

LEMMA SeenStep ==
  ASSUME Typed, ContextsKept, RoutesKept, SeenKept, ResetsNext
  PROVE  SeenKept' /\ RoutesKept'
<1>0. account' = account
  BY AccountStays
<1>1. ASSUME NEW r \in Workers, NEW i \in 1..MaxResets, DecideSome(r, i)
      PROVE  SeenKept' /\ RoutesKept'
  <2>1. PICK as \in Decisions, ctx \in Contexts : DecideFind(r, i, as, ctx)
    BY <1>1 DEF DecideSome
  <2>2. PICK q : q = Chosen(i, as, ctx)
    OBVIOUS
  <2>3. Becomes(r, q) /\ UNCHANGED resets
    BY <2>1, <2>2, DecideDoes
  <2>4. SeenBy(q)
    BY <2>2, SeenNothing DEF Chosen
  <2> QED BY <1>0, <2>3, <2>4, SeenOn
<1>2. ASSUME NEW i, NEW ctx, DeleteReset(i, ctx) PROVE SeenKept' /\ RoutesKept'
  <2>1. PICK x : /\ Rewrites(i, x) /\ x = [resets[i] EXCEPT !.gone = TRUE] /\ task' = task
    BY <1>2, DeleteDoes DEF inboxVars
  <2>2. Ages(resets[i], x) /\ x.routed = resets[i].routed
    BY <2>1, Types DEF Rewrites, Reset, Ages
  <2>3. /\ \A j \in DOMAIN resets : Ages(resets[j], resets'[j])
        /\ \A j \in DOMAIN resets : /\ resets'[j].school = resets[j].school
                                    /\ resets'[j].routed \in {resets[j].routed, RoutedTo(j)}
        /\ DOMAIN resets' = DOMAIN resets
    BY <2>1, <2>2 DEF Rewrites, Ages
  <2>4. \A o \in Workers : SeenBy(task'[o])
    BY <2>1, SeenBefore
  <2> QED BY <1>0, <2>3, <2>4, SeenStays, RoutesStay
<1>3. CASE ChoosePassword
  BY <1>0, <1>3, SeenBefore, SeenIdle DEF ChoosePassword, inboxVars
<1>4. CASE RestartAll
  <2>1. task' = [r \in Workers |-> NoTask] /\ UNCHANGED resets
    BY <1>4 DEF RestartAll, Restart
  <2>2. SeenBy(NoTask)
    BY SeenNothing DEF NoTask
  <2> QED BY <1>0, <2>1, <2>2, SeenIdle
<1>5. CASE InboxNext /\ UNCHANGED resetVars
  <2>1. UNCHANGED resets
    BY <1>5 DEF resetVars
  <2>2. CASE task' = task
    BY <1>0, <2>1, <2>2, SeenBefore, SeenIdle
  <2>3. ASSUME NEW r \in Workers, NEW q, Becomes(r, q), q.at \notin Deciding \cup Submitters
        PROVE  SeenKept' /\ RoutesKept'
    <3>1. SeenBy(q)
      BY <2>3, SeenNothing DEF Submitters
    <3> QED BY <1>0, <2>1, <2>3, <3>1, SeenOn
  <2> QED BY <1>5, <2>2, <2>3, InboxApart
<1> QED BY <1>0, <1>1, <1>2, <1>3, <1>4, <1>5, ResetSeen DEF ResetsNext

-----------------------------------------------------------------------------
(***************************************************************************)
(* The properties.                                                         *)
(***************************************************************************)
LEMMA InvInit == ResetsInit => Inv
<1> SUFFICES ASSUME ResetsInit PROVE Inv
  OBVIOUS
<1>1. /\ task = [r \in Workers |-> NoTask] /\ resets = <<>> /\ notes = <<>> /\ shown = None
      /\ excused = FALSE
  BY DEF ResetsInit, InboxInit
<1>2. \A r \in Workers : task[r].at = "idle"
  BY <1>1 DEF NoTask
<1>3. DOMAIN resets = {}
  BY <1>1
<1>4. ContextsKept
  BY <1>2, <1>3, WithinNothing DEF ContextsKept, OfProfile
<1>5. CountsKept
  BY <1>1, <1>2 DEF CountsKept, EmitsRight, Fresh, ShownExplained
<1>6. RowsKept /\ RoutesKept /\ SeenKept
  BY <1>2, <1>3 DEF RowsKept, RoutesKept, SeenKept, DuplicatesOverlapped
<1> QED BY <1>4, <1>5, <1>6, TypedInit DEF Inv

LEMMA InvStep ==
  ASSUME Inv, ResetsNext
  PROVE  Inv'
BY TypedStep, ContextsStep, CountsStep, RowsStep, SeenStep DEF Inv

LEMMA InvStutters ==
  ASSUME Inv, UNCHANGED allVars
  PROVE  Inv'
<1>1. UNCHANGED inboxVars /\ UNCHANGED resetVars /\ UNCHANGED resets
      /\ account' = account /\ task' = task
  BY DEF allVars, inboxVars, resetVars
<1>2. Typed'
  BY <1>1, Fine, Types, TypedKeeps DEF Inv, inboxVars, HandlersFine
<1>3. ContextsKept'
  BY <1>1, SameSchools, ContextsStay DEF Inv
<1>4. CountsKept'
  <2>1. EmitsRight' /\ Unread' = Unread
    BY <1>1, EmitsStay DEF Inv, inboxVars, CountsKept, Unread
  <2> QED BY <1>1, <2>1, CountsQuiet DEF Inv, inboxVars
<1>5. RowsKept'
  <2>1. TemporaryKept'
    BY <1>1 DEF Inv, RowsKept, TemporaryKept, resetVars
  <2> QED BY <1>1, <2>1, RowsIdle DEF Inv, resetVars
<1>6. SeenKept' /\ RoutesKept'
  BY <1>1, SeenBefore, SeenIdle DEF Inv
<1> QED BY <1>2, <1>3, <1>4, <1>5, <1>6 DEF Inv

LEMMA InvAlways == ResetsSpec => []Inv
BY InvInit, InvStep, InvStutters, PTL DEF ResetsSpec

\* Once no handler owes a count, the count on the screen is that of the unread
\* notifications, unless the room was never told.
THEOREM ShownIsExplained == ResetsSpec => []ShownExplained
<1>1. Inv => ShownExplained
  BY DEF Inv, CountsKept
<1> QED BY <1>1, InvAlways, PTL

\* A stored change is answered with a refusal only for an account that has another
\* school than its own.
THEOREM RefusalsAreExplained == ResetsSpec => []RefusalsExplained
<1>1. Inv => RefusalsExplained
  BY DEF Inv, ContextsKept, Within, RefusalsExplained
<1> QED BY <1>1, InvAlways, PTL

\* A request is seen by those told of it, is the only pending one but for
\* overlapping forms, is done what was decided of it, and announced once.
THEOREM RequestsAreHandled == ResetsSpec => []RequestsHandled
<1>1. ASSUME Inv PROVE RequestsHandled
  <2>1. Typed /\ ContextsKept /\ RowsKept /\ RoutesKept /\ SeenKept
    BY <1>1 DEF Inv
  <2>2. ASSUME NEW i \in DOMAIN resets, ~Excepted(i)
        PROVE  /\ resets[i].status = "approved" => resets[i].set /\ resets[i].cleared
               /\ resets[i].status = "rejected" => ~resets[i].set
               /\ (password = i /\ DecidersOf(i) = {} /\ ~resets[i].gone)
                    => resets[i].status = "approved"
               /\ (DecidersOf(i) = {} /\ resets[i].status # "pending") => resets[i].told = 1
    <3>1. resets[i] \in Reset
      BY <2>1, Types
    <3>2. CASE DecidersOf(i) = {}
      <4>1. Rests(resets[i])
        BY <2>1, <2>2, <3>2 DEF RowsKept, RowKept, Excepted
      <4>2. password = i => resets[i].set
        BY <2>1 DEF RowsKept
      <4> QED BY <3>1, <4>1, <4>2 DEF Rests, Reset, Decisions
    <3>3. CASE DecidersOf(i) # {}
      <4>1. PICK r \in DecidersOf(i) : Decides(task[r], resets[i])
        BY <2>1, <2>2, <3>3 DEF RowsKept, RowKept, Excepted
      <4> QED BY <3>1, <3>3, <4>1 DEF Decides
    <3> QED BY <3>2, <3>3
  <2>3. DecisionsApplied
    BY <2>2 DEF DecisionsApplied, Excepted
  <2>4. DecisionsAnnounced
    BY <2>2 DEF DecisionsAnnounced, Excepted
  <2>5. RoutedRequestsListed
    <3> SUFFICES ASSUME NEW i \in DOMAIN resets, Pending(i), resets[i].routed # None,
                        account.role # "teacher"
                 PROVE  Listed(i, resets[i].routed)
      BY DEF RoutedRequestsListed
    <3>1. resets[i].routed = RoutedTo(i) /\ resets[i].school = ProfileSchool
      BY <2>1 DEF RoutesKept, ContextsKept, OfProfile
    <3>2. account.tenant \in Tenants /\ account.tenant # None
      BY <2>1, Types, Bounds DEF UserRecord, Contexts
    <3> QED BY <3>1, <3>2 DEF RoutedTo, Listed, Pending, ProfileSchool
  <2> QED BY <2>1, <2>3, <2>4, <2>5 DEF RequestsHandled, SeenKept
<1> QED BY <1>1, InvAlways, PTL
=============================================================================
