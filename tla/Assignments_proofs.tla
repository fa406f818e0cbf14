------------------------ MODULE Assignments_proofs ------------------------
(***************************************************************************)
(* The properties of RetakeAttempts, proved for any set of students, any   *)
(* number of handlers and any limits.  SpentGrantsConsumed is inductive    *)
(* with TypeOK; the others are not:                                        *)
(*                                                                         *)
(*   AttemptsNumbered   needs that a handler about to store an attempt     *)
(*                      never carries a number beyond the next one         *)
(*                      (NextBounded): the count it was computed from was  *)
(*                      right when it was read, and counts only grow;      *)
(*   WithinCapacity     needs that the limits a handler has read were set  *)
(*                      once (ReadsWithin), and that the number of one     *)
(*                      that passed the check is within them               *)
(*                      (ChecksPassed);                                    *)
(*   CloseShutsRetakes  needs what a handler that closed alone leaves      *)
(*                      behind while it is still at work (CloseAlone,      *)
(*                      ShutHolds).                                        *)
(***************************************************************************)
(***************************************************************************)
(* The properties of ScorePipeline follow, from ScoreInv: what a handler   *)
(* has read of the submissions, the rule and the scores is what is there,  *)
(* or its result will be late (Sound); a handler that recomputes a score   *)
(* and is not silent will compute the summary (Planned); and whatever      *)
(* differs from its source is explained by a handler at work (Explained).  *)
(***************************************************************************)
EXTENDS RetakeAttempts, ScorePipeline, WellFoundedInduction, TLAPS

WriteRequest == [at : {"write"}, read : Settings, change : Changes]
GrantRequest == [at : {"grant"}, student : Students, active : BOOLEAN]
OpenRequest == [at : {"openWindow", "openFind"}, class : SUBSET Students,
                scope : Scope]
OpenGrantsRequest == [at : {"openGrants"}, left : SUBSET Students]
CloseRequest == [at : {"closeWindow", "closeGrants"}, alone : BOOLEAN,
                 since : 0..MaxEdits]

-----------------------------------------------------------------------------
LEMMA RequestKinds ==
  Request = {Idle} \cup SubmitRequest \cup WriteRequest \cup GrantRequest
              \cup OpenRequest \cup OpenGrantsRequest \cup CloseRequest
BY DEF Request, EditRequest, WriteRequest, GrantRequest, OpenRequest,
       OpenGrantsRequest, CloseRequest

\* What a request slot holds follows from how far its handler is.
LEMMA RequestAt ==
  ASSUME TypeOK, NEW r \in Requests
  PROVE  /\ Submitting(r) => req[r] \in SubmitRequest
         /\ req[r].at = "write" => req[r] \in WriteRequest
         /\ req[r].at = "grant" => req[r] \in GrantRequest
         /\ req[r].at \in {"openWindow", "openFind"} => req[r] \in OpenRequest
         /\ req[r].at = "openGrants" => req[r] \in OpenGrantsRequest
         /\ req[r].at \in {"closeWindow", "closeGrants"} => req[r] \in CloseRequest
         /\ req[r] = Idle => req[r].at = "idle"
<1>1. req[r] \in Request
  BY DEF TypeOK
<1> QED
  BY <1>1, RequestKinds DEF Idle, Submitting, SubmitRequest, WriteRequest,
     GrantRequest, OpenRequest, OpenGrantsRequest, CloseRequest

LEMMA MergeType ==
  ASSUME NEW read \in Settings, NEW change \in Changes
  PROVE  Merge(read, change) \in Settings
BY RetakesOK DEF Merge, Settings, Changes, Scope

\* No limit at all is the largest limit.
Within(a, b) == b = Unlimited \/ (a # Unlimited /\ a <= b)

LEMMA LargerBounds ==
  ASSUME NEW a \in Limits, NEW b \in Limits
  PROVE  /\ Larger(a, b) \in Limits
         /\ Within(a, Larger(a, b))
         /\ Within(b, Larger(a, b))
BY RetakesOK DEF Larger, Within

LEMMA WithinTransitive ==
  ASSUME NEW a \in Limits, NEW b \in Limits, NEW c \in Limits,
         Within(a, b), Within(b, c)
  PROVE  Within(a, c)
BY RetakesOK DEF Within

-----------------------------------------------------------------------------
LEMMA TypeInit == Init => TypeOK
<1> SUFFICES ASSUME Init PROVE TypeOK
  OBVIOUS
<1>1. settings \in Settings /\ mostAllowed \in Limits
  BY DEF Init, Settings, Scope
<1>2. <<>> \in Seq(Nat)
  OBVIOUS
<1>3. req \in [Requests -> Request]
  BY DEF Init, Request
<1>4. edits \in 0..MaxEdits
  BY RetakesOK DEF Init
<1> QED BY <1>1, <1>2, <1>3, <1>4 DEF Init, TypeOK

LEMMA TeacherTypes ==
  ASSUME TypeOK, NEW r \in Requests, NEW request \in Request,
         TeacherStarts(r, request)
  PROVE  TypeOK'
<1>1. edits' \in 0..MaxEdits
  BY RetakesOK DEF TypeOK, TeacherStarts
<1>2. req' \in [Requests -> Request]
  BY DEF TypeOK, TeacherStarts
<1> QED BY <1>1, <1>2 DEF TypeOK, TeacherStarts

LEMMA UpsertTypes ==
  ASSUME TypeOK, NEW s \in Students, NEW active \in BOOLEAN, Upsert(s, active)
  PROVE  /\ grant' \in [Students -> {"none", "active", "inactive"}]
         /\ used' \in [Students -> {"fresh", "spent", "lost"}]
BY DEF TypeOK, Upsert

LEMMA TypeStep ==
  ASSUME TypeOK, [Next]_vars
  PROVE  TypeOK'
<1> USE DEF TypeOK
<1>1. ASSUME NEW r \in Requests, RequestStep(r)
      PROVE  TypeOK'
  <2>1. ASSUME NEW s \in Students, SubmitRead(r, s) PROVE TypeOK'
    <3>1. [at |-> "count", student |-> s, read |-> settings, next |-> 0,
           granted |-> FALSE, overtaken |-> FALSE] \in Request
      BY DEF Request, SubmitRequest
    <3> QED BY <2>1, <3>1 DEF SubmitRead, history
  <2>2. CASE SubmitCount(r)
    <3> DEFINE rows == attempts[req[r].student]
               next == 1 + IF rows = <<>> THEN 0 ELSE rows[Len(rows)]
    <3>1. req[r] \in SubmitRequest
      BY <2>2, RequestAt DEF SubmitCount, Submitting
    <3>2. next \in Nat
      BY <3>1 DEF SubmitRequest
    <3>3. [req[r] EXCEPT !.at = "check", !.next = next] \in Request
      BY <3>1, <3>2 DEF SubmitRequest, Request
    <3>4. req' = [req EXCEPT ![r] = [req[r] EXCEPT !.at = "check", !.next = next]]
      BY <2>2 DEF SubmitCount
    <3> QED BY <2>2, <3>3, <3>4 DEF SubmitCount, history
  <2>3. CASE SubmitCheck(r)
    <3>1. req[r] \in SubmitRequest
      BY <2>3, RequestAt DEF SubmitCheck, Submitting
    <3>2. [req[r] EXCEPT !.at = "insert",
                         !.granted = (grant[req[r].student] = "active")] \in Request
      BY <3>1 DEF SubmitRequest, Request
    <3> QED BY <2>3, <3>2 DEF SubmitCheck, Request, history
  <2>4. CASE SubmitInsert(r)
    <3>1. req[r] \in SubmitRequest
      BY <2>4, RequestAt DEF SubmitInsert, Submitting
    <3>2. [req[r] EXCEPT !.at = "consume"] \in Request
      BY <3>1 DEF SubmitRequest, Request
    <3>3. req' \in [Requests -> Request]
      BY <2>4, <3>2 DEF SubmitInsert, Request
    <3>4. attempts' \in [Students -> Seq(Nat)]
      BY <2>4, <3>1 DEF SubmitInsert, SubmitRequest
    <3>5. used' \in [Students -> {"fresh", "spent", "lost"}]
      BY <2>4, <3>1 DEF SubmitInsert, SubmitRequest
    <3> QED BY <2>4, <3>3, <3>4, <3>5 DEF SubmitInsert
  <2>5. CASE SubmitConsume(r)
    <3>1. req[r] \in SubmitRequest
      BY <2>5, RequestAt DEF SubmitConsume, Submitting
    <3> QED BY <2>5, <3>1 DEF SubmitConsume, SubmitRequest, Request, history
  <2>6. ASSUME NEW change \in Changes, SettingsRead(r, change) PROVE TypeOK'
    <3>1. [at |-> "write", read |-> settings, change |-> change] \in Request
      BY RequestKinds DEF WriteRequest
    <3> QED BY <2>6, <3>1, TeacherTypes DEF SettingsRead
  <2>7. CASE SettingsWrite(r)
    <3>1. req[r] \in WriteRequest
      BY <2>7, RequestAt DEF SettingsWrite
    <3>2. settings' \in Settings
      BY <2>7, <3>1, MergeType DEF SettingsWrite, WriteRequest
    <3>3. mostAllowed' \in Limits
      BY <2>7, <3>2, LargerBounds DEF SettingsWrite, Settings
    <3> QED BY <2>7, <3>2, <3>3 DEF SettingsWrite, Request
  <2>8. ASSUME NEW s \in Students, NEW active \in BOOLEAN, GrantStart(r, s, active)
        PROVE  TypeOK'
    <3>1. [at |-> "grant", student |-> s, active |-> active] \in Request
      BY RequestKinds DEF GrantRequest
    <3> QED BY <2>8, <3>1, TeacherTypes DEF GrantStart
  <2>9. CASE GrantWrite(r)
    <3>1. req[r] \in GrantRequest
      BY <2>9, RequestAt DEF GrantWrite
    <3> QED BY <2>9, <3>1, UpsertTypes DEF GrantWrite, GrantRequest, Request
  <2>10. ASSUME NEW class \in SUBSET Students, NEW scope \in Scope,
                OpenStart(r, class, scope)
         PROVE  TypeOK'
    <3>1. [at |-> "openWindow", class |-> class, scope |-> scope] \in Request
      BY RequestKinds DEF OpenRequest
    <3> QED BY <2>10, <3>1, TeacherTypes DEF OpenStart
  <2>11. CASE OpenWindow(r)
    <3>1. req[r] \in OpenRequest
      BY <2>11, RequestAt DEF OpenWindow
    <3>2. [req[r] EXCEPT !.at = "openFind"] \in Request
      BY <3>1, RequestKinds DEF OpenRequest
    <3>3. settings' \in Settings
      BY <2>11, <3>1 DEF OpenWindow, OpenRequest, Settings
    <3> QED BY <2>11, <3>2, <3>3 DEF OpenWindow, Request, history
  <2>12. CASE OpenFind(r)
    <3>1. req[r] \in OpenRequest
      BY <2>12, RequestAt DEF OpenFind
    <3>2. [at |-> "openGrants",
           left |-> {s \in req[r].class : attempts[s] # <<>>}] \in Request
      BY <3>1, RequestKinds DEF OpenRequest, OpenGrantsRequest
    <3> QED BY <2>12, <3>2 DEF OpenFind, history
  <2>13. ASSUME NEW s \in Students, OpenGrant(r, s) PROVE TypeOK'
    <3>1. req[r] \in OpenGrantsRequest
      BY <2>13, RequestAt DEF OpenGrant
    <3>2. [req[r] EXCEPT !.left = @ \ {s}] \in Request
      BY <3>1, RequestKinds DEF OpenGrantsRequest
    <3>3. req' = [req EXCEPT ![r] = [req[r] EXCEPT !.left = @ \ {s}]]
      BY <2>13 DEF OpenGrant
    <3> QED BY <2>13, <3>2, <3>3, UpsertTypes DEF OpenGrant
  <2>14. CASE OpenEnd(r)
    BY <2>14 DEF OpenEnd, Request, history
  <2>15. CASE CloseStart(r)
    <3> DEFINE free == \A q \in Requests : ~Teaching(q)
    <3>1. edits + 1 \in 0..MaxEdits /\ free \in BOOLEAN
      BY <2>15, RetakesOK DEF CloseStart, TeacherStarts
    <3>2. [at |-> "closeWindow", since |-> edits + 1, alone |-> free] \in Request
      BY <3>1, RequestKinds DEF CloseRequest
    <3> QED BY <2>15, <3>2, TeacherTypes DEF CloseStart
  <2>16. CASE CloseWindow(r)
    <3>1. req[r] \in CloseRequest
      BY <2>16, RequestAt DEF CloseWindow
    <3>2. [req[r] EXCEPT !.at = "closeGrants"] \in Request
      BY <3>1, RequestKinds DEF CloseRequest
    <3>3. settings' \in Settings
      BY <2>16 DEF CloseWindow, Settings
    <3> QED BY <2>16, <3>2, <3>3 DEF CloseWindow, Request, history
  <2>17. CASE CloseGrants(r)
    <3>1. ASSUME NEW q \in Requests, Submitting(q)
          PROVE  [req[q] EXCEPT !.overtaken = TRUE] \in Request
      <4>1. req[q] \in SubmitRequest
        BY <3>1, RequestAt
      <4>2. [req[q] EXCEPT !.overtaken = TRUE] \in SubmitRequest
        BY <4>1 DEF SubmitRequest
      <4> QED BY <4>2, RequestKinds
    <3>2. shut' \in BOOLEAN
      BY <2>17, RequestAt DEF CloseGrants, Undisturbed, CloseRequest
    <3>3. req' \in [Requests -> Request]
      BY <2>17, <3>1 DEF CloseGrants, Request
    <3> QED BY <2>17, <3>2, <3>3 DEF CloseGrants
  <2>18. CASE Fail(r)
    <3>1. req' \in [Requests -> Request]
      BY <2>18 DEF Fail, Request
    <3>2. used' \in [Students -> {"fresh", "spent", "lost"}]
      BY <2>18 DEF Fail
    <3> QED BY <2>18, <3>1, <3>2 DEF Fail
  <2> QED BY <1>1, <2>1, <2>2, <2>3, <2>4, <2>5, <2>6, <2>7, <2>8, <2>9, <2>10,
             <2>11, <2>12, <2>13, <2>14, <2>15, <2>16, <2>17, <2>18
          DEF RequestStep
<1>2. CASE Delete
  <2>1. <<>> \in Seq(Nat)
    OBVIOUS
  <2> QED BY <1>2, <2>1 DEF Delete, history
<1>3. CASE UNCHANGED vars
  BY <1>3 DEF vars
<1> QED BY <1>1, <1>2, <1>3 DEF Next

\* The rows, the requests in flight and the history keep their types.
THEOREM TypeCorrect == Spec => []TypeOK
BY TypeInit, TypeStep, PTL DEF Spec

-----------------------------------------------------------------------------
(***************************************************************************)
(* What a step of a handler leaves alone.                                  *)
(***************************************************************************)
SubmitPhases == {"count", "check", "insert", "consume"}

SubmitStep(r) ==
    \/ \E s \in Students : SubmitRead(r, s)
    \/ SubmitCount(r) \/ SubmitCheck(r) \/ SubmitInsert(r)

TeacherStep(r) == \E request \in Request : TeacherStarts(r, request)

SettingsStep(r) == SettingsWrite(r) \/ OpenWindow(r) \/ CloseWindow(r)

GrantStep(r) ==
    \/ SubmitInsert(r) \/ SubmitConsume(r) \/ GrantWrite(r)
    \/ \E s \in Students : OpenGrant(r, s)
    \/ CloseGrants(r) \/ Fail(r)

\* The part of the rows and the history that step r may change.
RowsFrame(r) ==
    /\ exists' = exists
    /\ SettingsStep(r) \/ settings' = settings
    /\ SettingsWrite(r) \/ mostAllowed' = mostAllowed
    /\ SubmitInsert(r) \/ attempts' = attempts
    /\ GrantStep(r) \/ (grant' = grant /\ used' = used)
    /\ CloseGrants(r) \/ TeacherStep(r) \/ shut' = shut
    /\ TeacherStep(r) \/ edits' = edits

\* The part of the requests: a submission goes on by steps of its own.
RequestFrame(r) ==
    /\ CloseGrants(r) \/ \A q \in Requests \ {r} : req'[q] = req[q]
    /\ SubmitStep(r) \/ req'[r].at \notin SubmitPhases
    /\ \/ TeacherStep(r) \/ req'[r].at \in SubmitPhases \/ req'[r] = Idle
       \/ Teaching(r) /\ ~SubmitStep(r)

LEMMA TeacherFrame ==
  ASSUME TypeOK, NEW r \in Requests, NEW request \in Request,
         TeacherStarts(r, request), request.at \notin SubmitPhases
  PROVE  RowsFrame(r) /\ RequestFrame(r)
BY DEF TypeOK, TeacherStarts, RowsFrame, RequestFrame, TeacherStep

\* A submission either ends or stays one.
SubmitFrame(r) ==
    /\ RowsFrame(r)
    /\ RequestFrame(r)
    /\ req'[r] = Idle \/ req'[r].at \in SubmitPhases

LEMMA SubmissionFrame ==
  ASSUME TypeOK, NEW r \in Requests, SubmitStep(r)
  PROVE  SubmitFrame(r)
<1> USE DEF SubmitFrame, RowsFrame, RequestFrame, SubmitPhases
<1>1. ASSUME NEW s \in Students, SubmitRead(r, s)
      PROVE  SubmitFrame(r)
  BY <1>1 DEF SubmitRead, SubmitStep, TypeOK, history
<1>2. CASE SubmitCount(r)
  <2>1. req[r] \in SubmitRequest
    BY <1>2, RequestAt DEF SubmitCount, Submitting
  <2>2. req'[r].at = "check" /\ \A q \in Requests \ {r} : req'[q] = req[q]
    BY <1>2, <2>1 DEF SubmitCount, TypeOK, SubmitRequest
  <2> QED BY <1>2, <2>2 DEF SubmitCount, SubmitStep, history
<1>3. CASE SubmitCheck(r)
  <2>1. req[r] \in SubmitRequest
    BY <1>3, RequestAt DEF SubmitCheck, Submitting
  <2>2. /\ req'[r] = Idle \/ req'[r].at = "insert"
        /\ \A q \in Requests \ {r} : req'[q] = req[q]
    BY <1>3, <2>1 DEF SubmitCheck, TypeOK, SubmitRequest
  <2> QED BY <1>3, <2>2 DEF SubmitCheck, SubmitStep, history
<1>4. CASE SubmitInsert(r)
  <2>1. req[r] \in SubmitRequest
    BY <1>4, RequestAt DEF SubmitInsert, Submitting
  <2>2. /\ req'[r] = Idle \/ req'[r].at = "consume"
        /\ \A q \in Requests \ {r} : req'[q] = req[q]
    BY <1>4, <2>1 DEF SubmitInsert, TypeOK, SubmitRequest
  <2> QED BY <1>4, <2>2 DEF SubmitInsert, SubmitStep, GrantStep
<1> QED BY <1>1, <1>2, <1>3, <1>4 DEF SubmitStep

LEMMA TeacherAt ==
  ASSUME NEW r \in Requests,
         req[r].at \in {"write", "grant", "openWindow", "openFind", "openGrants",
                        "closeWindow", "closeGrants"}
  PROVE  Teaching(r) /\ ~SubmitStep(r)
<1>1. Teaching(r)
  BY DEF Teaching, Submitting, Idle
<1>2. ASSUME NEW s \in Students PROVE ~SubmitRead(r, s)
  BY DEF SubmitRead, Idle
<1>3. ~SubmitCount(r)
  BY DEF SubmitCount
<1>4. ~SubmitCheck(r)
  BY DEF SubmitCheck
<1>5. ~SubmitInsert(r)
  BY DEF SubmitInsert
<1> QED BY <1>1, <1>2, <1>3, <1>4, <1>5 DEF SubmitStep

LEMMA StepFrame ==
  ASSUME TypeOK, NEW r \in Requests, RequestStep(r)
  PROVE  RowsFrame(r) /\ RequestFrame(r)
<1> USE DEF RowsFrame, RequestFrame, SubmitPhases
<1>1. CASE SubmitStep(r)
  BY <1>1, SubmissionFrame DEF SubmitFrame
<1>2. CASE SubmitConsume(r)
  BY <1>2 DEF SubmitConsume, GrantStep, TypeOK, Idle, history
<1>3. ASSUME NEW change \in Changes, SettingsRead(r, change)
      PROVE  RowsFrame(r) /\ RequestFrame(r)
  <2>1. [at |-> "write", read |-> settings, change |-> change] \in Request
    BY RequestKinds DEF WriteRequest, TypeOK
  <2> QED BY <1>3, <2>1, TeacherFrame DEF SettingsRead
<1>4. CASE SettingsWrite(r)
  BY <1>4 DEF SettingsWrite, SettingsStep, TypeOK, Idle
<1>5. ASSUME NEW s \in Students, NEW active \in BOOLEAN, GrantStart(r, s, active)
      PROVE  RowsFrame(r) /\ RequestFrame(r)
  <2>1. [at |-> "grant", student |-> s, active |-> active] \in Request
    BY RequestKinds DEF GrantRequest
  <2> QED BY <1>5, <2>1, TeacherFrame DEF GrantStart
<1>6. CASE GrantWrite(r)
  BY <1>6 DEF GrantWrite, GrantStep, TypeOK, Idle
<1>7. ASSUME NEW class \in SUBSET Students, NEW scope \in Scope,
             OpenStart(r, class, scope)
      PROVE  RowsFrame(r) /\ RequestFrame(r)
  <2>1. [at |-> "openWindow", class |-> class, scope |-> scope] \in Request
    BY RequestKinds DEF OpenRequest
  <2> QED BY <1>7, <2>1, TeacherFrame DEF OpenStart
<1>8. CASE OpenWindow(r)
  <2>1. req[r] \in OpenRequest
    BY <1>8, RequestAt DEF OpenWindow
  <2>2. /\ req'[r] = Idle \/ req'[r].at = "openFind"
        /\ \A q \in Requests \ {r} : req'[q] = req[q]
    BY <1>8, <2>1 DEF OpenWindow, TypeOK, OpenRequest
  <2> QED BY <1>8, <2>2, TeacherAt DEF OpenWindow, SettingsStep, Idle, history
<1>9. CASE OpenFind(r)
  BY <1>9, TeacherAt DEF OpenFind, TypeOK, history
<1>10. ASSUME NEW s \in Students, OpenGrant(r, s)
       PROVE  RowsFrame(r) /\ RequestFrame(r)
  <2>1. req[r] \in OpenGrantsRequest
    BY <1>10, RequestAt DEF OpenGrant
  <2>2. /\ req'[r].at = "openGrants"
        /\ \A q \in Requests \ {r} : req'[q] = req[q]
    BY <1>10, <2>1 DEF OpenGrant, TypeOK, OpenGrantsRequest
  <2> QED BY <1>10, <2>2, TeacherAt DEF OpenGrant, GrantStep
<1>11. CASE OpenEnd(r)
  BY <1>11 DEF OpenEnd, TypeOK, Idle, history
<1>12. CASE CloseStart(r)
  <2> DEFINE free == \A q \in Requests : ~Teaching(q)
  <2>1. edits + 1 \in 0..MaxEdits /\ free \in BOOLEAN
    BY <1>12, RetakesOK DEF CloseStart, TeacherStarts, TypeOK
  <2>2. [at |-> "closeWindow", since |-> edits + 1, alone |-> free] \in Request
    BY <2>1, RequestKinds DEF CloseRequest
  <2> QED BY <1>12, <2>2, TeacherFrame DEF CloseStart
<1>13. CASE CloseWindow(r)
  <2>1. req[r] \in CloseRequest
    BY <1>13, RequestAt DEF CloseWindow
  <2>2. /\ req'[r] = Idle \/ req'[r].at = "closeGrants"
        /\ \A q \in Requests \ {r} : req'[q] = req[q]
    BY <1>13, <2>1 DEF CloseWindow, TypeOK, CloseRequest
  <2> QED BY <1>13, <2>2, TeacherAt DEF CloseWindow, SettingsStep, Idle, history
<1>14. CASE CloseGrants(r)
  BY <1>14 DEF CloseGrants, GrantStep, Idle
<1>15. CASE Fail(r)
  BY <1>15 DEF Fail, GrantStep, TypeOK, Idle
<1> QED BY <1>1, <1>2, <1>3, <1>4, <1>5, <1>6, <1>7, <1>8, <1>9, <1>10, <1>11,
           <1>12, <1>13, <1>14, <1>15 DEF RequestStep, SubmitStep

-----------------------------------------------------------------------------
(***************************************************************************)
(* Numbers.  A number computed from a read is never beyond the next one:   *)
(* attempts are only added, until the assignment goes.                     *)
(***************************************************************************)
NextBounded ==
    \A r \in Requests : req[r].at \in {"check", "insert"} =>
        /\ req[r].next >= 1
        /\ exists => req[r].next <= Len(attempts[req[r].student]) + 1

NumbersInv == TypeOK /\ AttemptsNumbered /\ NextBounded

\* A row is stored under the next number only.
LEMMA StoredNext ==
  ASSUME NumbersInv, NEW r \in Requests, req[r].at = "insert", exists,
         \A i \in DOMAIN attempts[req[r].student] :
            attempts[req[r].student][i] # req[r].next
  PROVE  req[r].next = Len(attempts[req[r].student]) + 1
<1> DEFINE s == req[r].student
<1>1. req[r] \in SubmitRequest
  BY RequestAt DEF NumbersInv, Submitting
<1>2. /\ s \in Students
      /\ req[r].next \in Nat
      /\ attempts[s] \in Seq(Nat)
  BY <1>1 DEF SubmitRequest, NumbersInv, TypeOK
<1>3. req[r].next >= 1 /\ req[r].next <= Len(attempts[s]) + 1
  BY DEF NumbersInv, NextBounded
<1>4. \A i \in 1..Len(attempts[s]) : attempts[s][i] = i
  BY <1>2 DEF NumbersInv, AttemptsNumbered
<1>5. CASE req[r].next <= Len(attempts[s])
  <2>1. req[r].next \in 1..Len(attempts[s]) /\ req[r].next \in DOMAIN attempts[s]
    BY <1>2, <1>3, <1>5
  <2>2. attempts[s][req[r].next] = req[r].next
    BY <1>4, <2>1
  <2> QED BY <2>1, <2>2
<1> QED BY <1>2, <1>3, <1>5

\* The steps after which the attempts are as before, and every request in
\* flight is idle, as before, or of a kind that carries no number.
LEMMA NumbersKept ==
  ASSUME NumbersInv, TypeOK', UNCHANGED <<exists, attempts>>,
         \A q \in Requests :
            \/ req'[q].at \notin {"check", "insert"}
            \/ /\ req[q].at \in {"check", "insert"}
               /\ req'[q].next = req[q].next
               /\ req'[q].student = req[q].student
  PROVE  NumbersInv'
BY DEF NumbersInv, AttemptsNumbered, NextBounded

LEMMA NumbersStep ==
  ASSUME NumbersInv, [Next]_vars
  PROVE  NumbersInv'
<1>1. TypeOK /\ TypeOK'
  BY TypeStep DEF NumbersInv
<1>2. ASSUME NEW r \in Requests, SubmitCount(r) PROVE NumbersInv'
  <2> DEFINE rows == attempts[req[r].student]
  <2>1. req[r] \in SubmitRequest
    BY <1>1, <1>2, RequestAt DEF SubmitCount, Submitting
  <2>2. rows \in Seq(Nat)
    BY <1>1, <2>1 DEF TypeOK, SubmitRequest
  <2>3. \A i \in 1..Len(rows) : rows[i] = i
    BY <2>1, <2>2 DEF NumbersInv, AttemptsNumbered, SubmitRequest
  <2>4. rows = <<>> \/ (Len(rows) \in 1..Len(rows) /\ rows[Len(rows)] = Len(rows))
    BY <2>2, <2>3
  <2>5. (1 + IF rows = <<>> THEN 0 ELSE rows[Len(rows)]) = Len(rows) + 1
    BY <2>2, <2>4
  <2>6. req' = [req EXCEPT ![r] =
                  [req[r] EXCEPT !.at = "check", !.next = Len(rows) + 1]]
    BY <1>2, <2>5 DEF SubmitCount
  <2>7. /\ req'[r].next = Len(rows) + 1
        /\ req'[r].student = req[r].student
    BY <1>1, <2>1, <2>6 DEF TypeOK, SubmitRequest
  <2>8. \A q \in Requests \ {r} : req'[q] = req[q]
    BY <1>1, <2>6 DEF TypeOK
  <2>9. UNCHANGED <<exists, attempts>>
    BY <1>2 DEF SubmitCount
  <2>10. AttemptsNumbered'
    BY <2>9 DEF NumbersInv, AttemptsNumbered
  <2>11. NextBounded'
    <3>1. Len(rows) \in Nat
      BY <2>2
    <3>2. ASSUME NEW q \in Requests, req'[q].at \in {"check", "insert"}
          PROVE  /\ req'[q].next >= 1
                 /\ exists' => req'[q].next <= Len(attempts'[req'[q].student]) + 1
      <4>1. CASE q = r
        BY <2>7, <2>9, <3>1, <4>1
      <4>2. CASE q # r
        BY <2>8, <2>9, <3>2, <4>2 DEF NumbersInv, NextBounded
      <4> QED BY <4>1, <4>2
    <3> QED BY <3>2 DEF NextBounded
  <2> QED BY <1>1, <2>10, <2>11 DEF NumbersInv
<1>3. ASSUME NEW r \in Requests, SubmitInsert(r) PROVE NumbersInv'
  <2> DEFINE s == req[r].student
  <2>1. req[r] \in SubmitRequest
    BY <1>1, <1>3, RequestAt DEF SubmitInsert, Submitting
  <2>2. s \in Students /\ attempts[s] \in Seq(Nat) /\ req[r].next \in Nat
    BY <1>1, <2>1 DEF TypeOK, SubmitRequest
  <2>3. /\ \A q \in Requests \ {r} : req'[q] = req[q]
        /\ req'[r].at \notin {"check", "insert"}
        /\ exists' = exists
    BY <1>1, <1>3, <2>1 DEF SubmitInsert, TypeOK, Idle, SubmitRequest
  <2>4. CASE attempts' = attempts
    BY <1>1, <2>3, <2>4, NumbersKept
  <2>5. CASE attempts' # attempts
    <3>1. /\ exists
          /\ \A i \in DOMAIN attempts[s] : attempts[s][i] # req[r].next
          /\ attempts' = [attempts EXCEPT ![s] = Append(@, req[r].next)]
      BY <1>3, <2>5 DEF SubmitInsert
    <3>2. req[r].next = Len(attempts[s]) + 1
      BY <1>3, <3>1, StoredNext DEF SubmitInsert
    <3>3. /\ attempts'[s] = Append(attempts[s], Len(attempts[s]) + 1)
          /\ \A t \in Students \ {s} : attempts'[t] = attempts[t]
      BY <1>1, <2>2, <3>1, <3>2 DEF TypeOK
    <3>4. Len(attempts'[s]) = Len(attempts[s]) + 1
      BY <2>2, <3>3
    <3>5. attempts[s] = [i \in 1..Len(attempts[s]) |-> i]
      BY <2>2 DEF NumbersInv, AttemptsNumbered
    <3>6. attempts'[s] = [i \in 1..Len(attempts'[s]) |-> i]
      <4>1. \A i \in 1..Len(attempts'[s]) : attempts'[s][i] = i
        BY <2>2, <3>3, <3>4, <3>5
      <4>2. attempts'[s] \in Seq(Nat)
        BY <1>1, <2>2 DEF TypeOK
      <4>3. /\ DOMAIN attempts'[s] = 1..Len(attempts'[s])
            /\ attempts'[s] = [i \in DOMAIN attempts'[s] |-> attempts'[s][i]]
        BY <4>2
      <4> QED BY <4>1, <4>3
    <3>7. AttemptsNumbered'
      BY <3>3, <3>6 DEF NumbersInv, AttemptsNumbered
    <3>8. \A t \in Students : Len(attempts[t]) <= Len(attempts'[t])
      <4>1. ASSUME NEW t \in Students
            PROVE  Len(attempts[t]) \in Nat
        BY <1>1 DEF TypeOK
      <4> QED BY <2>2, <3>3, <3>4, <4>1
    <3>9. NextBounded'
      <4>1. ASSUME NEW q \in Requests, req'[q].at \in {"check", "insert"}, exists'
            PROVE  /\ req'[q].next >= 1
                   /\ req'[q].next <= Len(attempts'[req'[q].student]) + 1
        <5>1. q # r /\ req'[q] = req[q] /\ req[q].at \in {"check", "insert"}
          BY <2>3, <4>1
        <5>2. req[q] \in SubmitRequest
          BY <1>1, <5>1, RequestAt DEF Submitting
        <5>3. /\ req[q].student \in Students
              /\ req[q].next \in Nat
              /\ Len(attempts[req[q].student]) \in Nat
              /\ Len(attempts'[req[q].student]) \in Nat
          BY <1>1, <5>2 DEF SubmitRequest, TypeOK
        <5>4. /\ req[q].next >= 1
              /\ req[q].next <= Len(attempts[req[q].student]) + 1
          BY <3>1, <5>1 DEF NumbersInv, NextBounded
        <5> QED BY <3>8, <5>1, <5>3, <5>4
      <4> QED BY <2>3, <3>1, <4>1 DEF NextBounded
    <3> QED BY <1>1, <3>7, <3>9 DEF NumbersInv
  <2> QED BY <2>4, <2>5
<1>4. CASE Delete
  <2>1. AttemptsNumbered'
    <3>1. <<>> = [i \in 1..Len(<<>>) |-> i]
      OBVIOUS
    <3> QED BY <1>4, <3>1 DEF Delete, AttemptsNumbered
  <2>2. NextBounded'
    BY <1>4 DEF Delete, NumbersInv, NextBounded
  <2> QED BY <1>1, <2>1, <2>2 DEF NumbersInv
<1>5. CASE UNCHANGED vars
  BY <1>1, <1>5 DEF vars, NumbersInv, AttemptsNumbered, NextBounded
<1>6. ASSUME NEW r \in Requests, RequestStep(r), ~SubmitCount(r), ~SubmitInsert(r)
      PROVE  NumbersInv'
  <2>1. UNCHANGED <<exists, attempts>>
    BY <1>1, <1>6, StepFrame DEF RowsFrame
  <2>2. ASSUME NEW s \in Students, SubmitRead(r, s) PROVE NumbersInv'
    BY <1>1, <2>2, NumbersKept DEF SubmitRead, TypeOK
  <2>3. CASE SubmitCheck(r)
    <3>1. req[r] \in SubmitRequest
      BY <1>1, <2>3, RequestAt DEF SubmitCheck, Submitting
    <3>2. \/ req' = [req EXCEPT ![r] = Idle]
          \/ \E b \in BOOLEAN :
                req' = [req EXCEPT ![r] = [req[r] EXCEPT !.at = "insert",
                                                         !.granted = b]]
      BY <2>3 DEF SubmitCheck
    <3>3. UNCHANGED <<exists, attempts>>
      BY <2>3 DEF SubmitCheck
    <3>4. req[r].at = "check"
      BY <2>3 DEF SubmitCheck
    <3>5. \A q \in Requests \ {r} : req'[q] = req[q]
      BY <1>1, <2>3 DEF SubmitCheck, TypeOK
    <3>6. \/ req'[r].at = "idle"
          \/ req'[r].next = req[r].next /\ req'[r].student = req[r].student
      <4>1. CASE req' = [req EXCEPT ![r] = Idle]
        BY <1>1, <4>1 DEF TypeOK, Idle
      <4>2. ASSUME NEW b \in BOOLEAN,
                   req' = [req EXCEPT ![r] = [req[r] EXCEPT !.at = "insert",
                                                            !.granted = b]]
            PROVE  req'[r].next = req[r].next /\ req'[r].student = req[r].student
        BY <1>1, <3>1, <4>2 DEF TypeOK, SubmitRequest
      <4> QED BY <3>2, <4>1, <4>2
    <3> QED BY <1>1, <3>3, <3>4, <3>5, <3>6, NumbersKept
  <2>4. CASE CloseGrants(r)
    <3>1. ASSUME NEW q \in Requests, Submitting(q)
          PROVE  /\ [req[q] EXCEPT !.overtaken = TRUE].at = req[q].at
                 /\ [req[q] EXCEPT !.overtaken = TRUE].next = req[q].next
                 /\ [req[q] EXCEPT !.overtaken = TRUE].student = req[q].student
      BY <1>1, <3>1, RequestAt DEF SubmitRequest
    <3> QED BY <1>1, <2>4, <3>1, NumbersKept DEF CloseGrants, Idle
  <2>5. CASE ~SubmitStep(r) /\ ~CloseGrants(r)
    <3>1. /\ \A q \in Requests \ {r} : req'[q] = req[q]
          /\ req'[r].at \notin SubmitPhases
      BY <1>1, <1>6, <2>5, StepFrame DEF RequestFrame
    <3> QED BY <1>1, <2>1, <3>1, NumbersKept DEF SubmitPhases
  <2> QED BY <1>6, <2>2, <2>3, <2>4, <2>5 DEF SubmitStep
<1> QED BY <1>2, <1>3, <1>4, <1>5, <1>6 DEF Next

\* However submissions overlap, the attempts of a student are numbered 1, 2, 3
\* in the order they were stored.
THEOREM AttemptsAreNumbered == Spec => []AttemptsNumbered
<1>1. Init => NumbersInv
  <2>1. Init => AttemptsNumbered
    <3>1. <<>> = [i \in 1..Len(<<>>) |-> i]
      OBVIOUS
    <3>2. ASSUME Init, NEW s \in Students PROVE attempts[s] = <<>>
      BY <3>2 DEF Init
    <3> QED BY <3>1, <3>2 DEF AttemptsNumbered
  <2> QED BY <2>1, TypeInit DEF Init, NumbersInv, NextBounded, Idle
<1>2. NumbersInv => AttemptsNumbered
  BY DEF NumbersInv
<1> QED BY <1>1, <1>2, NumbersStep, PTL DEF Spec

-----------------------------------------------------------------------------
(***************************************************************************)
(* Limits.  What a submission read is within the largest limit so far, and *)
(* one about to store a retake passed the check with what it read.         *)
(***************************************************************************)

\* A passed check leaves the request as it was, but for the grant it read.
LEMMA CheckPassed ==
  ASSUME TypeOK, NEW r \in Requests, SubmitCheck(r), req'[r].at = "insert"
  PROVE  \E b \in BOOLEAN :
           /\ req'[r] = [req[r] EXCEPT !.at = "insert", !.granted = b]
           /\ b => grant[req[r].student] = "active"
           /\ RetakeFeature /\ req[r].next - 1 > 0
                => CanRetake(req[r].read, req[r].next - 1, b)
<1>1. \E b \in BOOLEAN :
        /\ b <=> grant[req[r].student] = "active"
        /\ req' = [req EXCEPT ![r] =
              IF RetakeFeature /\ req[r].next - 1 > 0
                   /\ ~CanRetake(req[r].read, req[r].next - 1, b)
              THEN Idle
              ELSE [req[r] EXCEPT !.at = "insert", !.granted = b]]
  <2>1. (grant[req[r].student] = "active") \in BOOLEAN
    OBVIOUS
  <2> QED BY <2>1, Zenon DEF SubmitCheck
<1>2. PICK b \in BOOLEAN :
        /\ b <=> grant[req[r].student] = "active"
        /\ req' = [req EXCEPT ![r] =
              IF RetakeFeature /\ req[r].next - 1 > 0
                   /\ ~CanRetake(req[r].read, req[r].next - 1, b)
              THEN Idle
              ELSE [req[r] EXCEPT !.at = "insert", !.granted = b]]
  BY <1>1
<1>3. req'[r] = IF RetakeFeature /\ req[r].next - 1 > 0
                     /\ ~CanRetake(req[r].read, req[r].next - 1, b)
                THEN Idle
                ELSE [req[r] EXCEPT !.at = "insert", !.granted = b]
  BY <1>2 DEF TypeOK
<1>4. req'[r] # Idle
  BY DEF Idle
<1> QED BY <1>2, <1>3, <1>4

\* A submission in flight after a step was in flight before it, with the same
\* settings read, or has just read them.
LEMMA Carried ==
  ASSUME TypeOK, NEW r \in Requests, RequestStep(r),
         NEW q \in Requests, req'[q].at \in SubmitPhases
  PROVE  \/ /\ q = r
            /\ \E s \in Students : SubmitRead(r, s)
            /\ req'[q].read = settings
            /\ req'[q].at = "count"
         \/ /\ req[q].at \in SubmitPhases
            /\ req'[q].read = req[q].read
            /\ req'[q].overtaken = req[q].overtaken \/ CloseGrants(r)
<1>1. CASE q # r /\ ~CloseGrants(r)
  BY <1>1, StepFrame DEF RequestFrame
<1>2. CASE CloseGrants(r)
  <2>1. Submitting(q)
    BY <1>2 DEF CloseGrants, SubmitPhases, Submitting, Idle
  <2>2. [req[q] EXCEPT !.overtaken = TRUE].read = req[q].read
    BY <2>1, RequestAt DEF SubmitRequest
  <2>3. q # r
    BY <1>2, <2>1 DEF CloseGrants, Submitting
  <2> QED BY <1>2, <2>1, <2>2, <2>3 DEF CloseGrants, SubmitPhases, Submitting
<1>3. CASE q = r /\ ~CloseGrants(r)
  <2>1. SubmitStep(r)
    BY <1>3, StepFrame DEF RequestFrame
  <2>2. ASSUME NEW s \in Students, SubmitRead(r, s)
        PROVE  req'[r].read = settings /\ req'[r].at = "count"
    BY <2>2 DEF SubmitRead, TypeOK
  <2>3. CASE SubmitCount(r)
    <3>1. req[r] \in SubmitRequest
      BY <2>3, RequestAt DEF SubmitCount, Submitting
    <3> QED BY <1>3, <2>3, <3>1 DEF SubmitCount, SubmitRequest, SubmitPhases, TypeOK
  <2>4. CASE SubmitCheck(r)
    <3>1. req[r] \in SubmitRequest
      BY <2>4, RequestAt DEF SubmitCheck, Submitting
    <3>2. req'[r].at = "insert"
      BY <1>3, <2>4, <3>1 DEF SubmitCheck, SubmitPhases, SubmitRequest, Idle, TypeOK
    <3>3. PICK b \in BOOLEAN :
            req'[r] = [req[r] EXCEPT !.at = "insert", !.granted = b]
      BY <2>4, <3>2, CheckPassed
    <3>4. req[r].at = "check"
      BY <2>4 DEF SubmitCheck
    <3>5. /\ req'[r].read = req[r].read
          /\ req'[r].overtaken = req[r].overtaken
      BY <3>1, <3>3 DEF SubmitRequest
    <3> QED BY <1>3, <3>4, <3>5 DEF SubmitPhases
  <2>5. CASE SubmitInsert(r)
    <3>1. req[r] \in SubmitRequest
      BY <2>5, RequestAt DEF SubmitInsert, Submitting
    <3>2. req'[r] = [req[r] EXCEPT !.at = "consume"]
      BY <1>3, <2>5 DEF SubmitInsert, SubmitPhases, Idle, TypeOK
    <3> QED BY <1>3, <2>5, <3>1, <3>2 DEF SubmitInsert, SubmitRequest, SubmitPhases
  <2> QED BY <1>3, <2>1, <2>2, <2>3, <2>4, <2>5 DEF SubmitStep
<1> QED BY <1>1, <1>2, <1>3

ReadsWithin ==
    /\ Within(settings.max, mostAllowed)
    /\ \A r \in Requests : req[r].at \in SubmitPhases =>
         Within(req[r].read.max, mostAllowed)

ChecksPassed ==
    RetakeFeature => \A r \in Requests :
        req[r].at = "insert" /\ req[r].next > 1
          => CanRetake(req[r].read, req[r].next - 1, req[r].granted)

LEMMA LimitGrows ==
  ASSUME TypeOK, Within(settings.max, mostAllowed),
         NEW r \in Requests, RequestStep(r)
  PROVE  Within(mostAllowed, mostAllowed') /\ Within(settings'.max, mostAllowed')
<1>1. CASE SettingsWrite(r)
  <2>1. TypeOK'
    BY TypeStep DEF Next
  <2> QED BY <1>1, <2>1, LargerBounds DEF SettingsWrite, TypeOK, Settings
<1>2. CASE ~SettingsWrite(r)
  <2>1. mostAllowed' = mostAllowed
    BY <1>2, StepFrame DEF RowsFrame
  <2>2. settings'.max = settings.max
    <3>1. CASE OpenWindow(r)
      BY <3>1 DEF OpenWindow, TypeOK, Settings
    <3>2. CASE CloseWindow(r)
      BY <3>2 DEF CloseWindow, TypeOK, Settings
    <3> QED BY <1>2, <3>1, <3>2, StepFrame DEF RowsFrame, SettingsStep
  <2> QED BY <2>1, <2>2, RetakesOK DEF Within, TypeOK
<1> QED BY <1>1, <1>2

LEMMA ReadsStep ==
  ASSUME TypeOK, ReadsWithin, [Next]_vars
  PROVE  ReadsWithin'
<1>1. TypeOK'
  BY TypeStep
<1>2. ASSUME NEW r \in Requests, RequestStep(r) PROVE ReadsWithin'
  <2>1. Within(mostAllowed, mostAllowed') /\ Within(settings'.max, mostAllowed')
    BY <1>2, LimitGrows DEF ReadsWithin
  <2>2. ASSUME NEW q \in Requests, req'[q].at \in SubmitPhases
        PROVE  Within(req'[q].read.max, mostAllowed')
    <3>1. \/ /\ q = r
             /\ \E s \in Students : SubmitRead(r, s)
             /\ req'[q].read = settings
          \/ req[q].at \in SubmitPhases /\ req'[q].read = req[q].read
      BY <1>2, <2>2, Carried
    <3>2. Within(req'[q].read.max, mostAllowed)
      BY <3>1 DEF ReadsWithin
    <3>3. CASE req'[q].read = settings
      BY <1>1, <2>1, <3>2, <3>3, WithinTransitive DEF TypeOK, Settings
    <3>4. CASE req[q].at \in SubmitPhases /\ req'[q].read = req[q].read
      <4>1. req[q] \in SubmitRequest
        BY <3>4, RequestAt DEF SubmitPhases, Submitting
      <4>2. req'[q].read.max \in Limits
        BY <3>4, <4>1 DEF SubmitRequest, Settings
      <4> QED BY <1>1, <2>1, <3>2, <4>2, WithinTransitive DEF TypeOK
    <3> QED BY <3>1, <3>3, <3>4
  <2> QED BY <2>1, <2>2 DEF ReadsWithin
<1>3. CASE Delete
  BY <1>3 DEF Delete, ReadsWithin, history
<1>4. CASE UNCHANGED vars
  BY <1>4 DEF vars, ReadsWithin
<1> QED BY <1>2, <1>3, <1>4 DEF Next

\* What a request about to store carries was there before, or has just been
\* checked.
LEMMA ReachedInsert ==
  ASSUME TypeOK, NEW r \in Requests, RequestStep(r),
         NEW q \in Requests, req'[q].at = "insert"
  PROVE  \/ q = r /\ SubmitCheck(r)
         \/ /\ req[q].at = "insert"
            /\ req'[q].next = req[q].next
            /\ req'[q].read = req[q].read
            /\ req'[q].granted = req[q].granted
<1>1. CASE q # r /\ ~CloseGrants(r)
  BY <1>1, StepFrame DEF RequestFrame
<1>2. CASE CloseGrants(r)
  <2>1. Submitting(q) /\ q # r
    BY <1>2 DEF CloseGrants, Submitting, Idle
  <2>2. req'[q] = [req[q] EXCEPT !.overtaken = TRUE]
    BY <1>2, <2>1 DEF CloseGrants
  <2> QED BY <2>1, <2>2, RequestAt DEF SubmitRequest
<1>3. CASE q = r /\ ~CloseGrants(r)
  <2>1. SubmitStep(r)
    BY <1>3, StepFrame DEF RequestFrame, SubmitPhases
  <2>2. ASSUME NEW s \in Students PROVE ~SubmitRead(r, s)
    BY <1>3 DEF SubmitRead, TypeOK
  <2>3. ~SubmitCount(r)
    <3>1. SUFFICES ASSUME SubmitCount(r) PROVE FALSE
      OBVIOUS
    <3>2. req[r] \in SubmitRequest
      BY <3>1, RequestAt DEF SubmitCount, Submitting
    <3> QED BY <1>3, <3>1, <3>2 DEF SubmitCount, SubmitRequest, TypeOK
  <2>4. ~SubmitInsert(r)
    <3>1. SUFFICES ASSUME SubmitInsert(r) PROVE FALSE
      OBVIOUS
    <3>2. req[r] \in SubmitRequest
      BY <3>1, RequestAt DEF SubmitInsert, Submitting
    <3> QED BY <1>3, <3>1, <3>2 DEF SubmitInsert, SubmitRequest, Idle, TypeOK
  <2> QED BY <1>3, <2>1, <2>2, <2>3, <2>4 DEF SubmitStep
<1> QED BY <1>1, <1>2, <1>3

LEMMA ChecksStep ==
  ASSUME TypeOK, ChecksPassed, [Next]_vars
  PROVE  ChecksPassed'
<1>1. ASSUME NEW r \in Requests, RequestStep(r) PROVE ChecksPassed'
  <2>1. ASSUME RetakeFeature, NEW q \in Requests, req'[q].at = "insert",
               req'[q].next > 1
        PROVE  CanRetake(req'[q].read, req'[q].next - 1, req'[q].granted)
    <3>1. CASE q = r /\ SubmitCheck(r)
      <4>1. PICK b \in BOOLEAN :
              /\ req'[r] = [req[r] EXCEPT !.at = "insert", !.granted = b]
              /\ RetakeFeature /\ req[r].next - 1 > 0
                   => CanRetake(req[r].read, req[r].next - 1, b)
        BY <2>1, <3>1, CheckPassed
      <4>2. req[r] \in SubmitRequest
        BY <3>1, RequestAt DEF SubmitCheck, Submitting
      <4>3. /\ req'[r].read = req[r].read
            /\ req'[r].next = req[r].next
            /\ req'[r].granted = b
        BY <4>1, <4>2 DEF SubmitRequest
      <4>4. req[r].next \in Nat /\ req[r].next > 1
        BY <2>1, <3>1, <4>2, <4>3 DEF SubmitRequest
      <4>5. req[r].next - 1 > 0
        BY <4>4
      <4> QED BY <2>1, <3>1, <4>1, <4>3, <4>5
    <3>2. CASE ~(q = r /\ SubmitCheck(r))
      BY <1>1, <2>1, <3>2, ReachedInsert DEF ChecksPassed
    <3> QED BY <3>1, <3>2
  <2> QED BY <2>1 DEF ChecksPassed
<1>2. CASE Delete
  BY <1>2 DEF Delete, ChecksPassed
<1>3. CASE UNCHANGED vars
  BY <1>3 DEF vars, ChecksPassed
<1> QED BY <1>1, <1>2, <1>3 DEF Next

CapacityInv == NumbersInv /\ ReadsWithin /\ ChecksPassed /\ WithinCapacity

LEMMA CapacityStep ==
  ASSUME CapacityInv, [Next]_vars
  PROVE  CapacityInv'
<1> USE DEF CapacityInv
<1>1. TypeOK /\ NumbersInv' /\ ReadsWithin' /\ ChecksPassed'
  BY NumbersStep, ReadsStep, ChecksStep DEF NumbersInv
<1>2. TypeOK'
  BY <1>1 DEF NumbersInv
<1>3. ASSUME RetakeFeature, mostAllowed' # Unlimited,
             NEW s \in Students
      PROVE  Len(attempts'[s]) <= mostAllowed' + 1
  <2>1. CASE UNCHANGED vars
    BY <1>3, <2>1 DEF vars, WithinCapacity
  <2>2. CASE Delete
    <3>1. mostAllowed' \in Nat
      BY <1>2, <1>3, RetakesOK DEF TypeOK
    <3>2. Len(attempts'[s]) = 0
      BY <1>3, <2>2 DEF Delete
    <3>3. \A n \in Nat : 0 <= n + 1
      OBVIOUS
    <3> QED BY <3>1, <3>2, <3>3, Zenon
  <2>3. ASSUME NEW r \in Requests, RequestStep(r)
        PROVE  Len(attempts'[s]) <= mostAllowed' + 1
    <3>1. Within(mostAllowed, mostAllowed')
      BY <1>1, <2>3, LimitGrows DEF ReadsWithin
    <3>2. /\ mostAllowed # Unlimited
          /\ mostAllowed \in Nat /\ mostAllowed' \in Nat
          /\ mostAllowed <= mostAllowed'
      BY <1>1, <1>2, <1>3, <3>1, RetakesOK DEF Within, TypeOK
    <3>3. Len(attempts[s]) \in Nat /\ Len(attempts[s]) <= mostAllowed + 1
      BY <1>1, <1>3, <3>2 DEF WithinCapacity, TypeOK
    <3>4. CASE attempts'[s] = attempts[s]
      BY <3>2, <3>3, <3>4
    <3>5. CASE attempts'[s] # attempts[s]
      <4>1. /\ SubmitInsert(r)
            /\ exists
            /\ \A i \in DOMAIN attempts[req[r].student] :
                 attempts[req[r].student][i] # req[r].next
            /\ attempts' = [attempts EXCEPT ![req[r].student] =
                                               Append(@, req[r].next)]
        BY <1>1, <2>3, <3>5, StepFrame DEF RowsFrame, SubmitInsert
      <4>2. req[r].at = "insert" /\ s = req[r].student
        BY <1>1, <3>5, <4>1 DEF SubmitInsert, TypeOK
      <4>3. req[r].next = Len(attempts[s]) + 1
        BY <4>1, <4>2, StoredNext
      <4>4. attempts[s] \in Seq(Nat)
        BY <1>1 DEF TypeOK
      <4>5. Len(attempts'[s]) = req[r].next
        BY <1>1, <4>1, <4>2, <4>3, <4>4 DEF TypeOK
      <4>6. CASE req[r].next > 1
        <5>1. HasCapacity(req[r].read, req[r].next - 1)
          BY <1>3, <4>2, <4>6 DEF ChecksPassed, CanRetake
        <5>2. Within(req[r].read.max, mostAllowed)
          BY <4>2 DEF ReadsWithin, SubmitPhases
        <5>3. req[r] \in SubmitRequest
          BY <1>1, <4>2, RequestAt DEF Submitting
        <5>4. req[r].read.max \in Limits /\ req[r].next \in Nat
          BY <5>3 DEF SubmitRequest, Settings
        <5>5. req[r].read.max \in Nat /\ req[r].read.max <= mostAllowed
          BY <3>2, <5>2, <5>4, RetakesOK DEF Within
        <5>6. req[r].next - 1 < req[r].read.max + 1
          BY <5>1, <5>5, RetakesOK DEF HasCapacity
        <5>7. req[r].next <= req[r].read.max + 1
          BY <5>4, <5>5, <5>6
        <5> QED BY <3>2, <4>5, <5>4, <5>5, <5>7
      <4>7. CASE ~(req[r].next > 1)
        BY <3>2, <3>3, <4>3, <4>5, <4>7
      <4> QED BY <4>6, <4>7
    <3> QED BY <3>4, <3>5
  <2> QED BY <2>1, <2>2, <2>3 DEF Next
<1>4. WithinCapacity'
  BY <1>3 DEF WithinCapacity
<1> QED BY <1>1, <1>4

\* No interleaving stores more attempts than the largest limit ever in force.
THEOREM AttemptsStayWithinCapacity == Spec => []WithinCapacity
<1>1. Init => CapacityInv
  <2> SUFFICES ASSUME Init PROVE CapacityInv
    OBVIOUS
  <2>1. TypeOK
    BY TypeInit
  <2>2. NumbersInv
    <3>1. <<>> = [i \in 1..Len(<<>>) |-> i]
      OBVIOUS
    <3> QED BY <2>1, <3>1 DEF Init, NumbersInv, AttemptsNumbered, NextBounded, Idle
  <2>3. ReadsWithin
    BY <2>1, RetakesOK DEF Init, ReadsWithin, SubmitPhases, Idle, Within, TypeOK
  <2>4. ChecksPassed
    BY DEF Init, ChecksPassed, Idle
  <2>5. WithinCapacity
    BY <2>1, RetakesOK DEF Init, WithinCapacity, TypeOK
  <2> QED BY <2>2, <2>3, <2>4, <2>5 DEF CapacityInv
<1>2. CapacityInv => WithinCapacity
  BY DEF CapacityInv
<1> QED BY <1>1, <1>2, CapacityStep, PTL DEF Spec

-----------------------------------------------------------------------------
(***************************************************************************)
(* Grants.  A spent grant that is still active has its consumer.           *)
(***************************************************************************)
LEMMA UpsertFresh ==
  ASSUME TypeOK, NEW s \in Students, NEW active \in BOOLEAN, Upsert(s, active),
         NEW t \in Students, grant'[t] = "active", used'[t] = "spent"
  PROVE  grant[t] = "active" /\ used[t] = "spent"
BY DEF TypeOK, Upsert

LEMMA ConsumerKept ==
  ASSUME TypeOK, SpentGrantsConsumed, NEW r \in Requests, NEW s \in Students,
         grant[s] = "active", used[s] = "spent",
         req[r].at = "consume" => req[r].student # s,
         \A q \in Requests \ {r} : req'[q] = req[q]
  PROVE  \E q \in Requests : req'[q].at = "consume" /\ req'[q].student = s
BY DEF SpentGrantsConsumed

\* A submission that owes a grant only consumes it, or fails.
LEMMA ConsumeEnds ==
  ASSUME NEW r \in Requests, RequestStep(r), req[r].at = "consume"
  PROVE  SubmitConsume(r) \/ Fail(r)
<1>1. req[r] # Idle
  BY DEF Idle
<1>2. ~\E s \in Students : SubmitRead(r, s)
  BY <1>1 DEF SubmitRead
<1>3. ~\E change \in Changes : SettingsRead(r, change)
  BY <1>1 DEF SettingsRead, TeacherStarts
<1>4. ~\E s \in Students : \E active \in BOOLEAN : GrantStart(r, s, active)
  BY <1>1 DEF GrantStart, TeacherStarts
<1>5. ~\E class \in SUBSET Students : \E scope \in Scope : OpenStart(r, class, scope)
  BY <1>1 DEF OpenStart, TeacherStarts
<1>6. ~CloseStart(r)
  BY <1>1 DEF CloseStart, TeacherStarts
<1>7. ~SubmitCount(r) /\ ~SubmitCheck(r) /\ ~SubmitInsert(r)
  BY DEF SubmitCount, SubmitCheck, SubmitInsert
<1>8. ~SettingsWrite(r) /\ ~GrantWrite(r) /\ ~OpenWindow(r) /\ ~OpenFind(r)
  BY DEF SettingsWrite, GrantWrite, OpenWindow, OpenFind
<1>9. ~\E s \in Students : OpenGrant(r, s)
  BY DEF OpenGrant
<1>10. ~OpenEnd(r) /\ ~CloseWindow(r) /\ ~CloseGrants(r)
  BY DEF OpenEnd, CloseWindow, CloseGrants
<1> QED BY <1>2, <1>3, <1>4, <1>5, <1>6, <1>7, <1>8, <1>9, <1>10 DEF RequestStep

LEMMA SpentStep ==
  ASSUME TypeOK, SpentGrantsConsumed, [Next]_vars
  PROVE  SpentGrantsConsumed'
<1>1. ASSUME NEW r \in Requests, RequestStep(r),
             NEW s \in Students, grant'[s] = "active", used'[s] = "spent"
      PROVE  \E q \in Requests : req'[q].at = "consume" /\ req'[q].student = s
  <2>1. CASE CloseGrants(r)
    BY <1>1, <2>1 DEF CloseGrants
  <2> SUFFICES ASSUME ~CloseGrants(r)
               PROVE  \E q \in Requests : /\ req'[q].at = "consume"
                                           /\ req'[q].student = s
    BY <2>1
  <2>2. \A q \in Requests \ {r} : req'[q] = req[q]
    BY <1>1, StepFrame DEF RequestFrame
  <2>3. CASE SubmitInsert(r)
    <3>1. req[r] \in SubmitRequest
      BY <2>3, RequestAt DEF SubmitInsert, Submitting
    <3>2. CASE used' = used
      BY <1>1, <2>2, <2>3, <3>2, ConsumerKept DEF SubmitInsert
    <3>3. CASE used' # used
      <4>1. /\ used' = [used EXCEPT ![req[r].student] = "spent"]
            /\ req' = [req EXCEPT ![r] = [req[r] EXCEPT !.at = "consume"]]
        BY <2>3, <3>3 DEF SubmitInsert
      <4>2. req'[r].at = "consume" /\ req'[r].student = req[r].student
        BY <3>1, <4>1 DEF SubmitRequest, TypeOK
      <4>3. CASE s # req[r].student
        <5>1. used[s] = "spent" /\ grant[s] = "active"
          BY <1>1, <2>3, <4>1, <4>3 DEF SubmitInsert, TypeOK
        <5> QED BY <2>2, <2>3, <5>1, ConsumerKept DEF SubmitInsert
      <4> QED BY <4>2, <4>3
    <3> QED BY <3>2, <3>3
  <2>4. CASE SubmitConsume(r)
    <3>1. req[r].student # s /\ grant[s] = "active" /\ used[s] = "spent"
      BY <1>1, <2>4 DEF SubmitConsume, TypeOK, history
    <3> QED BY <2>2, <3>1, ConsumerKept
  <2>5. CASE GrantWrite(r)
    <3>1. req[r] \in GrantRequest
      BY <2>5, RequestAt DEF GrantWrite
    <3>2. /\ req[r].student \in Students
          /\ req[r].active \in BOOLEAN
          /\ Upsert(req[r].student, req[r].active)
          /\ req[r].at # "consume"
      BY <2>5, <3>1 DEF GrantWrite, GrantRequest
    <3> QED BY <1>1, <2>2, <3>2, UpsertFresh, ConsumerKept
  <2>6. ASSUME NEW t \in Students, OpenGrant(r, t)
        PROVE  \E q \in Requests : req'[q].at = "consume" /\ req'[q].student = s
    <3>1. Upsert(t, TRUE) /\ req[r].at # "consume"
      BY <2>6 DEF OpenGrant
    <3> QED BY <1>1, <2>2, <3>1, UpsertFresh, ConsumerKept
  <2>7. CASE Fail(r)
    <3>1. /\ grant[s] = "active"
          /\ req[r].at = "consume" => req[r].student # s
          /\ used[s] = "spent"
      BY <1>1, <2>7 DEF Fail, TypeOK
    <3> QED BY <2>2, <3>1, ConsumerKept
  <2>8. CASE ~GrantStep(r)
    <3>1. grant' = grant /\ used' = used
      BY <1>1, <2>8, StepFrame DEF RowsFrame
    <3>2. req[r].at # "consume"
      BY <1>1, <2>8, ConsumeEnds DEF GrantStep
    <3> QED BY <1>1, <2>2, <3>1, <3>2, ConsumerKept
  <2> QED BY <2>3, <2>4, <2>5, <2>6, <2>7, <2>8 DEF GrantStep
<1>2. CASE Delete
  BY <1>2 DEF Delete, SpentGrantsConsumed
<1>3. CASE UNCHANGED vars
  BY <1>3 DEF vars, SpentGrantsConsumed
<1> QED BY <1>1, <1>2, <1>3 DEF Next, SpentGrantsConsumed

\* A grant that served a retake is consumed, or about to be, unless its
\* handler failed.
THEOREM SpentGrantsAreConsumed == Spec => []SpentGrantsConsumed
<1>1. Init => SpentGrantsConsumed
  BY DEF Init, SpentGrantsConsumed
<1> QED BY <1>1, TypeInit, TypeStep, SpentStep, PTL DEF Spec

-----------------------------------------------------------------------------
(***************************************************************************)
(* Closing.  A close that started alone, with no teacher request since, is *)
(* the only teacher request at work; once it is over, what submissions it  *)
(* did not overtake read is what it left.                                  *)
(***************************************************************************)
Closing(r) == req[r].at \in {"closeWindow", "closeGrants"}

CloseAlone ==
    \A r \in Requests : Closing(r) =>
        /\ req[r].since <= edits
        /\ Undisturbed(r) => \A q \in Requests \ {r} : ~Teaching(q)
        /\ Undisturbed(r) /\ req[r].at = "closeGrants" => ~settings.window

ShutHolds ==
    shut => /\ \A r \in Requests : ~Teaching(r)
            /\ ~settings.window
            /\ \A s \in Students : grant[s] # "active"
            /\ \A r \in Requests :
                 req[r].at \in SubmitPhases /\ ~req[r].overtaken =>
                     /\ req[r].read = settings
                     /\ req[r].at = "insert" => ~req[r].granted

CloseInv == TypeOK /\ ChecksPassed /\ CloseAlone /\ ShutHolds

LEMMA TeacherIdle ==
  ASSUME NEW r \in Requests, TeacherStep(r)
  PROVE  /\ req[r] = Idle
         /\ edits' = edits + 1
         /\ shut' = FALSE
         /\ settings' = settings
BY DEF TeacherStep, TeacherStarts

\* A closing request after a step has just started, has just closed the
\* window, or is as it was.
LEMMA CloseReached ==
  ASSUME TypeOK, NEW r \in Requests, RequestStep(r),
         NEW q \in Requests, req'[q].at \in {"closeWindow", "closeGrants"}
  PROVE  \/ q = r /\ CloseStart(r)
         \/ /\ q = r /\ CloseWindow(r) /\ settings'.window = FALSE
            /\ req'[q] = [req[q] EXCEPT !.at = "closeGrants"]
         \/ /\ ~TeacherStep(r) \/ q # r
            /\ req'[q] = req[q]
<1>1. CASE q # r /\ ~CloseGrants(r)
  BY <1>1, StepFrame DEF RequestFrame
<1>2. CASE CloseGrants(r)
  <2>1. ~Submitting(q) /\ q # r
    <3>1. q # r
      BY <1>2 DEF CloseGrants, Idle
    <3>2. ASSUME Submitting(q) PROVE FALSE
      <4>1. req'[q] = [req[q] EXCEPT !.overtaken = TRUE]
        BY <1>2, <3>1, <3>2 DEF CloseGrants
      <4>2. req'[q].at = req[q].at
        BY <3>2, <4>1, RequestAt DEF SubmitRequest
      <4> QED BY <3>2, <4>2 DEF Submitting
    <3> QED BY <3>1, <3>2
  <2> QED BY <1>2, <2>1 DEF CloseGrants
<1>3. CASE q = r /\ ~CloseGrants(r)
  <2>1. req'[r] # Idle
    BY <1>3 DEF Idle
  <2>2. ~SubmitStep(r)
    BY <1>3, <2>1, SubmissionFrame DEF SubmitFrame, SubmitPhases
  <2>3. \A request : TeacherStarts(r, request) => req'[r] = request
    BY DEF TeacherStarts, TypeOK
  <2>4. /\ ~\E change \in Changes : SettingsRead(r, change)
        /\ ~\E s \in Students : \E active \in BOOLEAN : GrantStart(r, s, active)
        /\ ~\E class \in SUBSET Students : \E scope \in Scope :
              OpenStart(r, class, scope)
    <3>1. ASSUME NEW change \in Changes, SettingsRead(r, change) PROVE FALSE
      <4>1. req'[r] = [at |-> "write", read |-> settings, change |-> change]
        BY <2>3, <3>1 DEF SettingsRead
      <4> QED BY <1>3, <4>1
    <3>2. ASSUME NEW s \in Students, NEW active \in BOOLEAN,
                 GrantStart(r, s, active)
          PROVE  FALSE
      <4>1. req'[r] = [at |-> "grant", student |-> s, active |-> active]
        BY <2>3, <3>2 DEF GrantStart
      <4> QED BY <1>3, <4>1
    <3>3. ASSUME NEW class \in SUBSET Students, NEW scope \in Scope,
                 OpenStart(r, class, scope)
          PROVE  FALSE
      <4>1. req'[r] = [at |-> "openWindow", class |-> class, scope |-> scope]
        BY <2>3, <3>3 DEF OpenStart
      <4>2. req'[r].at = "openWindow"
        BY <4>1
      <4> QED BY <1>3, <4>2
    <3> QED BY <3>1, <3>2, <3>3
  <2>5. ~SettingsWrite(r) /\ ~GrantWrite(r) /\ ~OpenEnd(r) /\ ~Fail(r)
        /\ ~SubmitConsume(r)
    BY <2>1 DEF SettingsWrite, GrantWrite, OpenEnd, Fail, SubmitConsume, TypeOK
  <2>6. ~OpenFind(r)
    BY <1>3 DEF OpenFind, TypeOK
  <2>7. ~OpenWindow(r)
    <3>1. ASSUME OpenWindow(r) PROVE FALSE
      <4>1. req'[r] = [req[r] EXCEPT !.at = "openFind"] /\ req[r] \in OpenRequest
        BY <2>1, <3>1, RequestAt DEF OpenWindow, TypeOK
      <4> QED BY <1>3, <4>1 DEF OpenRequest
    <3> QED BY <3>1
  <2>8. ASSUME NEW s \in Students PROVE ~OpenGrant(r, s)
    <3>1. ASSUME OpenGrant(r, s) PROVE FALSE
      <4>1. req[r] \in OpenGrantsRequest
        BY <3>1, RequestAt DEF OpenGrant
      <4>2. req'[r] = [req[r] EXCEPT !.left = req[r].left \ {s}]
        BY <3>1 DEF OpenGrant, TypeOK
      <4> QED BY <1>3, <4>1, <4>2 DEF OpenGrantsRequest
    <3> QED BY <3>1
  <2>9. ASSUME CloseWindow(r)
        PROVE  /\ settings'.window = FALSE
               /\ req'[r] = [req[r] EXCEPT !.at = "closeGrants"]
    BY <2>1, <2>9 DEF CloseWindow, TypeOK, Settings
  <2> QED BY <1>3, <2>2, <2>4, <2>5, <2>6, <2>7, <2>8, <2>9
          DEF RequestStep, SubmitStep
<1> QED BY <1>1, <1>2, <1>3

\* Only a teacher request that starts makes another slot a teacher's.
LEMMA TeachersKept ==
  ASSUME TypeOK, NEW r \in Requests, RequestStep(r), ~TeacherStep(r),
         NEW q \in Requests, ~Teaching(q)
  PROVE  ~Teaching(q)'
<1>1. CASE CloseGrants(r)
  <2>1. CASE Submitting(q) /\ q # r
    <3>1. req'[q] = [req[q] EXCEPT !.overtaken = TRUE]
      BY <1>1, <2>1 DEF CloseGrants
    <3>2. req'[q].at = req[q].at
      BY <2>1, <3>1, RequestAt DEF SubmitRequest
    <3> QED BY <2>1, <3>2 DEF Teaching, Submitting
  <2>2. CASE q = r \/ ~Submitting(q)
    BY <1>1, <2>2 DEF CloseGrants, Teaching, Submitting, Idle
  <2> QED BY <2>1, <2>2
<1>2. CASE ~CloseGrants(r) /\ q # r
  BY <1>2, StepFrame DEF RequestFrame, Teaching, Submitting
<1>3. CASE ~CloseGrants(r) /\ q = r
  BY <1>3, StepFrame DEF RequestFrame, SubmitPhases, Teaching, Submitting
<1> QED BY <1>1, <1>2, <1>3

LEMMA AloneStep ==
  ASSUME TypeOK, CloseAlone, NEW r \in Requests, RequestStep(r)
  PROVE  CloseAlone'
<1>1. edits \in Nat
  BY RetakesOK DEF TypeOK
<1> SUFFICES ASSUME NEW q \in Requests, req'[q].at \in {"closeWindow", "closeGrants"}
             PROVE  /\ req'[q].since <= edits'
                    /\ req'[q].alone /\ req'[q].since = edits' =>
                         /\ \A p \in Requests \ {q} : ~Teaching(p)'
                         /\ req'[q].at = "closeGrants" => ~settings'.window
  BY DEF CloseAlone, Closing, Undisturbed
<1>2. CASE q = r /\ CloseStart(r)
  <2>1. PICK b \in BOOLEAN :
          /\ b <=> \A p \in Requests : ~Teaching(p)
          /\ req' = [req EXCEPT ![r] = [at |-> "closeWindow", since |-> edits + 1,
                                         alone |-> b]]
          /\ edits' = edits + 1
    <3>1. (\A p \in Requests : ~Teaching(p)) \in BOOLEAN
      OBVIOUS
    <3> QED BY <1>2, <3>1, Zenon DEF CloseStart, TeacherStarts
  <2>2. req'[r] = [at |-> "closeWindow", since |-> edits + 1, alone |-> b]
    BY <2>1 DEF TypeOK
  <2>3. /\ req'[r].since = edits + 1
        /\ req'[r].at = "closeWindow"
        /\ req'[r].alone = b
    BY <2>2
  <2>4. b => \A p \in Requests \ {r} : ~Teaching(p)'
    BY <2>1 DEF Teaching, Submitting, TypeOK
  <2> QED BY <1>1, <1>2, <2>1, <2>3, <2>4
<1>3. CASE /\ q = r /\ CloseWindow(r) /\ settings'.window = FALSE
           /\ req'[q] = [req[q] EXCEPT !.at = "closeGrants"]
  <2>1. req[q] \in CloseRequest /\ edits' = edits
    BY <1>3, RequestAt DEF CloseWindow
  <2>2. req'[q].since = req[q].since /\ req'[q].alone = req[q].alone
    BY <1>3, <2>1 DEF CloseRequest
  <2>3. /\ req[q].since <= edits
        /\ Undisturbed(q) => \A p \in Requests \ {q} : ~Teaching(p)
    <3>1. Closing(q)
      BY <1>3 DEF Closing, CloseWindow
    <3>2. \A p \in Requests : Closing(p) =>
            /\ req[p].since <= edits
            /\ Undisturbed(p) => \A o \in Requests \ {p} : ~Teaching(o)
      BY DEF CloseAlone
    <3> QED BY <3>1, <3>2, Zenon
  <2>4. ~TeacherStep(r)
    <3>1. req[r].at = "closeWindow"
      BY <1>3 DEF CloseWindow
    <3>2. req[r] # Idle
      BY <3>1 DEF Idle
    <3> QED BY <3>2, TeacherIdle
  <2> QED BY <1>3, <2>1, <2>2, <2>3, <2>4, TeachersKept DEF Undisturbed
<1>4. CASE (~TeacherStep(r) \/ q # r) /\ req'[q] = req[q]
  <2>1. Closing(q) /\ req[q] \in CloseRequest
    BY <1>4, RequestAt DEF Closing
  <2>2. /\ req[q].since <= edits
        /\ Undisturbed(q) => \A p \in Requests \ {q} : ~Teaching(p)
        /\ Undisturbed(q) /\ req[q].at = "closeGrants" => ~settings.window
        /\ req[q].since \in Nat
    BY <2>1, RetakesOK DEF CloseAlone, CloseRequest
  <2>3. CASE TeacherStep(r)
    <3>1. edits' = edits + 1
      BY <2>3, TeacherIdle
    <3> QED BY <1>1, <1>4, <2>2, <3>1
  <2>4. CASE ~TeacherStep(r)
    <3>1. edits' = edits
      BY <2>4, StepFrame DEF RowsFrame
    <3>2. ASSUME Undisturbed(q), req[q].at = "closeGrants"
          PROVE  settings' = settings
      <4>1. SUFFICES ASSUME SettingsStep(r) PROVE FALSE
        BY StepFrame DEF RowsFrame
      <4>2. req[r].at \in {"write", "openWindow", "closeWindow"}
        BY <4>1 DEF SettingsStep, SettingsWrite, OpenWindow, CloseWindow
      <4>3. Teaching(r) /\ r # q
        BY <3>2, <4>2, TeacherAt
      <4> QED BY <2>2, <3>2, <4>3
    <3> QED BY <1>4, <2>2, <2>4, <3>1, <3>2, TeachersKept DEF Undisturbed
  <2> QED BY <2>3, <2>4
<1> QED BY <1>2, <1>3, <1>4, CloseReached

LEMMA ShutStep ==
  ASSUME CloseInv, NEW r \in Requests, RequestStep(r)
  PROVE  ShutHolds'
<1> USE DEF CloseInv
<1> SUFFICES ASSUME shut'
             PROVE  /\ \A q \in Requests : ~Teaching(q)'
                    /\ ~settings'.window
                    /\ \A s \in Students : grant'[s] # "active"
                    /\ \A q \in Requests :
                         req'[q].at \in SubmitPhases /\ ~req'[q].overtaken =>
                             /\ req'[q].read = settings'
                             /\ req'[q].at = "insert" => ~req'[q].granted
  BY DEF ShutHolds
<1>1. ~TeacherStep(r)
  BY TeacherIdle
<1>2. CASE CloseGrants(r)
  <2>1. Undisturbed(r) /\ req[r].at = "closeGrants" /\ settings' = settings
    BY <1>2 DEF CloseGrants
  <2>2. /\ \A q \in Requests \ {r} : ~Teaching(q)
        /\ ~settings.window
    BY <2>1 DEF CloseAlone, Closing
  <2>3. ~Teaching(r)'
    BY <1>2 DEF CloseGrants, Teaching
  <2>4. \A s \in Students : grant'[s] # "active"
    BY <1>2 DEF CloseGrants
  <2>5. ASSUME NEW q \in Requests, req'[q].at \in SubmitPhases
        PROVE  req'[q].overtaken
    <3>1. Submitting(q) /\ q # r
      BY <1>2, <2>5 DEF CloseGrants, Submitting, SubmitPhases, Idle
    <3>2. req'[q] = [req[q] EXCEPT !.overtaken = TRUE]
      BY <1>2, <3>1 DEF CloseGrants
    <3> QED BY <3>1, <3>2, RequestAt DEF SubmitRequest
  <2> QED BY <1>1, <2>1, <2>2, <2>3, <2>4, <2>5, TeachersKept
<1>3. CASE ~CloseGrants(r)
  <2>1. shut
    BY <1>1, <1>3, StepFrame DEF RowsFrame
  <2>2. /\ \A q \in Requests : ~Teaching(q)
        /\ ~settings.window
        /\ \A s \in Students : grant[s] # "active"
    BY <2>1 DEF ShutHolds
  <2>3. settings' = settings
    <3>1. SUFFICES ASSUME SettingsStep(r) PROVE FALSE
      BY StepFrame DEF RowsFrame
    <3>2. req[r].at \in {"write", "openWindow", "closeWindow"}
      BY <3>1 DEF SettingsStep, SettingsWrite, OpenWindow, CloseWindow
    <3> QED BY <2>2, <3>2, TeacherAt
  <2>4. ASSUME NEW s \in Students PROVE grant'[s] # "active"
    <3>1. CASE SubmitInsert(r) \/ Fail(r)
      BY <2>2, <3>1 DEF SubmitInsert, Fail
    <3>2. CASE SubmitConsume(r)
      BY <2>2, <3>2 DEF SubmitConsume, TypeOK
    <3>3. CASE GrantWrite(r) \/ \E t \in Students : OpenGrant(r, t)
      <4>1. req[r].at \in {"grant", "openGrants"}
        BY <3>3 DEF GrantWrite, OpenGrant
      <4> QED BY <2>2, <4>1, TeacherAt
    <3>4. CASE ~GrantStep(r)
      BY <2>2, <3>4, StepFrame DEF RowsFrame
    <3> QED BY <1>3, <3>1, <3>2, <3>3, <3>4 DEF GrantStep
  <2>5. ASSUME NEW q \in Requests, req'[q].at \in SubmitPhases,
               ~req'[q].overtaken
        PROVE  req'[q].read = settings
    <3>1. \/ req'[q].read = settings
          \/ /\ req[q].at \in SubmitPhases
             /\ req'[q].read = req[q].read
             /\ ~req[q].overtaken
      BY <1>3, <2>5, Carried
    <3> QED BY <2>1, <3>1 DEF ShutHolds
  <2>6. ASSUME NEW q \in Requests, req'[q].at = "insert", ~req'[q].overtaken
        PROVE  ~req'[q].granted
    <3>1. CASE q = r /\ SubmitCheck(r)
      <4>1. PICK b \in BOOLEAN :
              /\ req'[r] = [req[r] EXCEPT !.at = "insert", !.granted = b]
              /\ b => grant[req[r].student] = "active"
        BY <2>6, <3>1, CheckPassed
      <4>2. req[r] \in SubmitRequest
        BY <3>1, RequestAt DEF SubmitCheck, Submitting
      <4>3. req'[r].granted = b /\ req[r].student \in Students
        BY <4>1, <4>2 DEF SubmitRequest
      <4> QED BY <2>2, <3>1, <4>1, <4>3
    <3>2. CASE ~(q = r /\ SubmitCheck(r))
      <4>1. req[q].at = "insert" /\ req'[q].granted = req[q].granted
        BY <2>6, <3>2, ReachedInsert
      <4>2. ~req[q].overtaken
        BY <1>3, <2>6, <4>1, Carried DEF SubmitPhases
      <4> QED BY <2>1, <4>1, <4>2 DEF ShutHolds, SubmitPhases
    <3> QED BY <3>1, <3>2
  <2> QED BY <1>1, <2>2, <2>3, <2>4, <2>5, <2>6, TeachersKept
<1> QED BY <1>2, <1>3

LEMMA CloseStep ==
  ASSUME CloseInv, [Next]_vars
  PROVE  CloseInv'
<1>1. TypeOK' /\ ChecksPassed'
  BY TypeStep, ChecksStep DEF CloseInv
<1>2. ASSUME NEW r \in Requests, RequestStep(r)
      PROVE  CloseAlone' /\ ShutHolds'
  BY <1>2, AloneStep, ShutStep DEF CloseInv
<1>3. CASE Delete \/ UNCHANGED vars
  <2>1. /\ req' = req /\ edits' = edits
        /\ settings' = settings /\ shut' = shut
        /\ \A s \in Students : grant[s] # "active" => grant'[s] # "active"
    BY <1>3 DEF Delete, vars, history
  <2>2. CloseAlone'
    BY <2>1 DEF CloseInv, CloseAlone, Closing, Undisturbed, Teaching, Submitting
  <2>3. ShutHolds'
    BY <2>1 DEF CloseInv, ShutHolds, Teaching, Submitting
  <2> QED BY <1>1, <2>2, <2>3 DEF CloseInv
<1> QED BY <1>1, <1>2, <1>3 DEF Next, CloseInv

\* After a close that no other teacher request overlapped, only submissions it
\* overtook still store a retake, unless attempts are unlimited.
THEOREM ClosesShutRetakes == Spec => []CloseShutsRetakes
<1>1. Init => CloseInv
  BY TypeInit DEF Init, CloseInv, ChecksPassed, CloseAlone, ShutHolds, Closing, Idle
<1>2. ASSUME CloseInv PROVE CloseShutsRetakes
  <2> SUFFICES ASSUME RetakeFeature, shut, settings.max # Unlimited,
                      NEW r \in Requests, req[r].at = "insert", req[r].next > 1,
                      ~req[r].overtaken
               PROVE  FALSE
    BY DEF CloseShutsRetakes
  <2>1. CanRetake(req[r].read, req[r].next - 1, req[r].granted)
    BY <1>2 DEF CloseInv, ChecksPassed
  <2>2. req[r].read = settings /\ ~req[r].granted /\ ~settings.window
    BY <1>2 DEF CloseInv, ShutHolds, SubmitPhases
  <2> QED BY <2>1, <2>2 DEF CanRetake
<1> QED BY <1>1, <1>2, CloseStep, PTL DEF Spec
\* The attempts of a student are numbered without a gap or a double and stay
\* within the largest limit that was in force.
THEOREM AttemptsAreBounded == Spec => []AttemptsBounded
<1>1. AttemptsNumbered /\ WithinCapacity => AttemptsBounded
  BY DEF AttemptsBounded
<1> QED
  BY <1>1, AttemptsAreNumbered, AttemptsStayWithinCapacity, PTL

-----------------------------------------------------------------------------
(***************************************************************************)
(* The largest of finitely many numbers.                                   *)
(***************************************************************************)
Smaller == {pair \in Nat \X Nat : pair[1] < pair[2]}

LEMMA SmallerWellFounded == IsWellFoundedOn(Smaller, Nat)
BY NatLessThanWellFounded DEF OpToRel, Smaller

\* Some index has the largest value, whatever indexes are picked.
LEMMA Largest ==
  ASSUME NEW n \in Nat, NEW f \in [1..n -> Nat], NEW G \in SUBSET (1..n), G # {}
  PROVE  \E i \in G : \A j \in G : f[j] <= f[i]
<1> DEFINE Bad(m) == \E g \in [1..m -> Nat], H \in SUBSET (1..m) :
                       H # {} /\ \A i \in H : \E j \in H : ~(g[j] <= g[i])
           T == {m \in Nat : Bad(m)}
<1>1. ASSUME T # {} PROVE FALSE
  <2>1. PICK m \in T : \A k \in T : <<k, m>> \notin Smaller
    <3>1. T \subseteq Nat
      OBVIOUS
    <3> HIDE DEF T
    <3> QED BY <1>1, <3>1, SmallerWellFounded, WFMin
  <2>2. m \in Nat /\ \A k \in Nat : k < m => ~Bad(k)
    BY <2>1 DEF Smaller
  <2>3. PICK g \in [1..m -> Nat], H \in SUBSET (1..m) :
          H # {} /\ \A i \in H : \E j \in H : ~(g[j] <= g[i])
    BY <2>1
  <2>4. m > 0
    <3> HIDE DEF T, Bad
    <3>1. \E x : x \in H
      BY <2>3
    <3> QED BY <2>2, <2>3, <3>1
  <2> DEFINE k == m - 1
             g1 == [i \in 1..k |-> g[i]]
             H1 == H \ {m}
  <2>5. /\ k \in Nat /\ k < m /\ g1 \in [1..k -> Nat] /\ H1 \in SUBSET (1..k)
        /\ \A i \in H1 : g1[i] = g[i] /\ i \in 1..m
    BY <2>2, <2>4
  <2>6. H1 # {} => \E i \in H1 : \A j \in H1 : g1[j] <= g1[i]
    <3>1. ~Bad(k)
      BY <2>2, <2>5
    <3> QED BY <3>1, <2>5
  <2>7. H1 # {}
    <3> SUFFICES ASSUME H1 = {} PROVE FALSE
      OBVIOUS
    <3>1. H = {m}
      BY <2>3
    <3> QED BY <3>1, <2>2, <2>3, <2>4
  <2>8. PICK i \in H1 : \A j \in H1 : g1[j] <= g1[i]
    BY <2>6, <2>7
  <2>9. \A j \in H1 : g[j] <= g[i]
    BY <2>5, <2>8
  <2> HIDE DEF H1, g1, k, T, Bad
  <2>10. i \in H /\ i \in 1..m /\ H \subseteq H1 \cup {m} /\ m \in 1..m
    BY <2>2, <2>3, <2>4, <2>5 DEF H1
  <2>11. m \in H /\ ~(g[m] <= g[i])
    BY <2>3, <2>9, <2>10
  <2>12. \A j \in H1 : g[j] \in Nat /\ g[i] \in Nat /\ g[m] \in Nat
    BY <2>3, <2>5, <2>10
  <2>13. \A j \in H : g[j] <= g[m]
    BY <2>9, <2>10, <2>11, <2>12
  <2> QED BY <2>3, <2>11, <2>13
<1>2. ~Bad(n)
  BY <1>1
<1> QED BY <1>2

-----------------------------------------------------------------------------
(***************************************************************************)
(* The inductive invariant.                                                *)
(***************************************************************************)
\* What the handler q still recomputes for student s, what its plan still
\* holds, and whether it will drop the cached ranking.
Recomputes(q, s) ==
    \/ q.at = "batch" /\ s \in q.done
    \/ q.at = "find"
    \/ q.at = "derive" /\ q.jobs[s] # NoJob

OwesOf(q, what) ==
    q.at \in {"derive", "summary"} /\ \E i \in DOMAIN q.plan : q.plan[i] = what

Sums(q, s) == OwesOf(q, "summary") \/ (q.at = "summary" /\ s \in q.left)

Drops(q) == OwesOf(q, "invalidate") \/ (q.at = "batch" /\ q.done # {})

\* What has to be explained by a handler.
Stale(s) ==
    subs[s] # <<>> /\ stored[s].value # ScoreOf(subs[s], rule) /\ ~stored[s].late

Behind(s) ==
    /\ \E t \in Enrolled : stored[t].value # Null
    /\ summary[s].value # ClassScores
    /\ ~summary[s].late

Outdated == cache # Empty /\ cache.value # Ranking /\ ~cache.late

Explained ==
    /\ \A s \in Enrolled : Stale(s) => \E r \in Handlers : Recomputes(doing[r], s)
    /\ \A s \in Enrolled : Behind(s) => \E r \in Handlers : Sums(doing[r], s)
    /\ Outdated => \E r \in Handlers : Drops(doing[r])

\* What a handler has read is what is there, or its result will be late.
JobSound(s, job) ==
    /\ job.at = "rule" => job.late \/ job.rule = rule
    /\ job.at = "value" => job.late \/ job.value = ScoreOf(subs[s], rule)

RowThere(q) == q.at = "grade" /\ present => q.row \in DOMAIN subs[q.student]

JobsSound(q) == q.at = "derive" => \A s \in Enrolled : JobSound(s, q.jobs[s])

\* A handler that recomputes a score and is not silent will compute the summary.
Planned(q) ==
    q.at = "derive" /\ ~q.silent /\ (\E s \in Enrolled : q.jobs[s] # NoJob)
        => OwesOf(q, "summary")

ClassSound(q) == q.at = "summary" => q.late \/ q.class = ClassScores

RankSound(q) ==
    /\ q.at = "rankRule" => q.late \/ q.rows = subs
    /\ q.at = "rankFill" => q.late \/ q.value = Ranking

Sound(q) == RowThere(q) /\ JobsSound(q) /\ Planned(q) /\ ClassSound(q) /\ RankSound(q)

ScoreInv ==
    /\ ScoreTypeOK
    /\ ~present => \A s \in Enrolled : subs[s] = <<>>
    /\ \A r \in Handlers : Sound(doing[r])
    /\ Explained

-----------------------------------------------------------------------------
(***************************************************************************)
(* The operators of the model.                                             *)
(***************************************************************************)
\* The largest value of some rows is the value of one of them.
LEMMA MaxIsOne ==
  ASSUME NEW n \in Nat, NEW f \in [1..n -> Nat], NEW G \in SUBSET (1..n), G # {}
  PROVE  \E i \in G : Max({f[j] : j \in G}) = f[i]
<1> DEFINE S == {f[j] : j \in G}
<1>1. PICK i \in G : \A j \in G : f[j] <= f[i]
  BY Largest
<1>2. f[i] \in S /\ \A y \in S : f[i] >= y
  BY <1>1
<1>3. Max(S) \in S
  BY <1>2 DEF Max
<1> QED BY <1>3

LEMMA LastIndex ==
  ASSUME NEW n \in Nat, NEW G \in SUBSET (1..n), G # {}
  PROVE  Max(G) \in G
<1> DEFINE g == [i \in 1..n |-> i]
<1>1. g \in [1..n -> Nat] /\ \A i \in 1..n : g[i] = i
  OBVIOUS
<1> HIDE DEF g
<1>2. PICK i \in G : \A j \in G : g[j] <= g[i]
  BY <1>1, Largest
<1>3. \A j \in G : i >= j
  BY <1>1, <1>2
<1> QED BY <1>3 DEF Max

LEMMA PointsType ==
  ASSUME NEW row \in Submission
  PROVE  Points(row.score) \in Scores \cup {0} /\ Points(row.score) \in Nat
BY ScoresOK DEF Submission, Points

LEMMA ScoreOfType ==
  ASSUME NEW rows \in Seq(Submission), rows # <<>>, NEW by
  PROVE  ScoreOf(rows, by) \in Scores \cup {0}
<1> DEFINE n == Len(rows)
           f == [i \in 1..n |-> Points(rows[i].score)]
<1>1. n \in Nat /\ n \in 1..n /\ DOMAIN rows = 1..n /\ \A i \in 1..n : rows[i] \in Submission
  OBVIOUS
<1>2. f \in [1..n -> Nat] /\ \A i \in 1..n : f[i] \in Scores \cup {0}
  BY <1>1, PointsType
<1>3. {Points(rows[i].score) : i \in DOMAIN rows} = {f[i] : i \in 1..n}
  BY <1>1
<1> HIDE DEF f, n
<1>4. Max({f[i] : i \in 1..n}) \in Scores \cup {0}
  <2>1. \E i \in 1..n : Max({f[j] : j \in 1..n}) = f[i]
    <3>1. 1..n \in SUBSET (1..n) /\ 1..n # {}
      BY <1>1
    <3> QED BY <1>1, <1>2, <3>1, MaxIsOne
  <2> QED BY <1>2, <2>1
<1>5. Points(rows[n].score) \in Scores \cup {0}
  BY <1>1, PointsType
<1> QED BY <1>3, <1>4, <1>5 DEF ScoreOf, n

LEMMA RankOfType ==
  ASSUME NEW rows \in Seq(Submission), NEW by
  PROVE  RankOf(rows, by) \in Scores \cup {0}
<1> DEFINE n == Len(rows)
           G == GradedRows(rows)
           f == [i \in 1..n |-> Points(rows[i].score)]
<1>1. n \in Nat /\ DOMAIN rows = 1..n /\ \A i \in 1..n : rows[i] \in Submission
  OBVIOUS
<1>2. f \in [1..n -> Nat] /\ \A i \in 1..n : f[i] \in Scores \cup {0}
  BY <1>1, PointsType
<1>3. G \in SUBSET (1..n)
  BY <1>1 DEF GradedRows
<1>4. {Points(rows[i].score) : i \in G} = {f[i] : i \in G}
  BY <1>3
<1> HIDE DEF f, n, G
<1>6. G # {} => Max({f[i] : i \in G}) \in Scores \cup {0}
  BY <1>1, <1>2, <1>3, MaxIsOne
<1>7. G # {} => Max(G) \in 1..n
  BY <1>1, <1>3, LastIndex
<1>8. G # {} => Points(rows[Max(G)].score) \in Scores \cup {0}
  BY <1>1, <1>7, PointsType
<1> QED BY <1>4, <1>6, <1>8 DEF RankOf, G

\* An attempt that is not graded changes no rank.
LEMMA UngradedRank ==
  ASSUME NEW rows \in Seq(Submission), NEW row \in Submission, ~row.graded, NEW by
  PROVE  RankOf(Append(rows, row), by) = RankOf(rows, by)
<1> DEFINE more == Append(rows, row)
           G == GradedRows(rows)
<1>1. /\ Len(rows) \in Nat /\ DOMAIN rows = 1..Len(rows)
      /\ DOMAIN more = 1..(Len(rows) + 1)
      /\ \A i \in DOMAIN rows : more[i] = rows[i]
      /\ more[Len(rows) + 1] = row
  OBVIOUS
<1> HIDE DEF more
<1>2. GradedRows(more) = G
  BY <1>1 DEF GradedRows
<1>3. G \in SUBSET (1..Len(rows)) /\ \A i \in G : more[i] = rows[i]
  BY <1>1 DEF GradedRows
<1>4. {Points(more[i].score) : i \in G} = {Points(rows[i].score) : i \in G}
  BY <1>3
<1>5. G # {} => Max(G) \in G
  BY <1>1, <1>3, LastIndex
<1> HIDE DEF G
<1>6. G # {} => more[Max(G)] = rows[Max(G)]
  BY <1>3, <1>5
<1>7. RankOf(more, by) = RankOf(rows, by)
  BY <1>2, <1>4, <1>6 DEF RankOf, G
<1> QED BY <1>7 DEF more

LEMMA RankingType ==
  ASSUME subs \in [Enrolled -> Seq(Submission)]
  PROVE  Ranking \in Class
BY RankOfType DEF Ranking, Class

LEMMA ClassScoresType ==
  ASSUME stored \in [Enrolled -> [value : Scores \cup {0, Null}, late : BOOLEAN]]
  PROVE  ClassScores \in Class
BY ScoresOK DEF ClassScores, Class, Points

-----------------------------------------------------------------------------
(***************************************************************************)
(* The handlers by what they are doing.                                    *)
(***************************************************************************)
GradeHandler == [at : {"grade"}, student : Enrolled, row : 1..MaxRows,
                 score : Scores \cup {Null}, graded : BOOLEAN]
BatchHandler == [at : {"batch"}, done : SUBSET Enrolled]
DeriveHandler == [at : {"derive"}, jobs : [Enrolled -> Job], plan : Plans, silent : BOOLEAN]
SummaryHandler == [at : {"summary"}, class : Class, left : SUBSET Enrolled, late : BOOLEAN,
                   plan : Plans]
RankRuleHandler == [at : {"rankRule"}, rows : [Enrolled -> Seq(Submission)], late : BOOLEAN]
RankFillHandler == [at : {"rankFill"}, value : Class, late : BOOLEAN]
OtherHandler == {Free} \cup [at : {"settings"}, rule : Rules] \cup [at : {"find"}]

LEMMA HandlerKinds ==
  Handler = OtherHandler \cup GradeHandler \cup BatchHandler \cup DeriveHandler
              \cup SummaryHandler \cup RankRuleHandler \cup RankFillHandler
BY DEF Handler, OtherHandler, GradeHandler, BatchHandler, DeriveHandler, SummaryHandler,
       RankRuleHandler, RankFillHandler

LEMMA KindAt ==
  /\ \A q \in GradeHandler : q.at = "grade"
  /\ \A q \in BatchHandler : q.at = "batch"
  /\ \A q \in DeriveHandler : q.at = "derive"
  /\ \A q \in SummaryHandler : q.at = "summary"
  /\ \A q \in RankRuleHandler : q.at = "rankRule"
  /\ \A q \in RankFillHandler : q.at = "rankFill"
  /\ \A q \in OtherHandler : q = Free \/ q.at \in {"settings", "find"}
  /\ Free.at = "idle"
BY DEF OtherHandler, GradeHandler, BatchHandler, DeriveHandler, SummaryHandler,
       RankRuleHandler, RankFillHandler, Free

LEMMA HandlerAt ==
  ASSUME NEW q \in Handler
  PROVE  /\ q.at = "grade" => q \in GradeHandler
         /\ q.at = "batch" => q \in BatchHandler
         /\ q.at = "derive" => q \in DeriveHandler
         /\ q.at = "summary" => q \in SummaryHandler
         /\ q.at = "rankRule" => q \in RankRuleHandler
         /\ q.at = "rankFill" => q \in RankFillHandler
         /\ q.at = "settings" => q.rule \in Rules
         /\ q.at = "idle" => q = Free
         /\ q.at \in {"idle", "settings", "find", "grade", "batch", "derive", "summary",
                      "rankRule", "rankFill"}
<1>1. q.at = "settings" => q.rule \in Rules
  <2>1. CASE q \in OtherHandler
    BY <2>1 DEF OtherHandler, Free
  <2> QED BY <2>1, HandlerKinds, KindAt
<1> QED BY <1>1, HandlerKinds, KindAt

\* Nothing is owed by a handler of these kinds.
LEMMA Unburdened ==
  ASSUME NEW q, q.at \notin {"batch", "find", "derive", "summary"}
  PROVE  /\ \A s \in Enrolled : ~Recomputes(q, s) /\ ~Sums(q, s)
         /\ ~Drops(q)
BY DEF Recomputes, Sums, Drops, OwesOf

LEMMA FreeIsSound ==
  /\ Free \in Handler /\ Sound(Free) /\ Free.at = "idle"
BY DEF Handler, Free, Sound, RowThere, JobsSound, Planned, ClassSound, RankSound

LEMMA FreeIsSoundNext == Sound(Free)'
BY DEF Free, Sound, RowThere, JobsSound, Planned, ClassSound, RankSound

\* The explanations a handler gives survive.
Keeps(a, b) ==
    /\ \A s \in Enrolled : /\ Recomputes(a, s) => Recomputes(b, s)
                           /\ Sums(a, s) => Sums(b, s)
    /\ Drops(a) => Drops(b)

LEMMA JobKinds ==
  ASSUME NEW job \in Job
  PROVE  /\ job.at \in {"none", "todo", "rule", "value"}
         /\ job.at = "rule" => job \in [at : {"rule"}, rule : Rules, late : BOOLEAN]
         /\ job.at = "value" => job \in [at : {"value"}, value : Scores \cup {0}, late : BOOLEAN]
         /\ job = NoJob <=> job.at = "none"
BY DEF Job, NoJob

LEMMA LateJob ==
  ASSUME NEW job \in Job, job.at \in {"rule", "value"}
  PROVE  LET late == [job EXCEPT !.late = TRUE]
         IN late \in Job /\ late.at = job.at /\ late.late /\ late # NoJob
<1>1. CASE job.at = "rule"
  BY <1>1, JobKinds DEF Job, NoJob
<1>2. CASE job.at = "value"
  BY <1>2, JobKinds DEF Job, NoJob
<1> QED BY <1>1, <1>2

LEMMA LateJobsAre ==
  ASSUME NEW q \in DeriveHandler, NEW who, NEW steps \in SUBSET {"rule", "value"}
  PROVE  LET q2 == LateJobs(q, who, steps)
         IN /\ q2 \in DeriveHandler /\ q2.plan = q.plan /\ q2.silent = q.silent
            /\ \A s \in Enrolled :
                 /\ q2.jobs[s].at = q.jobs[s].at
                 /\ q2.jobs[s] = NoJob <=> q.jobs[s] = NoJob
                 /\ IF s \in who /\ q.jobs[s].at \in steps THEN q2.jobs[s].late
                    ELSE q2.jobs[s] = q.jobs[s]
<1> DEFINE jobs == [s \in Enrolled |->
                      IF s \in who /\ q.jobs[s].at \in steps
                      THEN [q.jobs[s] EXCEPT !.late = TRUE] ELSE q.jobs[s]]
           q2 == LateJobs(q, who, steps)
<1>1. q.jobs \in [Enrolled -> Job]
  BY DEF DeriveHandler
<1>2. ASSUME NEW s \in Enrolled
      PROVE  /\ jobs[s] \in Job /\ jobs[s].at = q.jobs[s].at
             /\ jobs[s] = NoJob <=> q.jobs[s] = NoJob
             /\ IF s \in who /\ q.jobs[s].at \in steps THEN jobs[s].late
                ELSE jobs[s] = q.jobs[s]
  <2>1. q.jobs[s] \in Job
    BY <1>1
  <2>2. CASE s \in who /\ q.jobs[s].at \in steps
    <3>1. jobs[s] = [q.jobs[s] EXCEPT !.late = TRUE] /\ q.jobs[s].at \in {"rule", "value"}
      BY <2>2
    <3>2. q.jobs[s] # NoJob
      BY <3>1 DEF NoJob
    <3> QED BY <2>1, <2>2, <3>1, <3>2, LateJob
  <2>3. CASE ~(s \in who /\ q.jobs[s].at \in steps)
    BY <2>1, <2>3
  <2> QED BY <2>2, <2>3
<1>3. jobs \in [Enrolled -> Job] /\ q2 = [q EXCEPT !.jobs = jobs]
  BY <1>2 DEF LateJobs
<1> HIDE DEF jobs
<1>4. q2 \in DeriveHandler /\ q2.plan = q.plan /\ q2.silent = q.silent /\ q2.jobs = jobs
  BY <1>3 DEF DeriveHandler
<1> QED BY <1>2, <1>4 DEF q2

LEMMA SameJobsKept ==
  ASSUME NEW q \in DeriveHandler, NEW q2 \in DeriveHandler,
         q2.plan = q.plan, q2.silent = q.silent,
         \A s \in Enrolled : q2.jobs[s] = NoJob <=> q.jobs[s] = NoJob
  PROVE  Keeps(q, q2) /\ (Planned(q) => Planned(q2))
<1>1. q.at = "derive" /\ q2.at = "derive"
  BY KindAt
<1> QED BY <1>1 DEF Keeps, Recomputes, Sums, Drops, OwesOf, Planned

\* A result that becomes late.
LEMMA LateRank ==
  ASSUME NEW q \in RankRuleHandler \cup RankFillHandler, NEW q2, q2 = [q EXCEPT !.late = TRUE]
  PROVE  /\ q2 \in Handler /\ Keeps(q, q2) /\ Sound(q2) /\ Sound(q2)'
         /\ q2.at = q.at /\ q2.late
<1>1. q2 \in RankRuleHandler \cup RankFillHandler /\ q2.at = q.at /\ q2.late
  BY DEF RankRuleHandler, RankFillHandler
<1>2. q.at \in {"rankRule", "rankFill"}
  BY KindAt
<1>3. Keeps(q, q2)
  BY <1>1, <1>2, Unburdened DEF Keeps
<1> QED BY <1>1, <1>2, <1>3, HandlerKinds
        DEF Sound, RowThere, JobsSound, Planned, ClassSound, RankSound

\* The source of the students in who changes, or is deleted.
LEMMA SubsOvertake ==
  ASSUME NEW q \in Handler, Sound(q), NEW who \in SUBSET Enrolled,
         \A s \in Enrolled \ who : subs'[s] = subs[s],
         present' => present /\ \A s \in Enrolled : DOMAIN subs[s] \subseteq DOMAIN subs'[s],
         rule' = rule, ClassScores' = ClassScores,
         NEW q2, q2 = OvertakenBySubs(q, who)
  PROVE  q2 \in Handler /\ Sound(q2)' /\ Keeps(q, q2)
<1>1. CASE q.at = "derive"
  <2>1. q \in DeriveHandler /\ q2 = LateJobs(q, who, {"value"})
    BY <1>1, HandlerAt DEF OvertakenBySubs
  <2>2. /\ q2 \in DeriveHandler /\ q2.plan = q.plan /\ q2.silent = q.silent
        /\ \A s \in Enrolled :
             /\ q2.jobs[s].at = q.jobs[s].at
             /\ q2.jobs[s] = NoJob <=> q.jobs[s] = NoJob
             /\ IF s \in who /\ q.jobs[s].at \in {"value"} THEN q2.jobs[s].late
                ELSE q2.jobs[s] = q.jobs[s]
    BY <2>1, LateJobsAre
  <2>3. Keeps(q, q2) /\ Planned(q2)
    BY <2>1, <2>2, SameJobsKept DEF Sound
  <2>4. q2.at = "derive" /\ q2 \in Handler
    BY <2>2, KindAt, HandlerKinds
  <2>5. ASSUME NEW s \in Enrolled PROVE JobSound(s, q2.jobs[s])'
    <3>1. JobSound(s, q.jobs[s])
      BY <1>1 DEF Sound, JobsSound
    <3>2. CASE s \in who /\ q.jobs[s].at = "value"
      BY <2>2, <3>2 DEF JobSound
    <3>3. CASE ~(s \in who /\ q.jobs[s].at = "value")
      BY <2>2, <3>1, <3>3 DEF JobSound
    <3> QED BY <3>2, <3>3
  <2>6. JobsSound(q2)'
    BY <2>5 DEF JobsSound
  <2> QED BY <2>3, <2>4, <2>6 DEF Sound, RowThere, Planned, ClassSound, RankSound, OwesOf
<1>2. CASE q.at \in {"rankRule", "rankFill"}
  <2>1. q \in RankRuleHandler \cup RankFillHandler /\ q2 = [q EXCEPT !.late = TRUE]
    BY <1>2, HandlerAt DEF OvertakenBySubs
  <2> QED BY <2>1, LateRank
<1>3. CASE q.at \notin {"derive", "rankRule", "rankFill"}
  <2>1. q2 = q
    BY <1>3 DEF OvertakenBySubs
  <2>2. RowThere(q)'
    <3>1. q.at = "grade" => q.student \in Enrolled
      BY HandlerAt DEF GradeHandler
    <3> QED BY <3>1 DEF Sound, RowThere
  <2>3. ClassSound(q)'
    BY DEF Sound, ClassSound
  <2> QED BY <1>3, <2>1, <2>2, <2>3 DEF Sound, JobsSound, Planned, RankSound, Keeps
<1> QED BY <1>1, <1>2, <1>3

\* The rule of the assignment changes, or may.
LEMMA RuleOvertake ==
  ASSUME NEW q \in Handler, Sound(q), NEW q2, q2 = OvertakenByRule(q)
  PROVE  /\ q2 \in Handler /\ Keeps(q, q2) /\ Sound(q2)
         /\ UNCHANGED <<present, subs, stored>> => Sound(q2)'
<1>1. CASE q.at = "derive"
  <2>1. q \in DeriveHandler /\ q2 = LateJobs(q, Enrolled, {"rule", "value"})
    BY <1>1, HandlerAt DEF OvertakenByRule
  <2>2. /\ q2 \in DeriveHandler /\ q2.plan = q.plan /\ q2.silent = q.silent
        /\ \A s \in Enrolled :
             /\ q2.jobs[s].at = q.jobs[s].at
             /\ q2.jobs[s] = NoJob <=> q.jobs[s] = NoJob
             /\ IF q.jobs[s].at \in {"rule", "value"} THEN q2.jobs[s].late
                ELSE q2.jobs[s] = q.jobs[s]
    BY <2>1, LateJobsAre
  <2>3. Keeps(q, q2) /\ Planned(q2)
    BY <2>1, <2>2, SameJobsKept DEF Sound
  <2>4. q2.at = "derive" /\ q2 \in Handler
    BY <2>2, KindAt, HandlerKinds
  <2>5. JobsSound(q2) /\ JobsSound(q2)'
    BY <2>2 DEF JobsSound, JobSound
  <2> QED BY <2>3, <2>4, <2>5 DEF Sound, RowThere, Planned, ClassSound, RankSound, OwesOf
<1>2. CASE q.at = "rankFill"
  <2>1. q \in RankRuleHandler \cup RankFillHandler /\ q2 = [q EXCEPT !.late = TRUE]
    BY <1>2, HandlerAt DEF OvertakenByRule
  <2> QED BY <2>1, LateRank
<1>3. CASE q.at \notin {"derive", "rankFill"}
  <2>1. q2 = q
    BY <1>3 DEF OvertakenByRule
  <2>2. UNCHANGED <<present, subs, stored>> => RowThere(q)' /\ ClassSound(q)' /\ RankSound(q)'
    BY <1>3 DEF Sound, RowThere, ClassSound, RankSound, ClassScores
  <2> QED BY <1>3, <2>1, <2>2 DEF Sound, JobsSound, Planned, Keeps
<1> QED BY <1>1, <1>2, <1>3

\* Nothing a handler has read changes.
LEMMA StillSound ==
  ASSUME NEW q, Sound(q), UNCHANGED source,
         q.at = "summary" => q.late \/ ClassScores' = ClassScores
  PROVE  Sound(q)'
<1>1. Ranking' = Ranking
  BY DEF Ranking, source
<1>2. RowThere(q)' /\ JobsSound(q)' /\ Planned(q)' /\ ClassSound(q)' /\ RankSound(q)'
  BY <1>1 DEF Sound, RowThere, JobsSound, JobSound, Planned, ClassSound, RankSound, OwesOf, source
<1> QED BY <1>2 DEF Sound

-----------------------------------------------------------------------------
(***************************************************************************)
(* What a step has to show of the explanations.                            *)
(***************************************************************************)
LEMMA ExplainedAfter ==
  ASSUME Explained, NEW r \in Handlers,
         \A o \in Handlers \ {r} : Keeps(doing[o], doing'[o]),
         \A s \in Enrolled :
            Stale(s)' => Recomputes(doing'[r], s) \/ (Stale(s) /\ ~Recomputes(doing[r], s)),
         \A s \in Enrolled :
            Behind(s)' => Sums(doing'[r], s) \/ (Behind(s) /\ ~Sums(doing[r], s)),
         Outdated' => Drops(doing'[r]) \/ (Outdated /\ ~Drops(doing[r]))
  PROVE  Explained'
<1>1. ASSUME NEW s \in Enrolled, Stale(s)'
      PROVE  \E o \in Handlers : Recomputes(doing'[o], s)
  BY <1>1 DEF Explained, Keeps
<1>2. ASSUME NEW s \in Enrolled, Behind(s)'
      PROVE  \E o \in Handlers : Sums(doing'[o], s)
  BY <1>2 DEF Explained, Keeps
<1>3. ASSUME Outdated'
      PROVE  \E o \in Handlers : Drops(doing'[o])
  BY <1>3 DEF Explained, Keeps
<1>4. /\ \A o \in Handlers, s \in Enrolled : Recomputes(doing[o], s)' <=> Recomputes(doing'[o], s)
      /\ \A o \in Handlers, s \in Enrolled : Sums(doing[o], s)' <=> Sums(doing'[o], s)
      /\ \A o \in Handlers : Drops(doing[o])' <=> Drops(doing'[o])
  BY DEF Recomputes, Sums, Drops, OwesOf
<1> QED BY <1>1, <1>2, <1>3, <1>4 DEF Explained

\* A step of one handler that changes neither the source nor what is derived.
LEMMA QuietStep ==
  ASSUME ScoreInv, NEW r \in Handlers, NEW mine,
         doing' = [doing EXCEPT ![r] = mine],
         UNCHANGED <<source, stored, summary, cache>>, writes' \in 0..MaxWrites,
         mine \in Handler, Sound(mine),
         \A s \in Enrolled :
            /\ Recomputes(doing[r], s) => Recomputes(mine, s) \/ subs[s] = <<>>
                                            \/ stored[s].value = ScoreOf(subs[s], rule)
            /\ Sums(doing[r], s) => Sums(mine, s),
         Drops(doing[r]) => Drops(mine)
  PROVE  ScoreInv'
<1> USE DEF ScoreInv, ScoreTypeOK, source
<1>1. /\ doing'[r] = mine /\ \A o \in Handlers \ {r} : doing'[o] = doing[o]
      /\ doing' \in [Handlers -> Handler]
  OBVIOUS
<1>2. ScoreTypeOK'
  BY <1>1
<1>3. ClassScores' = ClassScores /\ Ranking' = Ranking
  BY DEF ClassScores, Ranking
<1>4. \A o \in Handlers : Sound(doing[o])'
  <2>1. \A o \in Handlers : Sound(doing'[o])
    BY <1>1
  <2> SUFFICES ASSUME NEW o \in Handlers PROVE Sound(doing[o])'
    OBVIOUS
  <2>2. ASSUME NEW q, Sound(q), doing'[o] = q PROVE Sound(doing[o])'
    <3>1. Sound(q)'
      BY <1>3, <2>2, StillSound
    <3> QED BY <2>2, <3>1 DEF Sound, RowThere, JobsSound, JobSound, Planned, ClassSound,
                              RankSound, OwesOf
  <2> QED BY <2>1, <2>2
<1>5. \A s \in Enrolled : (Stale(s)' <=> Stale(s)) /\ (Behind(s)' <=> Behind(s))
  BY <1>3 DEF Stale, Behind
<1>6. Outdated' <=> Outdated
  BY <1>3 DEF Outdated
<1>7. Explained'
  <2>1. \A o \in Handlers \ {r} : Keeps(doing[o], doing'[o])
    BY <1>1 DEF Keeps
  <2>2. \A s \in Enrolled : Stale(s) => subs[s] # <<>> /\ stored[s].value # ScoreOf(subs[s], rule)
    BY DEF Stale
  <2>3. \A s \in Enrolled :
            Stale(s)' => Recomputes(doing'[r], s) \/ (Stale(s) /\ ~Recomputes(doing[r], s))
    BY <1>1, <1>5, <2>2
  <2>4. \A s \in Enrolled :
            Behind(s)' => Sums(doing'[r], s) \/ (Behind(s) /\ ~Sums(doing[r], s))
    BY <1>1, <1>5
  <2>5. Outdated' => Drops(doing'[r]) \/ (Outdated /\ ~Drops(doing[r]))
    BY <1>1, <1>6
  <2> QED BY <2>1, <2>3, <2>4, <2>5, ExplainedAfter
<1> QED BY <1>2, <1>4, <1>7

-----------------------------------------------------------------------------
(***************************************************************************)
(* Plans and the handlers that follow them.                                *)
(***************************************************************************)
Has(plan, what) == \E i \in DOMAIN plan : plan[i] = what

LEMMA PlansHave ==
  /\ \A what : ~Has(<<>>, what)
  /\ \A a, what : Has(<<a>>, what) <=> a = what
  /\ \A a, b, what : Has(<<a, b>>, what) <=> a = what \/ b = what
BY DEF Has

LEMMA PlanTail ==
  ASSUME NEW plan \in Plans, plan # <<>>
  PROVE  /\ Tail(plan) \in Plans
         /\ \A what : Has(plan, what) <=> Head(plan) = what \/ Has(Tail(plan), what)
<1>1. CASE plan = <<"summary">>
  <2>1. Tail(plan) = <<>> /\ Head(plan) = "summary"
    BY <1>1
  <2> QED BY <1>1, <2>1, PlansHave DEF Plans
<1>2. CASE plan = <<"invalidate">>
  <2>1. Tail(plan) = <<>> /\ Head(plan) = "invalidate"
    BY <1>2
  <2> QED BY <1>2, <2>1, PlansHave DEF Plans
<1>3. CASE plan = <<"summary", "invalidate">>
  <2>1. Tail(plan) = <<"invalidate">> /\ Head(plan) = "summary"
    BY <1>3
  <2> QED BY <1>3, <2>1, PlansHave DEF Plans
<1>4. CASE plan = <<"invalidate", "summary">>
  <2>1. Tail(plan) = <<"summary">> /\ Head(plan) = "invalidate"
    BY <1>4
  <2> QED BY <1>4, <2>1, PlansHave DEF Plans
<1> QED BY <1>1, <1>2, <1>3, <1>4 DEF Plans

LEMMA PlansOf ==
  /\ SubmitPlan(TRUE) \in Plans /\ SubmitPlan(FALSE) \in Plans
  /\ GradePlan \in Plans /\ RulePlan \in Plans
  /\ Has(SubmitPlan(TRUE), "summary") /\ Has(SubmitPlan(TRUE), "invalidate")
  /\ Has(GradePlan, "summary") /\ Has(GradePlan, "invalidate")
BY PlansHave DEF SubmitPlan, GradePlan, RulePlan, Plans

LEMMA DeriveIs ==
  ASSUME NEW who \in SUBSET Enrolled, NEW plan \in Plans, NEW silent \in BOOLEAN,
         who = {} \/ silent \/ Has(plan, "summary"),
         NEW d, d = Derive(who, plan, silent)
  PROVE  /\ d \in Handler /\ Sound(d) /\ Sound(d)' /\ d.at = "derive" /\ d.plan = plan
         /\ \A s \in Enrolled : Recomputes(d, s) <=> s \in who
         /\ \A s \in Enrolled : Sums(d, s) <=> Has(plan, "summary")
         /\ Drops(d) <=> Has(plan, "invalidate")
<1>1. ToDo # NoJob /\ ToDo \in Job /\ NoJob \in Job /\ ToDo.at = "todo" /\ NoJob.at = "none"
  BY DEF ToDo, NoJob, Job
<1>2. /\ d \in DeriveHandler /\ d.at = "derive" /\ d.plan = plan /\ d.silent = silent
      /\ \A s \in Enrolled : d.jobs[s] = IF s \in who THEN ToDo ELSE NoJob
  BY <1>1 DEF Derive, DeriveHandler
<1>3. \A what : OwesOf(d, what) <=> Has(plan, what)
  BY <1>2 DEF OwesOf, Has
<1>4. JobsSound(d) /\ JobsSound(d)'
  BY <1>1, <1>2 DEF JobsSound, JobSound
<1>5. Planned(d)
  BY <1>1, <1>2, <1>3 DEF Planned
<1>6. Sound(d) /\ Sound(d)'
  BY <1>2, <1>4, <1>5 DEF Sound, RowThere, Planned, ClassSound, RankSound, OwesOf
<1> QED BY <1>1, <1>2, <1>3, <1>6, HandlerKinds DEF Recomputes, Sums, Drops

LEMMA FollowIs ==
  ASSUME NEW plan \in Plans, NEW d, d = Follow(plan)
  PROVE  /\ d \in Handler /\ Sound(d) /\ Sound(d)'
         /\ \A s \in Enrolled : Sums(d, s) <=> Has(plan, "summary")
         /\ Drops(d) <=> Has(plan, "invalidate")
<1>1. CASE plan = <<>>
  BY <1>1, FreeIsSound, FreeIsSoundNext, Unburdened, PlansHave DEF Follow
<1>2. CASE plan # <<>>
  <2>1. d = Derive({}, plan, FALSE)
    BY <1>2 DEF Follow
  <2> QED BY <2>1, DeriveIs
<1> QED BY <1>1, <1>2

-----------------------------------------------------------------------------
(***************************************************************************)
(* Steps of a handler that only reads.                                     *)
(***************************************************************************)
LEMMA StartsFree ==
  ASSUME ScoreInv, NEW r \in Handlers, Starts(r)
  PROVE  /\ doing[r] = Free /\ present /\ writes' \in 0..MaxWrites
         /\ \A s \in Enrolled : ~Recomputes(doing[r], s) /\ ~Sums(doing[r], s)
         /\ ~Drops(doing[r])
<1>1. doing[r] = Free /\ present /\ writes' \in 0..MaxWrites
  BY ScoresOK DEF Starts, ScoreInv, ScoreTypeOK
<1> QED BY <1>1, FreeIsSound, Unburdened

LEMMA GradeReadStep ==
  ASSUME ScoreInv, NEW r \in Handlers, NEW s \in Enrolled, NEW i \in 1..MaxRows,
         NEW score \in Scores \cup {Null}, NEW graded \in BOOLEAN,
         GradeRead(r, s, i, score, graded)
  PROVE  ScoreInv'
<1> DEFINE mine == [at |-> "grade", student |-> s, row |-> i, graded |-> graded,
                    score |-> IF score = Null THEN subs[s][i].score ELSE score]
<1>1. /\ Starts(r) /\ i \in DOMAIN subs[s] /\ doing' = [doing EXCEPT ![r] = mine]
      /\ UNCHANGED <<source, stored, summary, cache>>
  BY DEF GradeRead
<1>2. subs[s][i] \in Submission
  BY <1>1 DEF ScoreInv, ScoreTypeOK
<1>3. mine \in GradeHandler
  BY <1>2 DEF GradeHandler, Submission
<1>4. mine \in Handler /\ mine.at = "grade"
  BY <1>3, HandlerKinds
<1>5. Sound(mine)
  BY <1>1 DEF Sound, RowThere, JobsSound, Planned, ClassSound, RankSound
<1> HIDE DEF mine
<1> QED BY <1>1, <1>4, <1>5, StartsFree, QuietStep

LEMMA BatchIsSound ==
  ASSUME NEW done \in SUBSET Enrolled, NEW mine, mine = [at |-> "batch", done |-> done]
  PROVE  /\ mine \in Handler /\ Sound(mine) /\ Sound(mine)'
         /\ \A s \in Enrolled : (Recomputes(mine, s) <=> s \in done) /\ ~Sums(mine, s)
         /\ Drops(mine) <=> done # {}
<1>1. mine \in BatchHandler /\ mine.at = "batch" /\ mine.done = done
  BY DEF BatchHandler
<1> QED BY <1>1, HandlerKinds
        DEF Sound, RowThere, JobsSound, Planned, ClassSound, RankSound, Recomputes, Sums,
            Drops, OwesOf

LEMMA BatchStartStep ==
  ASSUME ScoreInv, NEW r \in Handlers, BatchStart(r)
  PROVE  ScoreInv'
<1> DEFINE mine == [at |-> "batch", done |-> {}]
<1>1. /\ Starts(r) /\ doing' = [doing EXCEPT ![r] = mine]
      /\ UNCHANGED <<source, stored, summary, cache>>
  BY DEF BatchStart
<1>2. mine \in Handler /\ Sound(mine)
  BY BatchIsSound
<1> HIDE DEF mine
<1> QED BY <1>1, <1>2, StartsFree, QuietStep

LEMMA BatchEndStep ==
  ASSUME ScoreInv, NEW r \in Handlers, BatchEnd(r)
  PROVE  ScoreInv'
<1> DEFINE done == doing[r].done
           mine == IF done = {} THEN Free ELSE Derive(done, GradePlan, FALSE)
<1>1. /\ doing[r].at = "batch" /\ doing' = [doing EXCEPT ![r] = mine]
      /\ UNCHANGED <<source, stored, summary, cache, writes>>
  BY DEF BatchEnd
<1>2. doing[r] \in BatchHandler /\ doing[r] \in Handler
  BY <1>1, HandlerAt DEF ScoreInv, ScoreTypeOK
<1>3. done \in SUBSET Enrolled /\ doing[r] = [at |-> "batch", done |-> done]
  BY <1>2 DEF BatchHandler
<1>4. /\ \A s \in Enrolled : (Recomputes(doing[r], s) <=> s \in done) /\ ~Sums(doing[r], s)
      /\ Drops(doing[r]) <=> done # {}
  BY <1>3, BatchIsSound
<1>5. /\ mine \in Handler /\ Sound(mine)
      /\ done # {} => Drops(mine) /\ \A s \in Enrolled : Recomputes(mine, s) <=> s \in done
  <2>1. CASE done = {}
    BY <2>1, FreeIsSound
  <2>2. CASE done # {}
    <3>1. mine = Derive(done, GradePlan, FALSE)
      BY <2>2
    <3> HIDE DEF mine, done
    <3> QED BY <1>3, <2>2, <3>1, DeriveIs, PlansOf
  <2> QED BY <2>1, <2>2
<1>6. writes' \in 0..MaxWrites
  BY <1>1 DEF ScoreInv, ScoreTypeOK
<1> HIDE DEF mine, done
<1> QED BY <1>1, <1>4, <1>5, <1>6, QuietStep

LEMMA RuleReadStep ==
  ASSUME ScoreInv, NEW r \in Handlers, NEW by \in Rules, RuleRead(r, by)
  PROVE  ScoreInv'
<1> DEFINE mine == [at |-> "settings", rule |-> by]
<1>1. /\ Starts(r) /\ doing' = [doing EXCEPT ![r] = mine]
      /\ UNCHANGED <<source, stored, summary, cache>>
  BY DEF RuleRead
<1>2. mine \in Handler /\ mine.at = "settings"
  BY DEF Handler
<1>3. Sound(mine)
  BY <1>2 DEF Sound, RowThere, JobsSound, Planned, ClassSound, RankSound
<1> HIDE DEF mine
<1> QED BY <1>1, <1>2, <1>3, StartsFree, QuietStep

LEMMA RuleFindStep ==
  ASSUME ScoreInv, NEW r \in Handlers, RuleFind(r)
  PROVE  ScoreInv'
<1> DEFINE who == {s \in Enrolled : subs[s] # <<>>}
           mine == Derive(who, RulePlan, TRUE)
<1>1. /\ doing[r].at = "find" /\ doing' = [doing EXCEPT ![r] = mine]
      /\ UNCHANGED <<source, stored, summary, cache, writes>>
  BY DEF RuleFind
<1>2. who \in SUBSET Enrolled
  OBVIOUS
<1>3. /\ mine \in Handler /\ Sound(mine)
      /\ \A s \in Enrolled : Recomputes(mine, s) <=> s \in who
  <2> HIDE DEF who
  <2> QED BY <1>2, DeriveIs, PlansOf
<1>4. (\A s \in Enrolled : ~Sums(doing[r], s)) /\ ~Drops(doing[r])
  BY <1>1 DEF Sums, Drops, OwesOf
<1>5. writes' \in 0..MaxWrites
  BY <1>1 DEF ScoreInv, ScoreTypeOK
<1> HIDE DEF mine
<1> QED BY <1>1, <1>3, <1>4, <1>5, QuietStep

LEMMA JobGoesOn ==
  ASSUME NEW q \in DeriveHandler, Sound(q), NEW s \in Enrolled, q.jobs[s] # NoJob,
         NEW job \in Job, NEW q2, q2 = [q EXCEPT !.jobs[s] = job]
  PROVE  /\ q2 \in Handler /\ q2.at = "derive" /\ q2.plan = q.plan /\ q2.silent = q.silent
         /\ \A t \in Enrolled : q2.jobs[t] = IF t = s THEN job ELSE q.jobs[t]
         /\ JobSound(s, job) => Sound(q2)
         /\ \A t \in Enrolled : /\ t # s => (Recomputes(q2, t) <=> Recomputes(q, t))
                                /\ Sums(q2, t) <=> Sums(q, t)
         /\ Recomputes(q2, s) <=> job # NoJob
         /\ Drops(q2) <=> Drops(q)
<1>1. q.at = "derive" /\ q.jobs \in [Enrolled -> Job]
  BY DEF DeriveHandler
<1>2. /\ q2 \in DeriveHandler /\ q2.at = "derive" /\ q2.plan = q.plan /\ q2.silent = q.silent
      /\ \A t \in Enrolled : q2.jobs[t] = IF t = s THEN job ELSE q.jobs[t]
  BY <1>1 DEF DeriveHandler
<1>3. \A what : OwesOf(q2, what) <=> OwesOf(q, what)
  BY <1>1, <1>2 DEF OwesOf
<1>4. Planned(q2)
  BY <1>1, <1>2, <1>3 DEF Sound, Planned
<1>5. JobSound(s, job) => JobsSound(q2)
  BY <1>1, <1>2 DEF Sound, JobsSound
<1>6. JobSound(s, job) => Sound(q2)
  BY <1>2, <1>4, <1>5 DEF Sound, RowThere, ClassSound, RankSound
<1> QED BY <1>1, <1>2, <1>3, <1>6, HandlerKinds DEF Recomputes, Sums, Drops

LEMMA JobReads ==
  ASSUME ScoreInv, NEW r \in Handlers, NEW s \in Enrolled, NEW job \in Job,
         doing[r].at = "derive", doing[r].jobs[s] # NoJob,
         doing' = [doing EXCEPT ![r].jobs[s] = job],
         UNCHANGED <<source, stored, summary, cache, writes>>,
         JobSound(s, job), job # NoJob \/ subs[s] = <<>>
  PROVE  ScoreInv'
<1> DEFINE q == doing[r]
           q2 == [q EXCEPT !.jobs[s] = job]
<1>1. q \in Handler /\ Sound(q) /\ writes' \in 0..MaxWrites
  BY DEF ScoreInv, ScoreTypeOK
<1>2. q \in DeriveHandler
  BY <1>1, HandlerAt
<1>3. doing' = [doing EXCEPT ![r] = q2]
  BY DEF ScoreInv, ScoreTypeOK
<1>4. /\ q2 \in Handler /\ Sound(q2)
      /\ \A t \in Enrolled : /\ t # s => (Recomputes(q2, t) <=> Recomputes(q, t))
                             /\ Sums(q2, t) <=> Sums(q, t)
      /\ Recomputes(q2, s) <=> job # NoJob
      /\ Drops(q2) <=> Drops(q)
  <2> HIDE DEF q
  <2> QED BY <1>1, <1>2, JobGoesOn DEF q
<1> HIDE DEF q2
<1> QED BY <1>1, <1>3, <1>4, QuietStep

LEMMA JobRuleStep ==
  ASSUME ScoreInv, NEW r \in Handlers, NEW s \in Enrolled, JobRule(r, s)
  PROVE  ScoreInv'
<1> DEFINE job == IF present THEN [at |-> "rule", rule |-> rule, late |-> FALSE] ELSE NoJob
<1>1. /\ doing[r].at = "derive" /\ doing[r].jobs[s].at = "todo"
      /\ doing' = [doing EXCEPT ![r].jobs[s] = job]
      /\ UNCHANGED <<source, stored, summary, cache, writes>>
  BY DEF JobRule, Working
<1>2. job \in Job /\ JobSound(s, job)
  BY DEF ScoreInv, ScoreTypeOK, Job, NoJob, JobSound
<1>3. job # NoJob \/ subs[s] = <<>>
  BY DEF ScoreInv, NoJob
<1>4. doing[r].jobs[s] # NoJob
  BY <1>1 DEF NoJob
<1> HIDE DEF job
<1> QED BY <1>1, <1>2, <1>3, <1>4, JobReads

LEMMA JobRowsStep ==
  ASSUME ScoreInv, NEW r \in Handlers, NEW s \in Enrolled, JobRows(r, s)
  PROVE  ScoreInv'
<1> DEFINE old == doing[r].jobs[s]
           job == IF subs[s] = <<>> THEN NoJob
                  ELSE [at |-> "value", value |-> ScoreOf(subs[s], old.rule),
                        late |-> old.late]
<1>1. /\ doing[r].at = "derive" /\ old.at = "rule"
      /\ doing' = [doing EXCEPT ![r].jobs[s] = job]
      /\ UNCHANGED <<source, stored, summary, cache, writes>>
  BY DEF JobRows, Working
<1>2. doing[r] \in Handler /\ Sound(doing[r]) /\ subs[s] \in Seq(Submission)
  BY DEF ScoreInv, ScoreTypeOK
<1>3. old \in Job
  BY <1>1, <1>2, HandlerAt DEF DeriveHandler
<1>4. old.late \in BOOLEAN /\ (old.late \/ old.rule = rule)
  BY <1>1, <1>2, <1>3, JobKinds DEF Sound, JobsSound, JobSound
<1>5. job \in Job /\ JobSound(s, job)
  <2>1. subs[s] # <<>> => ScoreOf(subs[s], old.rule) \in Scores \cup {0}
    BY <1>2, ScoreOfType
  <2> QED BY <1>4, <2>1 DEF Job, NoJob, JobSound
<1>6. job # NoJob \/ subs[s] = <<>>
  BY DEF NoJob
<1>7. old # NoJob
  BY <1>1 DEF NoJob
<1> HIDE DEF job
<1> QED BY <1>1, <1>5, <1>6, <1>7, JobReads

\* Every recomputation of the handler has ended.
LEMMA DerivedIs ==
  ASSUME ScoreInv, NEW r \in Handlers, Derived(r)
  PROVE  LET q == doing[r] IN
         /\ q \in DeriveHandler /\ q.at = "derive" /\ q.plan \in Plans
         /\ \A s \in Enrolled : ~Recomputes(q, s) /\ (Sums(q, s) <=> Has(q.plan, "summary"))
         /\ Drops(q) <=> Has(q.plan, "invalidate")
<1>1. doing[r] \in DeriveHandler /\ doing[r].at = "derive"
  BY HandlerAt DEF ScoreInv, ScoreTypeOK, Derived
<1>2. doing[r].plan \in Plans
  BY <1>1 DEF DeriveHandler
<1> QED BY <1>1, <1>2 DEF Derived, Recomputes, Sums, Drops, OwesOf, Has

LEMMA DeriveEndStep ==
  ASSUME ScoreInv, NEW r \in Handlers, DeriveEnd(r)
  PROVE  ScoreInv'
<1>1. /\ Derived(r) /\ doing[r].plan = <<>> /\ doing' = [doing EXCEPT ![r] = Free]
      /\ UNCHANGED <<source, stored, summary, cache, writes>>
  BY DEF DeriveEnd
<1>2. (\A s \in Enrolled : ~Recomputes(doing[r], s) /\ ~Sums(doing[r], s)) /\ ~Drops(doing[r])
  BY <1>1, DerivedIs, PlansHave
<1>3. writes' \in 0..MaxWrites
  BY <1>1 DEF ScoreInv, ScoreTypeOK
<1> QED BY <1>1, <1>2, <1>3, FreeIsSound, QuietStep

LEMMA SummaryReadStep ==
  ASSUME ScoreInv, NEW r \in Handlers, SummaryRead(r)
  PROVE  ScoreInv'
<1> DEFINE plan == doing[r].plan
           mine == [at |-> "summary", class |-> ClassScores, left |-> Enrolled,
                    late |-> FALSE, plan |-> Tail(plan)]
<1>1. /\ Derived(r) /\ plan # <<>> /\ Head(plan) = "summary"
      /\ doing' = [doing EXCEPT ![r] = mine]
      /\ UNCHANGED <<source, stored, summary, cache, writes>>
  BY DEF SummaryRead
<1>2. /\ plan \in Plans
      /\ \A s \in Enrolled : ~Recomputes(doing[r], s)
      /\ Drops(doing[r]) <=> Has(plan, "invalidate")
  BY <1>1, DerivedIs
<1>3. Tail(plan) \in Plans /\ (Has(plan, "invalidate") <=> Has(Tail(plan), "invalidate"))
  BY <1>1, <1>2, PlanTail
<1>4. mine \in SummaryHandler
  BY <1>3, ClassScoresType DEF SummaryHandler, ScoreInv, ScoreTypeOK
<1>5. /\ mine.at = "summary" /\ mine.plan = Tail(plan) /\ mine.left = Enrolled
      /\ mine.class = ClassScores
  OBVIOUS
<1> HIDE DEF mine
<1>6. mine \in Handler /\ Sound(mine)
  BY <1>4, <1>5, HandlerKinds DEF Sound, RowThere, JobsSound, Planned, ClassSound, RankSound
<1>7. (\A s \in Enrolled : Sums(mine, s)) /\ (Drops(doing[r]) => Drops(mine))
  BY <1>2, <1>3, <1>5 DEF Sums, Drops, OwesOf, Has
<1>8. writes' \in 0..MaxWrites
  BY <1>1 DEF ScoreInv, ScoreTypeOK
<1> QED BY <1>1, <1>2, <1>6, <1>7, <1>8, QuietStep

LEMMA RankRowsStep ==
  ASSUME ScoreInv, NEW r \in Handlers, RankRows(r)
  PROVE  ScoreInv'
<1> DEFINE mine == [at |-> "rankRule", rows |-> subs, late |-> FALSE]
<1>1. /\ doing[r] = Free /\ doing' = [doing EXCEPT ![r] = mine]
      /\ UNCHANGED <<source, stored, summary, cache, writes>>
  BY DEF RankRows
<1>2. mine \in RankRuleHandler
  BY DEF RankRuleHandler, ScoreInv, ScoreTypeOK
<1>3. mine \in Handler /\ mine.at = "rankRule"
  BY <1>2, HandlerKinds
<1>4. Sound(mine)
  BY DEF Sound, RowThere, JobsSound, Planned, ClassSound, RankSound
<1>5. writes' \in 0..MaxWrites
  BY <1>1 DEF ScoreInv, ScoreTypeOK
<1>6. (\A s \in Enrolled : ~Recomputes(doing[r], s) /\ ~Sums(doing[r], s)) /\ ~Drops(doing[r])
  BY <1>1, FreeIsSound, Unburdened
<1> HIDE DEF mine
<1> QED BY <1>1, <1>3, <1>4, <1>5, <1>6, QuietStep

LEMMA RankRuleStep ==
  ASSUME ScoreInv, NEW r \in Handlers, RankRule(r)
  PROVE  ScoreInv'
<1> DEFINE by == IF present THEN rule ELSE "latest"
           q == doing[r]
           value == [s \in Enrolled |-> RankOf(q.rows[s], by)]
           mine == [at |-> "rankFill", late |-> q.late, value |-> value]
<1>1. /\ q.at = "rankRule" /\ doing' = [doing EXCEPT ![r] = mine]
      /\ UNCHANGED <<source, stored, summary, cache, writes>>
  BY DEF RankRule
<1>2. q \in RankRuleHandler /\ Sound(q)
  BY <1>1, HandlerAt DEF ScoreInv, ScoreTypeOK
<1>3. value \in Class
  BY <1>2, RankOfType DEF RankRuleHandler, Class
<1>4. q.late \in BOOLEAN /\ (q.late \/ value = Ranking)
  BY <1>1, <1>2 DEF Sound, RankSound, Ranking, RankRuleHandler
<1> HIDE DEF value, by
<1>5. mine \in RankFillHandler
  BY <1>3, <1>4 DEF RankFillHandler
<1>6. mine \in Handler /\ mine.at = "rankFill"
  BY <1>5, HandlerKinds
<1>7. Sound(mine)
  BY <1>4 DEF Sound, RowThere, JobsSound, Planned, ClassSound, RankSound
<1>8. writes' \in 0..MaxWrites
  BY <1>1 DEF ScoreInv, ScoreTypeOK
<1>9. (\A s \in Enrolled : ~Recomputes(doing[r], s) /\ ~Sums(doing[r], s)) /\ ~Drops(doing[r])
  BY <1>1, Unburdened
<1> HIDE DEF mine
<1> QED BY <1>1, <1>6, <1>7, <1>8, <1>9, QuietStep

-----------------------------------------------------------------------------
(***************************************************************************)
(* Steps that change the source.                                           *)
(***************************************************************************)
\* The invariant speaks of the handlers as they are after the step.
LEMMA SoundAfter ==
  ASSUME NEW o \in Handlers, NEW q, doing'[o] = q, Sound(q)'
  PROVE  Sound(doing[o])'
BY DEF Sound, RowThere, JobsSound, JobSound, Planned, ClassSound, RankSound, OwesOf

LEMMA SubsStep ==
  ASSUME ScoreInv, NEW r \in Handlers, NEW s \in Enrolled, NEW rows \in Seq(Submission),
         NEW mine \in Handler, present, SubsChange(r, {s}, mine),
         subs' = [subs EXCEPT ![s] = rows], DOMAIN subs[s] \subseteq DOMAIN rows,
         UNCHANGED <<present, rule, stored, summary, cache>>, writes' \in 0..MaxWrites,
         Sound(mine)', Recomputes(mine, s),
         \A t \in Enrolled : /\ Recomputes(doing[r], t) => Recomputes(mine, t)
                             /\ Sums(doing[r], t) => Sums(mine, t),
         Drops(mine) \/ (Ranking' = Ranking /\ ~Drops(doing[r]))
  PROVE  ScoreInv'
<1>1. /\ doing' = [o \in Handlers |-> IF o = r THEN mine ELSE OvertakenBySubs(doing[o], {s})]
      /\ doing \in [Handlers -> Handler] /\ \A o \in Handlers : Sound(doing[o])
      /\ subs \in [Enrolled -> Seq(Submission)]
  BY DEF SubsChange, ScoreInv, ScoreTypeOK
<1>2. /\ subs' \in [Enrolled -> Seq(Submission)] /\ subs'[s] = rows
      /\ \A t \in Enrolled \ {s} : subs'[t] = subs[t]
      /\ \A t \in Enrolled : DOMAIN subs[t] \subseteq DOMAIN subs'[t]
  BY <1>1
<1>3. ClassScores' = ClassScores
  BY DEF ClassScores
<1>4. ASSUME NEW o \in Handlers \ {r}
      PROVE  doing'[o] \in Handler /\ Keeps(doing[o], doing'[o]) /\ Sound(doing[o])'
  <2>1. PICK q2 : q2 = OvertakenBySubs(doing[o], {s})
    OBVIOUS
  <2>2. doing'[o] = q2
    BY <1>1, <2>1
  <2>3. ASSUME NEW q \in Handler, q = doing[o], Sound(q)
        PROVE  q2 \in Handler /\ Sound(q2)' /\ Keeps(q, q2)
    BY <1>2, <1>3, <2>1, <2>3, SubsOvertake
  <2>4. q2 \in Handler /\ Sound(q2)' /\ Keeps(doing[o], q2)
    BY <1>1, <2>3
  <2> QED BY <2>2, <2>4, SoundAfter
<1>5. doing'[r] = mine /\ Sound(doing[r])'
  BY <1>1, SoundAfter
<1>6. doing' \in [Handlers -> Handler]
  BY <1>1, <1>4, <1>5
<1>7. ScoreTypeOK'
  BY <1>2, <1>6 DEF ScoreInv, ScoreTypeOK
<1>8. Explained'
  <2>1. \A t \in Enrolled : Stale(t)' => t = s \/ Stale(t)
    BY <1>2 DEF Stale
  <2>2. \A t \in Enrolled : Behind(t)' => Behind(t)
    BY <1>3 DEF Behind
  <2>3. Outdated' => Drops(mine) \/ (Outdated /\ ~Drops(doing[r]))
    BY DEF Outdated
  <2>4. Explained
    BY DEF ScoreInv
  <2> QED BY <1>4, <1>5, <2>1, <2>2, <2>3, <2>4, ExplainedAfter
<1>9. \A o \in Handlers : Sound(doing[o])'
  BY <1>4, <1>5
<1> QED BY <1>7, <1>8, <1>9 DEF ScoreInv

LEMMA SubmitStepKeeps ==
  ASSUME ScoreInv, NEW r \in Handlers, NEW s \in Enrolled, NEW score \in Scores \cup {Null},
         Submit(r, s, score)
  PROVE  ScoreInv'
<1> DEFINE graded == score # Null
           row == [score |-> score, graded |-> graded]
           rows == Append(subs[s], row)
<1>0. PICK mine : mine = Derive({s}, SubmitPlan(graded), ~graded)
  OBVIOUS
<1>1. /\ Starts(r) /\ subs' = [subs EXCEPT ![s] = rows] /\ SubsChange(r, {s}, mine)
      /\ UNCHANGED <<present, rule, stored, summary, cache>>
  BY <1>0 DEF Submit
<1>2. subs \in [Enrolled -> Seq(Submission)] /\ subs[s] \in Seq(Submission) /\ row \in Submission
  BY DEF ScoreInv, ScoreTypeOK, Submission
<1>3. rows \in Seq(Submission) /\ DOMAIN subs[s] \subseteq DOMAIN rows
  BY <1>2
<1>4. /\ mine \in Handler /\ Sound(mine)'
      /\ Recomputes(mine, s) /\ (graded => Drops(mine))
  <2>0. ASSUME NEW plan \in Plans, NEW silent \in BOOLEAN, silent \/ Has(plan, "summary"),
               mine = Derive({s}, plan, silent)
        PROVE  /\ mine \in Handler /\ Sound(mine)' /\ Recomputes(mine, s)
               /\ Drops(mine) <=> Has(plan, "invalidate")
    <3>1. {s} \in SUBSET Enrolled /\ s \in {s}
      OBVIOUS
    <3>2. ASSUME NEW who \in SUBSET Enrolled, s \in who, mine = Derive(who, plan, silent)
          PROVE  /\ mine \in Handler /\ Sound(mine)' /\ Recomputes(mine, s)
                 /\ Drops(mine) <=> Has(plan, "invalidate")
      BY <2>0, <3>2, DeriveIs
    <3> QED BY <2>0, <3>1, <3>2
  <2>1. CASE graded
    <3>1. mine = Derive({s}, SubmitPlan(TRUE), FALSE)
      BY <1>0, <2>1
    <3> QED BY <2>0, <2>1, <3>1, PlansOf
  <2>2. CASE ~graded
    <3>1. mine = Derive({s}, SubmitPlan(FALSE), TRUE)
      BY <1>0, <2>2
    <3> QED BY <2>0, <2>2, <3>1, PlansOf
  <2> QED BY <2>1, <2>2
<1>5. ~graded => Ranking' = Ranking
  <2> SUFFICES ASSUME ~graded PROVE Ranking' = Ranking
    OBVIOUS
  <2>1. ASSUME NEW by, NEW t \in Enrolled PROVE RankOf(subs'[t], by) = RankOf(subs[t], by)
    <3>1. CASE t = s
      <4>1. subs'[t] = Append(subs[s], row) /\ ~row.graded
        BY <1>1, <1>2, <3>1
      <4> HIDE DEF row
      <4> QED BY <1>2, <3>1, <4>1, UngradedRank
    <3>2. CASE t # s
      BY <1>1, <1>2, <3>2
    <3> QED BY <3>1, <3>2
  <2> QED BY <1>1, <2>1 DEF Ranking
<1> HIDE DEF rows, row, graded
<1> QED BY <1>1, <1>3, <1>4, <1>5, StartsFree, SubsStep

LEMMA GradeWriteStep ==
  ASSUME ScoreInv, NEW r \in Handlers, GradeWrite(r)
  PROVE  ScoreInv'
<1> DEFINE q == doing[r]
           s == q.student
           row == [score |-> q.score, graded |-> q.graded]
           rows == [subs[s] EXCEPT ![q.row] = row]
<1>0. PICK mine : mine = Derive({s}, GradePlan, FALSE)
  OBVIOUS
<1>1. /\ q.at = "grade"
      /\ IF present
         THEN subs' = [subs EXCEPT ![s][q.row] = row] /\ SubsChange(r, {s}, mine)
         ELSE doing' = [doing EXCEPT ![r] = Free] /\ subs' = subs
      /\ UNCHANGED <<present, rule, stored, summary, cache, writes>>
  BY <1>0 DEF GradeWrite
<1>2. q \in Handler /\ q \in GradeHandler /\ Sound(q)
  BY <1>1, HandlerAt DEF ScoreInv, ScoreTypeOK
<1>3. s \in Enrolled /\ row \in Submission
  BY <1>2 DEF GradeHandler, Submission
<1>4. subs \in [Enrolled -> Seq(Submission)] /\ writes' \in 0..MaxWrites
  BY <1>1 DEF ScoreInv, ScoreTypeOK
<1>5. (\A t \in Enrolled : ~Recomputes(q, t) /\ ~Sums(q, t)) /\ ~Drops(q)
  BY <1>1, Unburdened
<1>6. CASE present
  <2>1. q.row \in DOMAIN subs[s] /\ subs[s] \in Seq(Submission)
    BY <1>1, <1>2, <1>3, <1>4, <1>6 DEF Sound, RowThere
  <2>2. rows \in Seq(Submission) /\ DOMAIN rows = DOMAIN subs[s]
    BY <1>3, <2>1
  <2>3. subs' = [subs EXCEPT ![s] = rows]
    BY <1>1, <1>6
  <2>4. mine \in Handler /\ Sound(mine)' /\ Recomputes(mine, s) /\ Drops(mine)
    <3>1. {s} \in SUBSET Enrolled /\ s \in {s}
      BY <1>3
    <3>2. ASSUME NEW who \in SUBSET Enrolled, NEW x \in Enrolled, x \in who,
                 mine = Derive(who, GradePlan, FALSE)
          PROVE  mine \in Handler /\ Sound(mine)' /\ Recomputes(mine, x) /\ Drops(mine)
      BY <3>2, DeriveIs, PlansOf
    <3> QED BY <1>0, <1>3, <3>1, <3>2
  <2> HIDE DEF rows, row, s
  <2> QED BY <1>1, <1>3, <1>4, <1>5, <1>6, <2>2, <2>3, <2>4, SubsStep
<1>7. CASE ~present
  BY <1>1, <1>4, <1>5, <1>7, FreeIsSound, QuietStep DEF source
<1> QED BY <1>6, <1>7

LEMMA BatchWriteStep ==
  ASSUME ScoreInv, NEW r \in Handlers, NEW s \in Enrolled, NEW i \in 1..MaxRows,
         NEW score \in Scores, BatchWrite(r, s, i, score)
  PROVE  ScoreInv'
<1> DEFINE done == doing[r].done
           row == [score |-> score, graded |-> TRUE]
           rows == [subs[s] EXCEPT ![i] = row]
<1>0. PICK mine : mine = [at |-> "batch", done |-> done \cup {s}]
  OBVIOUS
<1>1. /\ doing[r].at = "batch" /\ i \in DOMAIN subs[s]
      /\ subs' = [subs EXCEPT ![s][i] = row]
      /\ SubsChange(r, {s}, [doing[r] EXCEPT !.done = done \cup {s}])
      /\ UNCHANGED <<present, rule, stored, summary, cache, writes>>
  BY DEF BatchWrite
<1>2. doing[r] \in BatchHandler
  BY <1>1, HandlerAt DEF ScoreInv, ScoreTypeOK
<1>3. /\ done \in SUBSET Enrolled /\ doing[r] = [at |-> "batch", done |-> done]
      /\ [doing[r] EXCEPT !.done = done \cup {s}] = mine
  BY <1>0, <1>2 DEF BatchHandler
<1>4. \A t \in Enrolled : (Recomputes(doing[r], t) <=> t \in done) /\ ~Sums(doing[r], t)
  BY <1>3, BatchIsSound
<1>5. /\ mine \in Handler /\ Sound(mine)' /\ Drops(mine)
      /\ \A t \in Enrolled : Recomputes(mine, t) <=> t \in done \cup {s}
  <2>1. done \cup {s} \in SUBSET Enrolled /\ done \cup {s} # {}
    BY <1>3
  <2>2. ASSUME NEW who \in SUBSET Enrolled, who # {}, mine = [at |-> "batch", done |-> who]
        PROVE  /\ mine \in Handler /\ Sound(mine)' /\ Drops(mine)
               /\ \A t \in Enrolled : Recomputes(mine, t) <=> t \in who
    BY <2>2, BatchIsSound
  <2> QED BY <1>0, <2>1, <2>2
<1>6. subs \in [Enrolled -> Seq(Submission)] /\ writes' \in 0..MaxWrites /\ row \in Submission
  BY <1>1 DEF ScoreInv, ScoreTypeOK, Submission
<1>7. /\ rows \in Seq(Submission) /\ DOMAIN rows = DOMAIN subs[s]
      /\ subs' = [subs EXCEPT ![s] = rows]
  BY <1>1, <1>6
<1>8. present
  BY <1>1 DEF ScoreInv
<1>9. SubsChange(r, {s}, mine)
  BY <1>1, <1>3
<1> HIDE DEF rows, row, done
<1> QED BY <1>1, <1>4, <1>5, <1>6, <1>7, <1>8, <1>9, SubsStep

LEMMA RuleWriteStep ==
  ASSUME ScoreInv, NEW r \in Handlers, RuleWrite(r)
  PROVE  ScoreInv'
<1>1. doing[r].at = "settings" /\ doing[r] \in Handler /\ doing[r].rule \in Rules
  BY HandlerAt DEF RuleWrite, ScoreInv, ScoreTypeOK
<1>2. (\A t \in Enrolled : ~Recomputes(doing[r], t) /\ ~Sums(doing[r], t)) /\ ~Drops(doing[r])
  BY <1>1, Unburdened
<1>3. UNCHANGED <<present, subs, stored, summary, writes>> /\ writes' \in 0..MaxWrites
  BY DEF RuleWrite, ScoreInv, ScoreTypeOK
<1>4. CASE ~present
  <2>1. doing' = [doing EXCEPT ![r] = Free] /\ UNCHANGED <<source, cache>>
    BY <1>3, <1>4 DEF RuleWrite, source
  <2> QED BY <1>2, <1>3, <2>1, FreeIsSound, QuietStep
<1>5. CASE present
  <2>0. PICK mine : mine = [at |-> "find"]
    OBVIOUS
  <2>1. /\ rule' = doing[r].rule /\ cache' = LateCache
        /\ doing' = [o \in Handlers |-> IF o = r THEN mine ELSE OvertakenByRule(doing[o])]
    BY <1>5, <2>0 DEF RuleWrite
  <2>2. /\ mine \in Handler /\ Sound(mine)' /\ \A t \in Enrolled : Recomputes(mine, t)
    BY <2>0 DEF Handler, Sound, RowThere, JobsSound, Planned, ClassSound, RankSound, Recomputes
  <2>3. ASSUME NEW o \in Handlers \ {r}
        PROVE  doing'[o] \in Handler /\ Keeps(doing[o], doing'[o]) /\ Sound(doing[o])'
    <3>1. PICK q2 : q2 = OvertakenByRule(doing[o])
      OBVIOUS
    <3>2. doing'[o] = q2
      BY <2>1, <3>1
    <3>3. ASSUME NEW q \in Handler, q = doing[o], Sound(q)
          PROVE  q2 \in Handler /\ Sound(q2)' /\ Keeps(q, q2)
      BY <1>3, <3>1, <3>3, RuleOvertake
    <3>4. q2 \in Handler /\ Sound(q2)' /\ Keeps(doing[o], q2)
      BY <3>3 DEF ScoreInv, ScoreTypeOK
    <3> QED BY <3>2, <3>4, SoundAfter
  <2>4. doing'[r] = mine /\ Sound(doing[r])'
    BY <2>1, <2>2, SoundAfter
  <2>5. doing' \in [Handlers -> Handler]
    BY <2>1, <2>2, <2>3, <2>4
  <2>6. cache' \in {Empty} \cup [at : {"full"}, value : Class, late : BOOLEAN]
        /\ (cache' # Empty => cache'.late)
    BY <2>1 DEF LateCache, ScoreInv, ScoreTypeOK
  <2>7. ScoreTypeOK'
    BY <1>1, <1>3, <2>1, <2>5, <2>6 DEF ScoreInv, ScoreTypeOK
  <2>8. Explained'
    <3>1. \A t \in Enrolled : Behind(t)' => Behind(t)
      BY <1>3 DEF Behind, ClassScores
    <3>2. ~Outdated'
      BY <2>6 DEF Outdated
    <3>3. Explained
      BY DEF ScoreInv
    <3> QED BY <1>2, <2>2, <2>3, <2>4, <3>1, <3>2, <3>3, ExplainedAfter
  <2> QED BY <1>3, <2>3, <2>4, <2>7, <2>8 DEF ScoreInv
<1> QED BY <1>4, <1>5

\* Steps of no handler.
LEMMA ExplainedAlone ==
  ASSUME Explained, \A o \in Handlers : Keeps(doing[o], doing'[o]),
         \A s \in Enrolled : (Stale(s)' => Stale(s)) /\ (Behind(s)' => Behind(s)),
         Outdated' => Outdated
  PROVE  Explained'
<1>1. \A s \in Enrolled : Stale(s)' => \E o \in Handlers : Recomputes(doing'[o], s)
  BY DEF Explained, Keeps
<1>2. \A s \in Enrolled : Behind(s)' => \E o \in Handlers : Sums(doing'[o], s)
  BY DEF Explained, Keeps
<1>3. Outdated' => \E o \in Handlers : Drops(doing'[o])
  BY DEF Explained, Keeps
<1>4. /\ \A o \in Handlers, s \in Enrolled : Recomputes(doing[o], s)' <=> Recomputes(doing'[o], s)
      /\ \A o \in Handlers, s \in Enrolled : Sums(doing[o], s)' <=> Sums(doing'[o], s)
      /\ \A o \in Handlers : Drops(doing[o])' <=> Drops(doing'[o])
  BY DEF Recomputes, Sums, Drops, OwesOf
<1> QED BY <1>1, <1>2, <1>3, <1>4 DEF Explained

LEMMA LateIs ==
  ASSUME NEW V, NEW rows \in [Enrolled -> [value : V, late : BOOLEAN]], NEW who
  PROVE  /\ Late(rows, who) \in [Enrolled -> [value : V, late : BOOLEAN]]
         /\ \A s \in Enrolled : /\ Late(rows, who)[s].value = rows[s].value
                                /\ Late(rows, who)[s].late <=> rows[s].late \/ s \in who
BY DEF Late

LEMMA LateCacheIs ==
  ASSUME ScoreTypeOK
  PROVE  /\ LateCache \in {Empty} \cup [at : {"full"}, value : Class, late : BOOLEAN]
         /\ LateCache # Empty => LateCache.late
BY DEF LateCache, ScoreTypeOK

LEMMA DeleteAssignmentStep ==
  ASSUME ScoreInv, DeleteAssignment
  PROVE  ScoreInv'
<1>1. /\ present /\ present' = FALSE /\ subs' = [s \in Enrolled |-> <<>>]
      /\ stored' = Late(stored, Enrolled) /\ cache' = LateCache
      /\ doing' = [o \in Handlers |-> OvertakenBySubs(OvertakenByRule(doing[o]), Enrolled)]
      /\ UNCHANGED <<rule, summary, writes>>
  BY DEF DeleteAssignment
<1>2. /\ stored' \in [Enrolled -> [value : Scores \cup {0, Null}, late : BOOLEAN]]
      /\ \A s \in Enrolled : stored'[s].value = stored[s].value
  <2>1. stored \in [Enrolled -> [value : Scores \cup {0, Null}, late : BOOLEAN]]
    BY DEF ScoreInv, ScoreTypeOK
  <2> DEFINE V == Scores \cup {0, Null}
  <2> HIDE DEF V
  <2>2. stored \in [Enrolled -> [value : V, late : BOOLEAN]]
    BY <2>1 DEF V
  <2>3. Late(stored, Enrolled) \in [Enrolled -> [value : V, late : BOOLEAN]]
    BY <2>2, LateIs
  <2>4. \A s \in Enrolled : Late(stored, Enrolled)[s].value = stored[s].value
    BY <2>2, LateIs
  <2> QED BY <1>1, <2>3, <2>4 DEF V
<1>3. ClassScores' = ClassScores
  BY <1>2 DEF ClassScores
<1>4. cache' \in {Empty} \cup [at : {"full"}, value : Class, late : BOOLEAN]
      /\ (cache' # Empty => cache'.late)
  BY <1>1, LateCacheIs DEF ScoreInv
<1>5. ASSUME NEW o \in Handlers
      PROVE  doing'[o] \in Handler /\ Keeps(doing[o], doing'[o]) /\ Sound(doing[o])'
  <2>1. PICK q1 : q1 = OvertakenByRule(doing[o])
    OBVIOUS
  <2>2. PICK q2 : q2 = OvertakenBySubs(q1, Enrolled)
    OBVIOUS
  <2>3. doing'[o] = q2
    BY <1>1, <2>1, <2>2
  <2>4. ASSUME NEW q \in Handler, q = doing[o], Sound(q)
        PROVE  q2 \in Handler /\ Sound(q2)' /\ Keeps(q, q2)
    <3>1. q1 \in Handler /\ Keeps(q, q1) /\ Sound(q1)
      BY <2>1, <2>4, RuleOvertake
    <3>2. q2 \in Handler /\ Sound(q2)' /\ Keeps(q1, q2)
      BY <1>1, <1>3, <2>2, <3>1, SubsOvertake
    <3> QED BY <3>1, <3>2 DEF Keeps
  <2>5. q2 \in Handler /\ Sound(q2)' /\ Keeps(doing[o], q2)
    BY <2>4 DEF ScoreInv, ScoreTypeOK
  <2> QED BY <2>3, <2>5, SoundAfter
<1>6. doing' \in [Handlers -> Handler]
  BY <1>1, <1>5
<1>7. subs' \in [Enrolled -> Seq(Submission)]
  BY <1>1
<1>8. ScoreTypeOK'
  BY <1>1, <1>2, <1>4, <1>6, <1>7 DEF ScoreInv, ScoreTypeOK
<1>9. Explained'
  <2>1. \A s \in Enrolled : ~Stale(s)'
    BY <1>1 DEF Stale
  <2>2. \A s \in Enrolled : Behind(s)' => Behind(s)
    BY <1>1, <1>2, <1>3 DEF Behind
  <2>3. ~Outdated'
    BY <1>4 DEF Outdated
  <2> QED BY <1>5, <2>1, <2>2, <2>3, ExplainedAlone DEF ScoreInv
<1> QED BY <1>1, <1>5, <1>8, <1>9 DEF ScoreInv

LEMMA ScoreExpireStep ==
  ASSUME ScoreInv, Expire
  PROVE  ScoreInv'
<1>1. cache' = Empty /\ UNCHANGED <<source, stored, summary, doing, writes>>
  BY DEF Expire
<1>2. ScoreTypeOK'
  BY <1>1 DEF ScoreInv, ScoreTypeOK, source
<1>3. ASSUME NEW o \in Handlers PROVE Keeps(doing[o], doing'[o]) /\ Sound(doing[o])'
  <2>1. PICK q : q = doing[o]
    OBVIOUS
  <2>2. ClassScores' = ClassScores /\ doing'[o] = q
    BY <1>1, <2>1 DEF ClassScores
  <2>3. Sound(q)'
    BY <1>1, <2>1, <2>2, StillSound DEF ScoreInv
  <2> QED BY <2>1, <2>2, <2>3, SoundAfter DEF Keeps
<1>4. Explained'
  <2>1. \A s \in Enrolled : (Stale(s)' => Stale(s)) /\ (Behind(s)' => Behind(s))
    BY <1>1 DEF Stale, Behind, ClassScores, source
  <2>2. ~Outdated'
    BY <1>1 DEF Outdated
  <2> QED BY <1>3, <2>1, <2>2, ExplainedAlone DEF ScoreInv
<1> QED BY <1>1, <1>2, <1>3, <1>4 DEF ScoreInv, source

-----------------------------------------------------------------------------
(***************************************************************************)
(* Steps that write what is derived.                                       *)
(***************************************************************************)
LEMMA OthersStill ==
  ASSUME ScoreInv, NEW r \in Handlers, NEW mine, doing' = [doing EXCEPT ![r] = mine],
         UNCHANGED source, ClassScores' = ClassScores
  PROVE  /\ doing'[r] = mine
         /\ \A o \in Handlers \ {r} :
              doing'[o] \in Handler /\ Keeps(doing[o], doing'[o]) /\ Sound(doing[o])'
<1>1. doing'[r] = mine /\ \A o \in Handlers \ {r} : doing'[o] = doing[o]
  BY DEF ScoreInv, ScoreTypeOK
<1>2. ASSUME NEW o \in Handlers \ {r}
      PROVE  doing'[o] \in Handler /\ Keeps(doing[o], doing'[o]) /\ Sound(doing[o])'
  <2>1. PICK q : q = doing[o]
    OBVIOUS
  <2>2. q \in Handler /\ Sound(q) /\ doing'[o] = q
    BY <1>1, <2>1 DEF ScoreInv, ScoreTypeOK
  <2>3. Sound(q)'
    BY <2>2, StillSound
  <2> QED BY <2>1, <2>2, <2>3, SoundAfter DEF Keeps
<1> QED BY <1>1, <1>2

LEMMA WritingStep ==
  ASSUME ScoreInv, NEW r \in Handlers, NEW mine \in Handler, Sound(mine)',
         doing' \in [Handlers -> Handler], doing'[r] = mine,
         \A o \in Handlers \ {r} : Keeps(doing[o], doing'[o]) /\ Sound(doing[o])',
         UNCHANGED <<source, writes>>,
         stored' \in [Enrolled -> [value : Scores \cup {0, Null}, late : BOOLEAN]],
         summary' \in [Enrolled -> [value : Class \cup {Null}, late : BOOLEAN]],
         cache' \in {Empty} \cup [at : {"full"}, value : Class, late : BOOLEAN],
         \A s \in Enrolled :
            Stale(s)' => Recomputes(mine, s) \/ (Stale(s) /\ ~Recomputes(doing[r], s)),
         \A s \in Enrolled :
            Behind(s)' => Sums(mine, s) \/ (Behind(s) /\ ~Sums(doing[r], s)),
         Outdated' => Drops(mine) \/ (Outdated /\ ~Drops(doing[r]))
  PROVE  ScoreInv'
<1>1. ScoreTypeOK'
  BY DEF ScoreInv, ScoreTypeOK, source
<1>2. Explained'
  BY ExplainedAfter DEF ScoreInv
<1>3. Sound(doing[r])'
  BY SoundAfter
<1>4. ~present' => \A s \in Enrolled : subs'[s] = <<>>
  BY DEF ScoreInv, source
<1> QED BY <1>1, <1>2, <1>3, <1>4 DEF ScoreInv

LEMMA RankFillStep ==
  ASSUME ScoreInv, NEW r \in Handlers, RankFill(r)
  PROVE  ScoreInv'
<1>1. /\ doing[r].at = "rankFill" /\ doing' = [doing EXCEPT ![r] = Free]
      /\ cache' = [at |-> "full", value |-> doing[r].value, late |-> doing[r].late]
      /\ UNCHANGED <<source, stored, summary, writes>>
  BY DEF RankFill
<1>2. doing[r] \in RankFillHandler /\ Sound(doing[r])
  BY <1>1, HandlerAt DEF ScoreInv, ScoreTypeOK
<1>3. /\ cache' \in [at : {"full"}, value : Class, late : BOOLEAN]
      /\ cache'.late \/ cache'.value = Ranking
  BY <1>1, <1>2 DEF RankFillHandler, Sound, RankSound
<1>4. ClassScores' = ClassScores /\ Ranking' = Ranking
  BY <1>1 DEF ClassScores, Ranking, source
<1>5. ~Outdated' /\ \A s \in Enrolled : (Stale(s)' => Stale(s)) /\ (Behind(s)' => Behind(s))
  BY <1>1, <1>3, <1>4 DEF Outdated, Stale, Behind, source
<1>6. \A s \in Enrolled : ~Recomputes(doing[r], s) /\ ~Sums(doing[r], s)
  BY <1>1, Unburdened
<1>7. /\ doing'[r] = Free
      /\ \A o \in Handlers \ {r} :
           doing'[o] \in Handler /\ Keeps(doing[o], doing'[o]) /\ Sound(doing[o])'
  BY <1>1, <1>4, OthersStill
<1>8. doing' \in [Handlers -> Handler]
  BY <1>1, FreeIsSound DEF ScoreInv, ScoreTypeOK
<1>9. /\ stored' \in [Enrolled -> [value : Scores \cup {0, Null}, late : BOOLEAN]]
      /\ summary' \in [Enrolled -> [value : Class \cup {Null}, late : BOOLEAN]]
  BY <1>1 DEF ScoreInv, ScoreTypeOK
<1> QED BY <1>1, <1>3, <1>5, <1>6, <1>7, <1>8, <1>9, FreeIsSound, FreeIsSoundNext, WritingStep

LEMMA InvalidateStep ==
  ASSUME ScoreInv, NEW r \in Handlers, Invalidate(r)
  PROVE  ScoreInv'
<1> DEFINE plan == doing[r].plan
<1>0. PICK mine : mine = Follow(Tail(plan))
  OBVIOUS
<1>1. /\ Derived(r) /\ plan # <<>> /\ Head(plan) = "invalidate" /\ cache' = Empty
      /\ doing' = [doing EXCEPT ![r] = mine]
      /\ UNCHANGED <<source, stored, summary, writes>>
  BY <1>0 DEF Invalidate
<1>2. /\ plan \in Plans
      /\ \A s \in Enrolled : ~Recomputes(doing[r], s)
                             /\ (Sums(doing[r], s) <=> Has(plan, "summary"))
  BY <1>1, DerivedIs
<1>3. Tail(plan) \in Plans /\ (Has(plan, "summary") <=> Has(Tail(plan), "summary"))
  BY <1>1, <1>2, PlanTail
<1>4. /\ mine \in Handler /\ Sound(mine)'
      /\ \A s \in Enrolled : Sums(mine, s) <=> Has(Tail(plan), "summary")
  <2>1. ASSUME NEW p \in Plans, mine = Follow(p)
        PROVE  /\ mine \in Handler /\ Sound(mine)'
               /\ \A s \in Enrolled : Sums(mine, s) <=> Has(p, "summary")
    BY <2>1, FollowIs
  <2> QED BY <1>0, <1>3, <2>1
<1>5. ClassScores' = ClassScores
  BY <1>1 DEF ClassScores
<1>6. ~Outdated' /\ \A s \in Enrolled : (Stale(s)' => Stale(s)) /\ (Behind(s)' => Behind(s))
  BY <1>1, <1>5 DEF Outdated, Stale, Behind, source
<1>7. /\ doing'[r] = mine
      /\ \A o \in Handlers \ {r} :
           doing'[o] \in Handler /\ Keeps(doing[o], doing'[o]) /\ Sound(doing[o])'
  BY <1>1, <1>5, OthersStill
<1>8. doing' \in [Handlers -> Handler]
  BY <1>1, <1>4 DEF ScoreInv, ScoreTypeOK
<1>9. /\ stored' \in [Enrolled -> [value : Scores \cup {0, Null}, late : BOOLEAN]]
      /\ summary' \in [Enrolled -> [value : Class \cup {Null}, late : BOOLEAN]]
  BY <1>1 DEF ScoreInv, ScoreTypeOK
<1> HIDE DEF plan
<1>10. \A s \in Enrolled : Behind(s)' => Sums(mine, s) \/ (Behind(s) /\ ~Sums(doing[r], s))
  BY <1>2, <1>3, <1>4, <1>6
<1>11. cache' \in {Empty}
  BY <1>1
<1> QED BY <1>1, <1>2, <1>4, <1>6, <1>7, <1>8, <1>9, <1>10, <1>11, WritingStep

LEMMA SummaryWriteStep ==
  ASSUME ScoreInv, NEW r \in Handlers, NEW s \in Enrolled, SummaryWrite(r, s)
  PROVE  ScoreInv'
<1> DEFINE q == doing[r]
<1>0. PICK mine : mine = IF q.left = {s} THEN Follow(q.plan) ELSE [q EXCEPT !.left = @ \ {s}]
  OBVIOUS
<1>1. /\ q.at = "summary" /\ s \in q.left
      /\ summary' = [summary EXCEPT ![s] = [value |-> q.class, late |-> q.late]]
      /\ doing' = [doing EXCEPT ![r] = mine]
      /\ UNCHANGED <<source, stored, cache, writes>>
  BY <1>0 DEF SummaryWrite
<1>2. q \in SummaryHandler /\ Sound(q)
  BY <1>1, HandlerAt DEF ScoreInv, ScoreTypeOK
<1>3. ClassScores' = ClassScores /\ Ranking' = Ranking
  BY <1>1 DEF ClassScores, Ranking, source
<1>4. /\ mine \in Handler /\ Sound(mine)'
      /\ Drops(q) => Drops(mine)
      /\ \A t \in Enrolled \ {s} : Sums(q, t) => Sums(mine, t)
  <2>1. q.plan \in Plans
    BY <1>2 DEF SummaryHandler
  <2>2. \A what : OwesOf(q, what) <=> Has(q.plan, what)
    BY <1>1 DEF OwesOf, Has
  <2>3. CASE q.left = {s}
    <3>1. ASSUME NEW p \in Plans, mine = Follow(p)
          PROVE  /\ mine \in Handler /\ Sound(mine)'
                 /\ \A t \in Enrolled : Sums(mine, t) <=> Has(p, "summary")
                 /\ Drops(mine) <=> Has(p, "invalidate")
      BY <3>1, FollowIs
    <3>2. mine = Follow(q.plan)
      BY <1>0, <2>3
    <3> QED BY <1>1, <2>1, <2>2, <2>3, <3>1, <3>2 DEF Sums, Drops
  <2>4. CASE q.left # {s}
    <3>1. mine = [q EXCEPT !.left = q.left \ {s}]
      BY <1>0, <2>4
    <3>2. /\ mine \in SummaryHandler /\ mine.at = "summary" /\ mine.plan = q.plan
          /\ mine.left = q.left \ {s} /\ mine.late = q.late /\ mine.class = q.class
      BY <1>2, <3>1 DEF SummaryHandler
    <3>3. mine.late \/ mine.class = ClassScores
      BY <1>1, <1>2, <3>2 DEF Sound, ClassSound
    <3>4. Sound(mine)'
      BY <1>3, <3>2, <3>3 DEF Sound, RowThere, JobsSound, Planned, ClassSound, RankSound
    <3>5. \A what : OwesOf(mine, what) <=> OwesOf(q, what)
      BY <1>1, <3>2 DEF OwesOf
    <3> QED BY <1>1, <3>2, <3>4, <3>5, HandlerKinds DEF Sums, Drops
  <2> QED BY <2>3, <2>4
<1>5. /\ summary' \in [Enrolled -> [value : Class \cup {Null}, late : BOOLEAN]]
      /\ \A t \in Enrolled \ {s} : summary'[t] = summary[t]
      /\ summary'[s].late \/ summary'[s].value = ClassScores
  <2>1. q.class \in Class /\ q.late \in BOOLEAN /\ (q.late \/ q.class = ClassScores)
    BY <1>1, <1>2 DEF SummaryHandler, Sound, ClassSound
  <2>2. summary \in [Enrolled -> [value : Class \cup {Null}, late : BOOLEAN]]
    BY DEF ScoreInv, ScoreTypeOK
  <2> HIDE DEF q
  <2> QED BY <1>1, <2>1, <2>2
<1>6. (Outdated' => Outdated) /\ \A t \in Enrolled : Stale(t)' => Stale(t)
  BY <1>1, <1>3 DEF Outdated, Stale, source
<1>7. ~Behind(s)' /\ \A t \in Enrolled \ {s} : Behind(t)' => Behind(t)
  BY <1>1, <1>3, <1>5 DEF Behind
<1>8. \A t \in Enrolled : ~Recomputes(q, t)
  BY <1>1 DEF Recomputes
<1>9. /\ doing'[r] = mine
      /\ \A o \in Handlers \ {r} :
           doing'[o] \in Handler /\ Keeps(doing[o], doing'[o]) /\ Sound(doing[o])'
  BY <1>1, <1>3, OthersStill
<1>10. doing' \in [Handlers -> Handler]
  BY <1>1, <1>4 DEF ScoreInv, ScoreTypeOK
<1>11. /\ stored' \in [Enrolled -> [value : Scores \cup {0, Null}, late : BOOLEAN]]
       /\ cache' \in {Empty} \cup [at : {"full"}, value : Class, late : BOOLEAN]
  BY <1>1 DEF ScoreInv, ScoreTypeOK
<1> QED BY <1>1, <1>4, <1>5, <1>6, <1>7, <1>8, <1>9, <1>10, <1>11, WritingStep

\* A summary being computed that is overtaken.
LEMMA LateSummary ==
  ASSUME NEW q \in SummaryHandler, NEW q2, q2 = [q EXCEPT !.late = TRUE]
  PROVE  q2 \in Handler /\ Keeps(q, q2) /\ Sound(q2)'
<1>1. /\ q2 \in SummaryHandler /\ q2.at = "summary" /\ q.at = "summary" /\ q2.late
      /\ q2.plan = q.plan /\ q2.left = q.left
  BY DEF SummaryHandler
<1>2. Keeps(q, q2)
  BY <1>1 DEF Keeps, Recomputes, Sums, Drops, OwesOf
<1> QED BY <1>1, <1>2, HandlerKinds
        DEF Sound, RowThere, JobsSound, Planned, ClassSound, RankSound

LEMMA LateRows ==
  ASSUME ScoreTypeOK, NEW who
  PROVE  /\ Late(stored, who) \in [Enrolled -> [value : Scores \cup {0, Null}, late : BOOLEAN]]
         /\ Late(summary, who) \in [Enrolled -> [value : Class \cup {Null}, late : BOOLEAN]]
         /\ \A s \in Enrolled :
              /\ Late(stored, who)[s].value = stored[s].value
              /\ Late(stored, who)[s].late <=> stored[s].late \/ s \in who
              /\ Late(summary, who)[s].value = summary[s].value
              /\ Late(summary, who)[s].late <=> summary[s].late \/ s \in who
<1> DEFINE V == Scores \cup {0, Null}
           W == Class \cup {Null}
<1>1. /\ stored \in [Enrolled -> [value : V, late : BOOLEAN]]
      /\ summary \in [Enrolled -> [value : W, late : BOOLEAN]]
  BY DEF ScoreTypeOK
<1> HIDE DEF V, W
<1>2. /\ Late(stored, who) \in [Enrolled -> [value : V, late : BOOLEAN]]
      /\ \A s \in Enrolled : /\ Late(stored, who)[s].value = stored[s].value
                             /\ Late(stored, who)[s].late <=> stored[s].late \/ s \in who
  BY <1>1, LateIs
<1>3. /\ Late(summary, who) \in [Enrolled -> [value : W, late : BOOLEAN]]
      /\ \A s \in Enrolled : /\ Late(summary, who)[s].value = summary[s].value
                             /\ Late(summary, who)[s].late <=> summary[s].late \/ s \in who
  BY <1>1, LateIs
<1> QED BY <1>2, <1>3 DEF V, W

\* The handler q without the recomputation of student s.
WithoutJob(q, s) == [q EXCEPT !.jobs[s] = NoJob]

LEMMA JobEnds ==
  ASSUME NEW q \in DeriveHandler, Sound(q), NEW s \in Enrolled, q.jobs[s] # NoJob,
         NEW q2, q2 = WithoutJob(q, s)
  PROVE  /\ q2 \in Handler /\ Sound(q2) /\ q2.at = "derive"
         /\ ~Recomputes(q2, s)
         /\ \A t \in Enrolled : /\ t # s => (Recomputes(q2, t) <=> Recomputes(q, t))
                                /\ Sums(q2, t) <=> Sums(q, t)
         /\ Drops(q2) <=> Drops(q)
<1>1. /\ NoJob \in Job /\ JobSound(s, NoJob)
      /\ q.at = "derive" /\ q.jobs \in [Enrolled -> Job]
  BY DEF Job, NoJob, JobSound, DeriveHandler
<1>2. /\ q2 \in DeriveHandler /\ q2.at = "derive" /\ q2.plan = q.plan /\ q2.silent = q.silent
      /\ \A t \in Enrolled : q2.jobs[t] = IF t = s THEN NoJob ELSE q.jobs[t]
  BY <1>1 DEF DeriveHandler, WithoutJob
<1>3. \A what : OwesOf(q2, what) <=> OwesOf(q, what)
  BY <1>1, <1>2 DEF OwesOf
<1>4. Planned(q2)
  BY <1>1, <1>2, <1>3 DEF Sound, Planned
<1>5. JobsSound(q2)
  BY <1>1, <1>2 DEF Sound, JobsSound
<1>6. Sound(q2)
  BY <1>2, <1>4, <1>5 DEF Sound, RowThere, ClassSound, RankSound
<1> QED BY <1>1, <1>2, <1>3, <1>6, HandlerKinds DEF Recomputes, Sums, Drops

LEMMA JobWriteStep ==
  ASSUME ScoreInv, NEW r \in Handlers, NEW s \in Enrolled, JobWrite(r, s)
  PROVE  ScoreInv'
<1> DEFINE q == doing[r]
           job == q.jobs[s]
           changes == stored[s].value # job.value
<1>0. PICK mine : mine = WithoutJob(q, s)
  OBVIOUS
<1>1. /\ q.at = "derive" /\ job.at = "value"
      /\ stored' = [stored EXCEPT ![s] = [value |-> job.value, late |-> job.late]]
      /\ summary' = IF changes /\ q.silent THEN Late(summary, Enrolled) ELSE summary
      /\ doing' = [o \in Handlers |->
                     IF o = r THEN mine
                     ELSE IF changes /\ doing[o].at = "summary"
                          THEN [doing[o] EXCEPT !.late = TRUE] ELSE doing[o]]
      /\ UNCHANGED <<source, cache, writes>>
  BY <1>0 DEF JobWrite, Working, WithoutJob
<1>2. q \in DeriveHandler /\ Sound(q)
  BY <1>1, HandlerAt DEF ScoreInv, ScoreTypeOK
<1>3. /\ job \in Job /\ job # NoJob
      /\ job.value \in Scores \cup {0} /\ job.late \in BOOLEAN
      /\ job.late \/ job.value = ScoreOf(subs[s], rule)
  <2>1. job \in Job /\ job # NoJob
    BY <1>1, <1>2 DEF DeriveHandler, NoJob
  <2>2. job \in [at : {"value"}, value : Scores \cup {0}, late : BOOLEAN]
    BY <1>1, <2>1, JobKinds
  <2>3. JobSound(s, job)
    BY <1>1, <1>2 DEF Sound, JobsSound
  <2> QED BY <1>1, <2>1, <2>2, <2>3 DEF JobSound
<1>4. /\ stored' \in [Enrolled -> [value : Scores \cup {0, Null}, late : BOOLEAN]]
      /\ \A t \in Enrolled \ {s} : stored'[t] = stored[t]
      /\ stored'[s].value = job.value /\ (stored'[s].late <=> job.late)
  <2>1. stored \in [Enrolled -> [value : Scores \cup {0, Null}, late : BOOLEAN]]
    BY DEF ScoreInv, ScoreTypeOK
  <2> HIDE DEF job
  <2> QED BY <1>1, <1>3, <2>1
<1>5. /\ Ranking' = Ranking
      /\ ~changes => /\ ClassScores' = ClassScores
                     /\ \A t \in Enrolled : stored'[t].value = stored[t].value
  <2>1. Ranking' = Ranking
    BY <1>1 DEF Ranking, source
  <2>2. ~changes => \A t \in Enrolled : stored'[t].value = stored[t].value
    BY <1>4
  <2> QED BY <2>1, <2>2 DEF ClassScores
<1>6. /\ mine \in Handler /\ Sound(mine)'
      /\ ~Recomputes(mine, s)
      /\ \A t \in Enrolled : /\ t # s => (Recomputes(mine, t) <=> Recomputes(q, t))
                             /\ Sums(mine, t) <=> Sums(q, t)
      /\ Drops(mine) <=> Drops(q)
      /\ mine.at = "derive"
  <2>3. /\ mine \in Handler /\ Sound(mine) /\ mine.at = "derive"
        /\ ~Recomputes(mine, s)
        /\ \A t \in Enrolled : /\ t # s => (Recomputes(mine, t) <=> Recomputes(q, t))
                               /\ Sums(mine, t) <=> Sums(q, t)
        /\ Drops(mine) <=> Drops(q)
    <3>1. ASSUME NEW p \in DeriveHandler, Sound(p), p.jobs[s] # NoJob,
                 mine = WithoutJob(p, s)
          PROVE  /\ mine \in Handler /\ Sound(mine) /\ mine.at = "derive"
                 /\ ~Recomputes(mine, s)
                 /\ \A t \in Enrolled : /\ t # s => (Recomputes(mine, t) <=> Recomputes(p, t))
                                        /\ Sums(mine, t) <=> Sums(p, t)
                 /\ Drops(mine) <=> Drops(p)
      BY <3>1, JobEnds
    <3> QED BY <1>0, <1>2, <1>3, <3>1
  <2>4. Sound(mine)'
    BY <1>1, <2>3, StillSound
  <2> QED BY <2>3, <2>4
<1>7. changes /\ ~q.silent => \A t \in Enrolled : Sums(q, t)
  BY <1>1, <1>2, <1>3 DEF Sound, Planned, Sums
<1>8. ASSUME NEW o \in Handlers \ {r}
      PROVE  doing'[o] \in Handler /\ Keeps(doing[o], doing'[o]) /\ Sound(doing[o])'
  <2>1. doing[o] \in Handler /\ Sound(doing[o])
    BY DEF ScoreInv, ScoreTypeOK
  <2>2. CASE changes /\ doing[o].at = "summary"
    <3>1. PICK q2 : q2 = [doing[o] EXCEPT !.late = TRUE]
      OBVIOUS
    <3>2. doing'[o] = q2 /\ doing[o] \in SummaryHandler
      BY <1>1, <2>1, <2>2, <3>1, HandlerAt
    <3>3. q2 \in Handler /\ Keeps(doing[o], q2) /\ Sound(q2)'
      BY <3>1, <3>2, LateSummary
    <3> QED BY <3>2, <3>3, SoundAfter
  <2>3. CASE ~(changes /\ doing[o].at = "summary")
    <3>1. PICK q2 : q2 = doing[o]
      OBVIOUS
    <3>2. doing'[o] = q2
      BY <1>1, <2>3, <3>1
    <3>3. q2.at = "summary" => q2.late \/ ClassScores' = ClassScores
      BY <1>5, <2>3, <3>1
    <3>4. Sound(q2)'
      BY <1>1, <2>1, <3>1, <3>3, StillSound
    <3> QED BY <2>1, <3>1, <3>2, <3>4, SoundAfter DEF Keeps
  <2> QED BY <2>2, <2>3
<1>9. doing'[r] = mine /\ doing' \in [Handlers -> Handler]
  BY <1>1, <1>6, <1>8
<1>10. /\ summary' \in [Enrolled -> [value : Class \cup {Null}, late : BOOLEAN]]
       /\ changes /\ q.silent => \A t \in Enrolled : summary'[t].late
       /\ ~(changes /\ q.silent) => summary' = summary
       /\ cache' \in {Empty} \cup [at : {"full"}, value : Class, late : BOOLEAN]
  BY <1>1, LateRows DEF ScoreInv, ScoreTypeOK
<1>11. ~Stale(s)' /\ \A t \in Enrolled \ {s} : Stale(t)' => Stale(t)
  BY <1>1, <1>3, <1>4 DEF Stale, source
<1> HIDE DEF changes
<1>12. ~changes => \A t \in Enrolled : Behind(t)' => Behind(t)
  BY <1>5, <1>10 DEF Behind
<1>13. changes /\ q.silent => \A t \in Enrolled : ~Behind(t)'
  BY <1>10 DEF Behind
<1>14. Outdated' => Outdated
  BY <1>1, <1>5 DEF Outdated
<1>15. \A t \in Enrolled : Behind(t)' => Sums(mine, t) \/ (Behind(t) /\ ~Sums(q, t))
  BY <1>6, <1>7, <1>12, <1>13
<1>16. \A t \in Enrolled : Stale(t)' => Recomputes(mine, t) \/ (Stale(t) /\ ~Recomputes(q, t))
  BY <1>6, <1>11
<1>17. Outdated' => Drops(mine) \/ (Outdated /\ ~Drops(q))
  BY <1>6, <1>14
<1>18. UNCHANGED <<source, writes>>
  BY <1>1
<1> HIDE DEF q
<1> QED BY <1>4, <1>6, <1>8, <1>9, <1>10, <1>15, <1>16, <1>17, <1>18, WritingStep DEF q

\* A handler rejects, or one of its calls: what it goes on with, mine, and the
\* history together take over what it owed.
LEMMA RejectedStep ==
  ASSUME ScoreInv, NEW r \in Handlers, NEW mine \in Handler, Sound(mine)',
         doing' = [doing EXCEPT ![r] = mine], UNCHANGED <<source, writes>>,
         NEW left, NEW behind, NEW dropped \in BOOLEAN,
         stored' = Late(stored, left) \/ (left = {} /\ stored' = stored),
         summary' = Late(summary, behind),
         cache' = IF dropped THEN LateCache ELSE cache,
         \A s \in Enrolled : Recomputes(doing[r], s) => s \in left \/ Recomputes(mine, s),
         \A s \in Enrolled : Sums(doing[r], s) => s \in behind \/ Sums(mine, s),
         Drops(doing[r]) => dropped \/ Drops(mine)
  PROVE  ScoreInv'
<1>1. /\ stored' \in [Enrolled -> [value : Scores \cup {0, Null}, late : BOOLEAN]]
      /\ \A s \in Enrolled : /\ stored'[s].value = stored[s].value
                             /\ stored'[s].late <=> stored[s].late \/ s \in left
  <2>1. CASE stored' = Late(stored, left)
    BY <2>1, LateRows DEF ScoreInv
  <2>2. CASE left = {} /\ stored' = stored
    BY <2>2 DEF ScoreInv, ScoreTypeOK
  <2> QED BY <2>1, <2>2
<1>2. /\ summary' \in [Enrolled -> [value : Class \cup {Null}, late : BOOLEAN]]
      /\ \A s \in Enrolled : /\ summary'[s].value = summary[s].value
                             /\ summary'[s].late <=> summary[s].late \/ s \in behind
  BY LateRows DEF ScoreInv
<1>3. /\ cache' \in {Empty} \cup [at : {"full"}, value : Class, late : BOOLEAN]
      /\ dropped => (cache' # Empty => cache'.late)
      /\ ~dropped => cache' = cache
  BY LateCacheIs DEF ScoreInv, ScoreTypeOK
<1>4. ClassScores' = ClassScores /\ Ranking' = Ranking
  BY <1>1 DEF ClassScores, Ranking, source
<1>5. \A s \in Enrolled : Stale(s)' => Stale(s) /\ s \notin left
  BY <1>1 DEF Stale, source
<1>6. \A s \in Enrolled : Behind(s)' => Behind(s) /\ s \notin behind
  BY <1>1, <1>2, <1>4 DEF Behind
<1>7. Outdated' => Outdated /\ ~dropped
  BY <1>3, <1>4 DEF Outdated
<1>8. /\ doing'[r] = mine
      /\ \A o \in Handlers \ {r} :
           doing'[o] \in Handler /\ Keeps(doing[o], doing'[o]) /\ Sound(doing[o])'
  BY <1>4, OthersStill
<1>9. doing' \in [Handlers -> Handler]
  BY DEF ScoreInv, ScoreTypeOK
<1> QED BY <1>1, <1>2, <1>3, <1>5, <1>6, <1>7, <1>8, <1>9, WritingStep

LEMMA RejectStep ==
  ASSUME ScoreInv, NEW r \in Handlers, Reject(r)
  PROVE  ScoreInv'
<1> DEFINE q == doing[r]
           left == CASE q.at = "batch" -> q.done
                     [] q.at = "find" -> Enrolled
                     [] OTHER -> {}
           behind == IF Owes(r, "summary") THEN Enrolled ELSE {}
           lost == q.at = "batch" \/ Owes(r, "invalidate")
<1>1. /\ stored' = Late(stored, left)
      /\ summary' = Late(summary, behind)
      /\ cache' = IF lost THEN LateCache ELSE cache
      /\ doing' = [doing EXCEPT ![r] = Free]
      /\ UNCHANGED <<source, writes>>
      /\ q.at # "summary"
      /\ q.at = "derive" => \A s \in Enrolled : q.jobs[s] = NoJob
  BY DEF Reject, Derived
<1>2. \A s \in Enrolled : Recomputes(q, s) => s \in left
  <2>1. CASE q.at = "derive"
    BY <1>1, <2>1 DEF Recomputes
  <2>2. CASE q.at = "batch"
    BY <2>2 DEF Recomputes
  <2>3. CASE q.at = "find"
    BY <2>3 DEF Recomputes
  <2>4. CASE q.at \notin {"derive", "batch", "find"}
    BY <2>4 DEF Recomputes
  <2> QED BY <2>1, <2>2, <2>3, <2>4
<1>3. (\A s \in Enrolled : Sums(q, s) => s \in behind) /\ (Drops(q) => lost)
  BY <1>1 DEF Sums, Drops, OwesOf, Owes
<1>4. PICK dropped \in BOOLEAN : dropped <=> lost
  OBVIOUS
<1> HIDE DEF left, behind, lost, q
<1>5. cache' = IF dropped THEN LateCache ELSE cache
  BY <1>1, <1>4
<1>6. Free \in Handler /\ Sound(Free)'
  BY FreeIsSound, FreeIsSoundNext
<1> QED BY <1>1, <1>2, <1>3, <1>4, <1>5, <1>6, RejectedStep DEF q

LEMMA RejectJobStep ==
  ASSUME ScoreInv, NEW r \in Handlers, NEW s \in Enrolled, RejectJob(r, s)
  PROVE  ScoreInv'
<1> DEFINE q == doing[r]
           behind == IF Owes(r, "summary") THEN Enrolled ELSE {}
           lost == Owes(r, "invalidate")
<1>0. PICK mine : mine = [q EXCEPT !.jobs[s] = NoJob, !.plan = <<>>, !.silent = TRUE]
  OBVIOUS
<1>1. /\ q.at = "derive"
      /\ stored' = Late(stored, {s})
      /\ summary' = Late(summary, behind)
      /\ cache' = IF lost THEN LateCache ELSE cache
      /\ doing' = [doing EXCEPT ![r] = mine]
      /\ UNCHANGED <<source, writes>>
  BY <1>0 DEF RejectJob
<1>2. q \in DeriveHandler /\ Sound(q)
  BY <1>1, HandlerAt DEF ScoreInv, ScoreTypeOK
<1>3. /\ mine \in DeriveHandler /\ mine.at = "derive" /\ mine.plan = <<>> /\ mine.silent
      /\ \A t \in Enrolled : mine.jobs[t] = IF t = s THEN NoJob ELSE q.jobs[t]
  <2>1. NoJob \in Job /\ <<>> \in Plans
    BY DEF Job, NoJob, Plans
  <2> HIDE DEF q
  <2> QED BY <1>0, <1>2, <2>1 DEF DeriveHandler
<1>4. JobsSound(mine)
  BY <1>1, <1>2, <1>3 DEF Sound, JobsSound, JobSound, NoJob
<1>5. Sound(mine)
  BY <1>3, <1>4 DEF Sound, RowThere, Planned, ClassSound, RankSound
<1>6. Sound(mine)'
  BY <1>1, <1>3, <1>5, StillSound
<1>7. \A t \in Enrolled : Recomputes(q, t) => t \in {s} \/ Recomputes(mine, t)
  BY <1>1, <1>3 DEF Recomputes
<1>8. (\A t \in Enrolled : Sums(q, t) => t \in behind) /\ (Drops(q) => lost)
  BY <1>1 DEF Sums, Drops, OwesOf, Owes
<1>9. PICK dropped \in BOOLEAN : dropped <=> lost
  OBVIOUS
<1>10. mine \in Handler
  BY <1>3, HandlerKinds
<1> HIDE DEF behind, lost, q
<1>11. cache' = IF dropped THEN LateCache ELSE cache
  BY <1>1, <1>9
<1> QED BY <1>1, <1>6, <1>7, <1>8, <1>9, <1>10, <1>11, RejectedStep DEF q

LEMMA RejectUpsertStep ==
  ASSUME ScoreInv, NEW r \in Handlers, NEW s \in Enrolled, RejectUpsert(r, s)
  PROVE  ScoreInv'
<1> DEFINE q == doing[r]
           behind == IF Owes(r, "summary") THEN Enrolled ELSE {s}
           lost == Owes(r, "invalidate")
<1>0. PICK mine : mine = IF q.left = {s} THEN Free
                         ELSE [q EXCEPT !.left = @ \ {s}, !.plan = <<>>]
  OBVIOUS
<1>1. /\ q.at = "summary" /\ s \in q.left
      /\ summary' = Late(summary, behind)
      /\ cache' = IF lost THEN LateCache ELSE cache
      /\ doing' = [doing EXCEPT ![r] = mine]
      /\ UNCHANGED <<source, stored, writes>>
  BY <1>0 DEF RejectUpsert
<1>2. q \in SummaryHandler /\ Sound(q)
  BY <1>1, HandlerAt DEF ScoreInv, ScoreTypeOK
<1>3. ClassScores' = ClassScores
  BY <1>1 DEF ClassScores
<1>4. /\ mine \in Handler /\ Sound(mine)'
      /\ \A t \in Enrolled \ {s} : (t \in q.left) => Sums(mine, t)
  <2>1. CASE q.left = {s}
    BY <1>0, <2>1, FreeIsSound, FreeIsSoundNext
  <2>2. CASE q.left # {s}
    <3>1. mine = [q EXCEPT !.left = q.left \ {s}, !.plan = <<>>]
      BY <1>0, <2>2
    <3>2. /\ mine \in SummaryHandler /\ mine.at = "summary"
          /\ mine.left = q.left \ {s} /\ mine.late = q.late /\ mine.class = q.class
      <4>1. <<>> \in Plans
        BY DEF Plans
      <4> HIDE DEF q
      <4> QED BY <1>2, <3>1, <4>1 DEF SummaryHandler
    <3>3. mine.late \/ mine.class = ClassScores
      BY <1>1, <1>2, <3>2 DEF Sound, ClassSound
    <3>4. Sound(mine)'
      BY <1>3, <3>2, <3>3 DEF Sound, RowThere, JobsSound, Planned, ClassSound, RankSound
    <3> QED BY <3>2, <3>4, HandlerKinds DEF Sums
  <2> QED BY <2>1, <2>2
<1>5. \A t \in Enrolled : ~Recomputes(q, t)
  BY <1>1 DEF Recomputes
<1>6. \A t \in Enrolled : Sums(q, t) => t \in behind \/ Sums(mine, t)
  BY <1>1, <1>4 DEF Sums, OwesOf, Owes
<1>7. Drops(q) => lost
  BY <1>1 DEF Drops, OwesOf, Owes
<1>8. PICK dropped \in BOOLEAN : dropped <=> lost
  OBVIOUS
<1>9. PICK left : left = {}
  OBVIOUS
<1> HIDE DEF behind, lost, q
<1>10. cache' = IF dropped THEN LateCache ELSE cache
  BY <1>1, <1>8
<1> QED BY <1>1, <1>4, <1>5, <1>6, <1>7, <1>8, <1>9, <1>10, RejectedStep DEF q

-----------------------------------------------------------------------------
LEMMA ScoreInvInit == ScoreInit => ScoreInv
<1> SUFFICES ASSUME ScoreInit PROVE ScoreInv
  OBVIOUS
<1>1. ScoreTypeOK
  BY ScoresOK, FreeIsSound DEF ScoreInit, ScoreTypeOK, Empty
<1>2. \A r \in Handlers : Sound(doing[r])
  BY FreeIsSound DEF ScoreInit
<1>3. Explained
  BY DEF ScoreInit, Explained, Stale, Behind, Outdated
<1> QED BY <1>1, <1>2, <1>3 DEF ScoreInv, ScoreInit

LEMMA ScoreInvStep == ScoreInv /\ [ScoreNext]_scoreVars => ScoreInv'
<1> SUFFICES ASSUME ScoreInv, [ScoreNext]_scoreVars PROVE ScoreInv'
  OBVIOUS
<1>1. ASSUME NEW r \in Handlers, WriterStep(r) PROVE ScoreInv'
  BY <1>1, GradeWriteStep, BatchWriteStep, BatchEndStep, RuleWriteStep, RuleFindStep
  DEF WriterStep
<1>2. ASSUME NEW r \in Handlers, DeriveStep(r) PROVE ScoreInv'
  BY <1>2, JobRuleStep, JobRowsStep, JobWriteStep, DeriveEndStep, SummaryReadStep,
     SummaryWriteStep, InvalidateStep DEF DeriveStep
<1>3. ASSUME NEW r \in Handlers, RankStep(r) PROVE ScoreInv'
  BY <1>3, RankRuleStep, RankFillStep DEF RankStep
<1>4. ASSUME UNCHANGED scoreVars PROVE ScoreInv'
  <2>1. UNCHANGED <<source, stored, summary, cache, doing, writes>>
    BY <1>4 DEF scoreVars, source
  <2>2. ScoreTypeOK'
    BY <2>1 DEF ScoreInv, ScoreTypeOK, source
  <2>3. ASSUME NEW o \in Handlers PROVE Keeps(doing[o], doing'[o]) /\ Sound(doing[o])'
    <3>1. PICK q : q = doing[o]
      OBVIOUS
    <3>2. ClassScores' = ClassScores /\ doing'[o] = q
      BY <2>1, <3>1 DEF ClassScores
    <3>3. Sound(q)'
      BY <2>1, <3>1, <3>2, StillSound DEF ScoreInv
    <3> QED BY <3>1, <3>2, <3>3, SoundAfter DEF Keeps
  <2>4. /\ \A s \in Enrolled : (Stale(s)' => Stale(s)) /\ (Behind(s)' => Behind(s))
        /\ Outdated' => Outdated
    BY <2>1 DEF Stale, Behind, Outdated, ClassScores, Ranking, source
  <2>5. Explained'
    BY <2>3, <2>4, ExplainedAlone DEF ScoreInv
  <2> QED BY <2>1, <2>2, <2>3, <2>5 DEF ScoreInv, source
<1> QED BY <1>1, <1>2, <1>3, <1>4, SubmitStepKeeps, GradeReadStep, BatchStartStep,
           RuleReadStep, RankRowsStep, RejectStep, RejectJobStep, RejectUpsertStep,
           DeleteAssignmentStep, ScoreExpireStep
        DEF ScoreNext

LEMMA ScoreInvAlways == ScoreSpec => []ScoreInv
BY ScoreInvInit, ScoreInvStep, PTL DEF ScoreSpec

\* Every row, cached ranking and handler has its type (prisma/schema.prisma).
THEOREM ScoresTyped == ScoreSpec => []ScoreTypeOK
<1>1. ScoreInv => ScoreTypeOK
  BY DEF ScoreInv
<1> QED BY <1>1, ScoreInvAlways, PTL

\* A stored score that is not the score of the submissions is about to be
\* recomputed, or its last recomputation was overtaken or failed
\* (ranking.service.ts:44-58 read, 118-147 written).
THEOREM StoredScoresExplained == ScoreSpec => []StoredExplained
<1>1. ScoreInv => StoredExplained
  BY DEF ScoreInv, Explained, Stale, StoredExplained, Recomputing, Recomputes
<1> QED BY <1>1, ScoreInvAlways, PTL

\* A summary row of other scores than the stored ones is about to be computed
\* again, was overtaken, or follows a handler that recomputes none
\* (ranking.service.ts:170-181 read, 289-316 written).
THEOREM SummariesExplained == ScoreSpec => []SummaryExplained
<1>1. ScoreInv => SummaryExplained
  BY DEF ScoreInv, Explained, Behind, SummaryExplained, Sums, OwesOf, Owes
<1> QED BY <1>1, ScoreInvAlways, PTL

\* A cached ranking that is not the ranking of the graded submissions is about
\* to be dropped, or is late (student-ranking.service.ts:79-82 and 106-217).
THEOREM CachedRankingExplained == ScoreSpec => []CacheExplained
<1>1. ScoreInv => CacheExplained
  BY DEF ScoreInv, Explained, Outdated, CacheExplained, Drops, OwesOf, Owes
<1> QED BY <1>1, ScoreInvAlways, PTL
=============================================================================
