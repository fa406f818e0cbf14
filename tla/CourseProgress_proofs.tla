----------------------- MODULE CourseProgress_proofs -----------------------
(***************************************************************************)
(* The properties of CourseProgress, proved for any course, any editions   *)
(* of it, and any number of handlers, rows and certificates.               *)
(*                                                                         *)
(*   TypeOK                needs that rows are not more than a save        *)
(*                         remembers (RowsBounded);                        *)
(*   RowsUnique            needs what a save that found no row knows: a    *)
(*                         row of its key that there is now was created    *)
(*                         since (SavesNew);                               *)
(*   CertificateEarned     needs what a check holds that no edit has       *)
(*                         excused: what it has read is what there is, or  *)
(*                         was when its last read arrived (ChecksHold);    *)
(*   PendingOwned and FileNamesCertificate are inductive with TypeOK.      *)
(***************************************************************************)
EXTENDS ProgressViews, FiniteSetTheorems, TLAPS

SaveRequest == [at : {"save"}, kind : SaveKinds, key : Keys, done : BOOLEAN,
                found : 0..MaxRows, seen : 0..MaxRows]

EligibleRequest ==
    [at : {"eligible"}, left : SUBSET Reads, chapters : SUBSET ChapterIds,
     items : SUBSET Item, rows : Seq(ProgressRow), excused : BOOLEAN,
     earned : BOOLEAN]

CreateRequest == [at : {"create"}, by : {"student", "admin"}, earned : BOOLEAN]

FileRequest == [at : {"file", "revoke"}, id : 1..MaxIssued]

EditRequest == [at : {"edit"}, edition : Editions, known : SUBSET ChapterIds,
                upserts : SUBSET ChapterIds, drop : BOOLEAN,
                clears : SUBSET ChapterIds, wipes : SUBSET ChapterIds,
                creates : [ChapterIds -> Nat], gives : [ChapterIds -> Nat]]

Issued == [id : 1..MaxIssued, file : 0..MaxIssued, by : {"student", "admin"},
           earned : BOOLEAN, lost : BOOLEAN]

RowsBounded == Len(rows) <= MaxRows

SavesNew ==
    \A r \in Requests : req[r].at = "save" =>
        /\ req[r].seen <= Len(rows)
        /\ req[r].found = 0 =>
             \A i \in DOMAIN rows : Key(rows[i]) = req[r].key => req[r].seen < i

\* What a check knows that is under way and has not been excused.
CheckHolds(q) ==
    /\ q.left \notin {Reads, {}} =>
         /\ "chapters" \notin q.left => q.chapters = chapters
         /\ "items" \notin q.left => q.items = items
    /\ q.left = {} =>
         /\ IsFiniteSet(q.items)
         /\ \A x \in q.items : x.chapter \in q.chapters
    /\ "rows" \notin q.left =>
         q.earned = EarnedBy(IF q.left = {} THEN q.items ELSE items, q.rows)

ChecksHold ==
    \A r \in Requests :
        /\ req[r].at = "eligible" /\ ~req[r].excused => CheckHolds(req[r])
        /\ req[r].at = "create" /\ req[r].by = "student" => req[r].earned

IInv == TypeOK /\ RowsBounded

-----------------------------------------------------------------------------
LEMMA RequestKinds ==
  Request = {Idle} \cup SaveRequest \cup EligibleRequest \cup CreateRequest
              \cup FileRequest \cup EditRequest
BY DEF Request, SaveRequest, EligibleRequest, CreateRequest, FileRequest, EditRequest

\* What a request slot holds follows from how far its handler is.
LEMMA RequestAt ==
  ASSUME TypeOK, NEW r \in Requests
  PROVE  /\ req[r].at = "save" => req[r] \in SaveRequest
         /\ req[r].at = "eligible" => req[r] \in EligibleRequest
         /\ req[r].at = "create" => req[r] \in CreateRequest
         /\ req[r].at \in {"file", "revoke"} => req[r] \in FileRequest
         /\ req[r].at = "edit" => req[r] \in EditRequest
<1>1. req[r] \in Request
  BY DEF TypeOK
<1> QED
  BY <1>1, RequestKinds DEF Idle, SaveRequest, EligibleRequest, CreateRequest,
     FileRequest, EditRequest

\* A slot may be given any request.
LEMMA SlotType ==
  ASSUME TypeOK, NEW r \in Requests, NEW q \in Request,
         req' = [req EXCEPT ![r] = q]
  PROVE  req' \in [Requests -> Request]
BY DEF TypeOK

LEMMA IdleType == Idle \in Request
BY RequestKinds

\* Starting a handler takes a free slot and counts.
LEMMA StartsType ==
  ASSUME TypeOK, NEW r \in Requests, NEW q \in Request, Starts(r, q)
  PROVE  /\ req' \in [Requests -> Request]
         /\ started' \in 0..MaxRequests
BY ProgressOK DEF TypeOK, Starts

\* The certificate there is has an id.
LEMMA CertificateKinds ==
  ASSUME TypeOK
  PROVE  /\ certificate = None \/ certificate \in Issued
         /\ \A id \in 1..MaxIssued : certificate.id = id => certificate \in Issued
         /\ certificate # None => certificate.id \in 1..MaxIssued
BY ProgressOK DEF TypeOK, Certificate, Issued, None

\* Marking a row leaves the rows and their keys.
LEMMA MarkedRows ==
  ASSUME NEW s \in Seq(ProgressRow), NEW i, NEW b \in BOOLEAN
  PROVE  LET t == [s EXCEPT ![i].done = b] IN
         /\ t \in Seq(ProgressRow)
         /\ Len(t) = Len(s)
         /\ DOMAIN t = DOMAIN s
         /\ \A j \in DOMAIN s : Key(t[j]) = Key(s[j]) /\ t[j].seen = s[j].seen
<1> DEFINE t == [s EXCEPT ![i].done = b]
<1>1. s \in [1..Len(s) -> ProgressRow] /\ Len(s) \in Nat
  OBVIOUS
<1>2. DOMAIN t = 1..Len(s)
  BY <1>1
<1>3. \A j \in 1..Len(s) :
        t[j] \in ProgressRow /\ Key(t[j]) = Key(s[j]) /\ t[j].seen = s[j].seen
  <2> SUFFICES ASSUME NEW j \in 1..Len(s)
               PROVE  t[j] \in ProgressRow /\ Key(t[j]) = Key(s[j]) /\ t[j].seen = s[j].seen
    OBVIOUS
  <2>1. s[j] \in ProgressRow
    BY <1>1
  <2>2. t[j] = IF j = i THEN [s[j] EXCEPT !.done = b] ELSE s[j]
    BY <1>1
  <2>3. /\ [s[j] EXCEPT !.done = b] \in ProgressRow
        /\ [s[j] EXCEPT !.done = b].chapter = s[j].chapter
        /\ [s[j] EXCEPT !.done = b].item = s[j].item
        /\ [s[j] EXCEPT !.done = b].seen = s[j].seen
    BY <2>1 DEF ProgressRow
  <2> QED
    BY <2>1, <2>2, <2>3 DEF Key
<1>4. t \in [1..Len(s) -> ProgressRow]
  BY <1>2, <1>3
<1> QED
  BY <1>1, <1>3, <1>4

-----------------------------------------------------------------------------
\* Type correctness.

LEMMA InitIInv == Init => IInv
<1> SUFFICES ASSUME Init PROVE IInv
  OBVIOUS
<1>1. PICK e \in Editions, n, m \in 0..MaxItems :
        \E place \in [1..m -> DOMAIN e] :
          /\ n <= m
          /\ \A c \in DOMAIN e :
               /\ Cardinality({i \in 1..n : place[i] = c}) = e[c].items
               /\ Cardinality({i \in (n + 1)..m : place[i] = c}) = e[c].assignments
          /\ chapters = DOMAIN e
          /\ items = {[id |-> i, chapter |-> place[i]] : i \in 1..n}
          /\ assignments = {[id |-> i, chapter |-> place[i]] : i \in (n + 1)..m}
          /\ made = m
          /\ \E k \in 0..m :
               /\ k <= MaxRows
               /\ rows = [i \in 1..k |-> [chapter |-> place[i], item |-> i, done |-> TRUE,
                                          seen |-> 0]]
          /\ certificate = None
          /\ issued = 0
          /\ req = [r \in Requests |-> Idle]
          /\ started = 0
  BY ZenonT(60) DEF Init
<1>2. PICK place \in [1..m -> DOMAIN e] :
        /\ n <= m
        /\ chapters = DOMAIN e
        /\ items = {[id |-> i, chapter |-> place[i]] : i \in 1..n}
        /\ assignments = {[id |-> i, chapter |-> place[i]] : i \in (n + 1)..m}
        /\ made = m
        /\ \E k \in 0..m :
             /\ k <= MaxRows
             /\ rows = [i \in 1..k |-> [chapter |-> place[i], item |-> i, done |-> TRUE,
                                        seen |-> 0]]
  BY <1>1, Zenon
<1>3. PICK k \in 0..m :
        /\ k <= MaxRows
        /\ rows = [i \in 1..k |-> [chapter |-> place[i], item |-> i, done |-> TRUE,
                                   seen |-> 0]]
  BY <1>2
<1>4. DOMAIN e \subseteq ChapterIds /\ n \in Nat /\ m \in Nat /\ k \in Nat /\ m <= MaxItems
  BY ProgressOK
<1>5. /\ chapters \subseteq ChapterIds
      /\ items \cup assignments \subseteq Item
      /\ \A x \in items \cup assignments : x.chapter \in chapters /\ x.id <= made
      /\ \A x, y \in items \cup assignments : x.id = y.id => x = y
      /\ made \in 0..MaxItems
  <2>1. \A x \in items \cup assignments :
          \E i \in 1..m : x = [id |-> i, chapter |-> place[i]]
    BY <1>2, <1>4
  <2>2. \A i \in 1..m : place[i] \in DOMAIN e
    BY <1>2
  <2>3. chapters = DOMAIN e /\ made = m
    BY <1>2
  <2>4. chapters \subseteq ChapterIds /\ made \in 0..MaxItems
    BY <1>1, <1>4, <2>3
  <2>5. ASSUME NEW x \in items \cup assignments
        PROVE  x \in Item /\ x.chapter \in chapters /\ x.id <= made
    <3>1. PICK i \in 1..m : x = [id |-> i, chapter |-> place[i]]
      BY <2>1
    <3>2. i \in 1..MaxItems /\ i <= m
      BY <1>4, ProgressOK
    <3>3. place[i] \in ChapterIds
      BY <1>4, <2>2
    <3> QED
      BY <2>2, <2>3, <3>1, <3>2, <3>3 DEF Item
  <2>6. \A x, y \in items \cup assignments : x.id = y.id => x = y
    BY <2>1
  <2> QED
    BY <2>4, <2>5, <2>6
<1>6. \A i \in 1..k : [chapter |-> place[i], item |-> i, done |-> TRUE, seen |-> 0]
                        \in ProgressRow
  BY <1>4, ProgressOK DEF ProgressRow
<1>7. rows \in Seq(ProgressRow) /\ Len(rows) <= MaxRows
  <2>1. rows \in [1..k -> ProgressRow]
    BY <1>3, <1>6
  <2>2. rows \in Seq(ProgressRow)
    BY <1>4, <2>1
  <2>3. Len(rows) = k
    BY <1>4, <2>1
  <2> QED
    BY <1>3, <2>2, <2>3
<1>8. /\ certificate \in Certificate
      /\ certificate.id <= issued
      /\ issued \in 0..MaxIssued
      /\ req \in [Requests -> Request]
      /\ started \in 0..MaxRequests
  <2>1. /\ certificate = None
        /\ issued = 0
        /\ req = [r \in Requests |-> Idle]
        /\ started = 0
    BY DEF Init
  <2>2. MaxIssued \in Nat /\ MaxRequests \in Nat
    BY ProgressOK
  <2>3. certificate \in Certificate
    BY <2>1 DEF Certificate
  <2>4. certificate.id = 0
    BY <2>1 DEF None
  <2>5. req \in [Requests -> Request]
    BY <2>1, IdleType
  <2>6. certificate.id <= issued /\ issued \in 0..MaxIssued /\ started \in 0..MaxRequests
    BY <2>1, <2>2, <2>4
  <2> QED
    BY <2>1, <2>3, <2>5, <2>6, Zenon
<1> QED
  BY <1>5, <1>7, <1>8 DEF IInv, TypeOK, RowsBounded

LEMMA SaveIInv ==
  ASSUME IInv, NEW r \in Requests, SaveStep(r)
  PROVE  IInv'
<1> USE DEF IInv
<1>1. ASSUME NEW kind \in SaveKinds, NEW key \in Keys, NEW done \in BOOLEAN,
             SaveFind(r, kind, key, done)
      PROVE  IInv'
  <2> DEFINE found == {i \in DOMAIN rows : Matches(kind, key, rows[i])}
  <2>0. found \subseteq 0..MaxRows /\ 0 \in 0..MaxRows
    BY ProgressOK DEF TypeOK, RowsBounded
  <2>1. PICK i \in IF found = {} THEN {0} ELSE found :
          Starts(r, [at |-> "save", kind |-> kind, key |-> key, done |-> done,
                     found |-> i, seen |-> Len(rows)])
    BY <1>1 DEF SaveFind
  <2>2. Len(rows) \in 0..MaxRows
    BY DEF TypeOK, RowsBounded
  <2>3. [at |-> "save", kind |-> kind, key |-> key, done |-> done,
         found |-> i, seen |-> Len(rows)] \in Request
    BY <2>0, <2>2, RequestKinds DEF SaveRequest
  <2> QED
    BY <1>1, <2>1, <2>3, StartsType DEF SaveFind, TypeOK, RowsBounded
<1>2. CASE SaveUpdate(r)
  <2>1. req[r] \in SaveRequest
    BY <1>2, RequestAt DEF SaveUpdate
  <2>2. rows' \in Seq(ProgressRow) /\ Len(rows') = Len(rows)
    <3>1. CASE req[r].kind = "viewed"
      BY <1>2, <3>1 DEF SaveUpdate, TypeOK
    <3>2. CASE req[r].kind # "viewed"
      <4>1. req[r].done \in BOOLEAN /\ rows \in Seq(ProgressRow)
        BY <2>1 DEF SaveRequest, TypeOK
      <4>2. rows' = [rows EXCEPT ![req[r].found].done = req[r].done]
        BY <1>2, <3>2 DEF SaveUpdate
      <4> QED BY <4>1, <4>2, MarkedRows
    <3> QED BY <3>1, <3>2
  <2> QED
    BY <1>2, <2>2, IdleType, SlotType DEF SaveUpdate, TypeOK, RowsBounded
<1>3. CASE SaveCreate(r)
  <2>1. req[r] \in SaveRequest
    BY <1>3, RequestAt DEF SaveCreate
  <2>2. req[r].key[1] \in ChapterIds \cup {NoChapter} /\ req[r].key[2] \in Nat
    BY <2>1, ProgressOK DEF SaveRequest
  <2>3. [chapter |-> req[r].key[1], item |-> req[r].key[2], done |-> req[r].done,
         seen |-> req[r].seen] \in ProgressRow
    BY <2>1, <2>2 DEF SaveRequest, ProgressRow
  <2>4. rows' \in Seq(ProgressRow) /\ Len(rows') <= MaxRows
    BY <1>3, <2>3, ProgressOK DEF SaveCreate, TypeOK, RowsBounded
  <2> QED
    BY <1>3, <2>4, IdleType, SlotType DEF SaveCreate, TypeOK, RowsBounded
<1> QED
  BY <1>1, <1>2, <1>3 DEF SaveStep

LEMMA CertificateIInv ==
  ASSUME IInv, NEW r \in Requests, CertificateStep(r)
  PROVE  IInv'
<1> USE DEF IInv
<1>1. CASE GenerateStart(r)
  <2>1. [at |-> "eligible", left |-> Reads, chapters |-> {}, items |-> {},
         rows |-> <<>>, excused |-> FALSE, earned |-> FALSE] \in Request
    BY RequestKinds DEF EligibleRequest
  <2> QED
    BY <1>1, <2>1, StartsType DEF GenerateStart, TypeOK, RowsBounded
<1>2. ASSUME NEW table \in Reads, GenerateRead(r, table)
      PROVE  IInv'
  <2>1. req[r] \in EligibleRequest
    BY <1>2, RequestAt DEF GenerateRead
  <2> DEFINE earned == IF table = "rows" THEN Earned ELSE req[r].earned
             next(b) ==
               [req[r] EXCEPT !.left = @ \ {table},
                              !.chapters = IF table = "chapters" THEN chapters ELSE @,
                              !.items = IF table = "items" THEN items ELSE @,
                              !.rows = IF table = "rows" THEN rows ELSE @,
                              !.earned = b]
  <2>2. Earned \in BOOLEAN
    BY DEF Earned, EarnedBy
  <2>3. earned \in BOOLEAN
    BY <2>1, <2>2 DEF EligibleRequest
  <2>4. req' = [req EXCEPT ![r] = next(earned)]
    BY <1>2, Zenon DEF GenerateRead
  <2>5. ASSUME NEW b \in BOOLEAN
        PROVE  next(b) \in EligibleRequest
    BY <2>1 DEF EligibleRequest, TypeOK
  <2>6. next(earned) \in Request
    BY <2>3, <2>5, RequestKinds, Zenon
  <2> HIDE DEF next, earned
  <2> QED
    BY <1>2, <2>4, <2>6, SlotType DEF GenerateRead, TypeOK, RowsBounded
<1>3. CASE GenerateFind(r)
  <2>1. req[r] \in EligibleRequest
    BY <1>3, RequestAt DEF GenerateFind
  <2>2. PICK b \in BOOLEAN : b = (req[r].earned \/ req[r].excused)
    <3>1. \E b \in BOOLEAN : b = (req[r].earned \/ req[r].excused)
      OBVIOUS
    <3> QED
      BY <3>1
  <2>3. [at |-> "create", by |-> "student", earned |-> b] \in Request
    BY RequestKinds DEF CreateRequest
  <2>4. \/ req' = [req EXCEPT ![r] = Idle]
        \/ req' = [req EXCEPT ![r] = [at |-> "create", by |-> "student", earned |-> b]]
    BY <1>3, <2>2, Zenon DEF GenerateFind
  <2> QED
    BY <1>3, <2>3, <2>4, IdleType, SlotType DEF GenerateFind, TypeOK, RowsBounded
<1>4. CASE BatchFind(r)
  <2>1. [at |-> "create", by |-> "admin", earned |-> FALSE] \in Request
    BY RequestKinds DEF CreateRequest
  <2> QED
    BY <1>4, <2>1, StartsType DEF BatchFind, TypeOK, RowsBounded
<1>5. CASE CertificateCreate(r)
  <2>1. req[r] \in CreateRequest
    BY <1>5, RequestAt DEF CertificateCreate
  <2>2. issued \in 0..MaxIssued /\ issued < MaxIssued /\ MaxIssued \in Nat
    BY <1>5, ProgressOK DEF CertificateCreate, TypeOK
  <2>3. CASE certificate = None
    <3>1. [at |-> "file", id |-> issued + 1] \in Request
      BY <2>2, RequestKinds DEF FileRequest
    <3>2. /\ issued' = issued + 1
          /\ certificate' = [id |-> issued + 1, file |-> 0, by |-> req[r].by,
                              earned |-> req[r].earned, lost |-> FALSE]
      BY <1>5, <2>3 DEF CertificateCreate
    <3>3. certificate' \in Certificate
      BY <2>1, <2>2, <3>2 DEF CreateRequest, Certificate
    <3>4. certificate'.id <= issued' /\ issued' \in 0..MaxIssued
      BY <2>2, <3>2
    <3> QED
      BY <1>5, <2>3, <3>1, <3>3, <3>4, SlotType DEF CertificateCreate, TypeOK, RowsBounded
  <2>4. CASE certificate # None
    BY <1>5, <2>4, IdleType, SlotType DEF CertificateCreate, TypeOK, RowsBounded
  <2> QED
    BY <2>3, <2>4
<1>6. CASE CertificateFile(r)
  <2>1. req[r].id \in 1..MaxIssued
    BY <1>6, RequestAt DEF CertificateFile, FileRequest
  <2>2. certificate' \in Certificate /\ certificate'.id = certificate.id
    <3>1. CASE certificate.id = req[r].id
      <4>1. certificate \in Issued
        BY <2>1, <3>1, CertificateKinds
      <4>2. certificate' = [certificate EXCEPT !.file = req[r].id]
        BY <1>6, <3>1 DEF CertificateFile
      <4>3. certificate' \in Issued /\ certificate'.id = certificate.id
        BY <2>1, <4>1, <4>2, ProgressOK DEF Issued
      <4> QED BY <4>3 DEF Issued, Certificate
    <3>2. CASE certificate.id # req[r].id
      BY <1>6, <3>2 DEF CertificateFile, TypeOK
    <3> QED BY <3>1, <3>2
  <2> QED
    BY <1>6, <2>2, IdleType, SlotType DEF CertificateFile, TypeOK, RowsBounded
<1>7. ASSUME NEW what \in {"file", "revoke"}, AdminFind(r, what)
      PROVE  IInv'
  <2>1. [at |-> what, id |-> certificate.id] \in Request
    BY <1>7, CertificateKinds, RequestKinds DEF AdminFind, FileRequest
  <2> QED
    BY <1>7, <2>1, StartsType DEF AdminFind, TypeOK, RowsBounded
<1>8. CASE Revoke(r)
  <2>1. certificate' \in Certificate /\ certificate'.id <= issued
    BY <1>8 DEF Revoke, TypeOK, Certificate, None
  <2> QED
    BY <1>8, <2>1, IdleType, SlotType DEF Revoke, TypeOK, RowsBounded
<1> QED
  BY <1>1, <1>2, <1>3, <1>4, <1>5, <1>6, <1>7, <1>8 DEF CertificateStep

\* An edit that goes on touches its own slot and the checks it excuses.
LEMMA EditGoesType ==
  ASSUME TypeOK, NEW r \in Requests, NEW q \in EditRequest, EditGoes(r, q)
  PROVE  req' \in [Requests -> Request]
<1>1. ASSUME NEW o \in Requests
      PROVE  req'[o] \in Request
  <2>1. CASE o = r
    BY <2>1, IdleType, RequestKinds DEF EditGoes
  <2>2. CASE o # r /\ req[o].at = "eligible" /\ req[o].left \notin {Reads, {}}
    <3>1. req[o] \in EligibleRequest
      BY <2>2, RequestAt
    <3>2. [req[o] EXCEPT !.excused = TRUE] \in Request
      BY <3>1, RequestKinds DEF EligibleRequest
    <3> QED
      BY <2>2, <3>2 DEF EditGoes
  <2>3. CASE o # r /\ ~(req[o].at = "eligible" /\ req[o].left \notin {Reads, {}})
    BY <2>3 DEF EditGoes, TypeOK
  <2> QED
    BY <2>1, <2>2, <2>3
<1>2. \E f : req' = [o \in Requests |-> f[o]]
  <2>1. req' = [o \in Requests |->
                  IF o = r THEN IF Over(q) THEN Idle ELSE q
                  ELSE IF req[o].at = "eligible" /\ req[o].left \notin {Reads, {}}
                       THEN [req[o] EXCEPT !.excused = TRUE]
                       ELSE req[o]]
    BY DEF EditGoes
  <2>2. req' = [o \in Requests |-> req'[o]]
    BY <2>1
  <2> QED
    BY <2>2
<1> QED
  BY <1>1, <1>2

\* An edit that goes on after a call about assignments.
LEMMA EditStaysType ==
  ASSUME TypeOK, NEW r \in Requests, NEW q \in EditRequest, EditStays(r, q)
  PROVE  req' \in [Requests -> Request]
BY IdleType, RequestKinds DEF EditStays, TypeOK

LEMMA EditIInv ==
  ASSUME IInv, NEW r \in Requests, EditStep(r)
  PROVE  IInv'
<1> USE DEF IInv
<1>1. ASSUME NEW e \in Editions, EditFind(r, e)
      PROVE  IInv'
  <2> DEFINE creates == [c \in ChapterIds |-> IF c \in DOMAIN e THEN e[c].items ELSE 0]
             gives == [c \in ChapterIds |-> IF c \in DOMAIN e THEN e[c].assignments ELSE 0]
             q == [at |-> "edit", edition |-> e, known |-> chapters,
                   upserts |-> DOMAIN e, drop |-> TRUE, clears |-> DOMAIN e,
                   wipes |-> DOMAIN e, creates |-> creates, gives |-> gives]
  <2>1. DOMAIN e \subseteq ChapterIds /\ e \in [DOMAIN e -> [items : Nat, assignments : Nat]]
    BY ProgressOK
  <2>2. creates \in [ChapterIds -> Nat] /\ gives \in [ChapterIds -> Nat]
    BY <2>1
  <2> HIDE DEF creates, gives
  <2>3. q \in Request
    BY <2>1, <2>2, RequestKinds DEF EditRequest, TypeOK
  <2>4. Starts(r, q) /\ UNCHANGED <<chapters, items, assignments, made, rows, certificate, issued>>
    BY <1>1 DEF EditFind, creates, gives
  <2> HIDE DEF q
  <2> QED
    BY <2>3, <2>4, StartsType DEF TypeOK, RowsBounded
<1>2. ASSUME NEW c \in ChapterIds, EditUpsert(r, c)
      PROVE  IInv'
  <2>1. req[r] \in EditRequest
    BY <1>2, RequestAt DEF EditUpsert, Editing
  <2>2. CASE (c \in req[r].known) = (c \in chapters)
    <3>1. [req[r] EXCEPT !.upserts = @ \ {c}] \in EditRequest
      BY <2>1 DEF EditRequest
    <3>2. EditGoes(r, [req[r] EXCEPT !.upserts = @ \ {c}]) /\ chapters' = chapters \cup {c}
      BY <1>2, <2>2 DEF EditUpsert
    <3> QED
      BY <1>2, <3>1, <3>2, EditGoesType DEF EditUpsert, TypeOK, RowsBounded
  <2>3. CASE (c \in req[r].known) # (c \in chapters)
    BY <1>2, <2>3, IdleType, SlotType DEF EditUpsert, TypeOK, RowsBounded
  <2> QED
    BY <2>2, <2>3
<1>3. ASSUME NEW c \in ChapterIds, EditWipe(r, c)
      PROVE  IInv'
  <2>1. req[r] \in EditRequest
    BY <1>3, RequestAt DEF EditWipe, Editing
  <2>2. [req[r] EXCEPT !.wipes = @ \ {c}] \in EditRequest
    BY <2>1 DEF EditRequest
  <2> QED
    BY <1>3, <2>2, EditGoesType DEF EditWipe, TypeOK, RowsBounded
<1>4. ASSUME NEW c \in ChapterIds, EditCreate(r, c)
      PROVE  IInv'
  <2>1. req[r] \in EditRequest
    BY <1>4, RequestAt DEF EditCreate, Editing
  <2>2. CASE c \in chapters
    <3>1. [req[r] EXCEPT !.creates[c] = @ - 1] \in EditRequest
      <4>1. req[r].creates \in [ChapterIds -> Nat] /\ req[r].creates[c] > 0
        BY <1>4, <2>1 DEF EditCreate, EditRequest
      <4>2. [req[r].creates EXCEPT ![c] = @ - 1] \in [ChapterIds -> Nat]
        BY <4>1
      <4> QED
        BY <2>1, <4>2 DEF EditRequest
    <3>2. made \in 0..MaxItems /\ made < MaxItems /\ MaxItems \in Nat
      BY <1>4, ProgressOK DEF EditCreate, TypeOK
    <3>3. /\ made' = made + 1
          /\ items' = items \cup {[id |-> made + 1, chapter |-> c]}
          /\ EditGoes(r, [req[r] EXCEPT !.creates[c] = @ - 1])
          /\ UNCHANGED <<chapters, assignments, rows, certificate, issued, started>>
      BY <1>4, <2>2 DEF EditCreate
    <3>4. /\ (items \cup assignments)' \subseteq Item
          /\ \A x \in (items \cup assignments)' : x.chapter \in chapters /\ x.id <= made'
          /\ \A x, y \in (items \cup assignments)' : x.id = y.id => x = y
          /\ made' \in 0..MaxItems
      BY <2>2, <3>2, <3>3 DEF TypeOK, Item
    <3> QED
      BY <3>1, <3>3, <3>4, EditGoesType DEF TypeOK, RowsBounded
  <2>3. CASE c \notin chapters
    BY <1>4, <2>3, IdleType, SlotType DEF EditCreate, TypeOK, RowsBounded
  <2> QED
    BY <2>2, <2>3
<1>5. CASE EditDrop(r)
  <2>1. req[r] \in EditRequest
    BY <1>5, RequestAt DEF EditDrop, Editing
  <2>2. [req[r] EXCEPT !.drop = FALSE] \in EditRequest
    BY <2>1 DEF EditRequest
  <2> QED
    BY <1>5, <2>2, EditGoesType DEF EditDrop, TypeOK, RowsBounded
<1>6. ASSUME NEW c \in ChapterIds, EditClear(r, c)
      PROVE  IInv'
  <2>1. req[r] \in EditRequest
    BY <1>6, RequestAt DEF EditClear, Editing
  <2>2. [req[r] EXCEPT !.clears = @ \ {c}] \in EditRequest
    BY <2>1 DEF EditRequest
  <2> QED
    BY <1>6, <2>2, EditStaysType DEF EditClear, TypeOK, RowsBounded
<1>7. ASSUME NEW c \in ChapterIds, EditGive(r, c)
      PROVE  IInv'
  <2>1. req[r] \in EditRequest
    BY <1>7, RequestAt DEF EditGive, Editing
  <2>2. CASE c \in chapters
    <3>1. [req[r] EXCEPT !.gives[c] = @ - 1] \in EditRequest
      <4>1. req[r].gives \in [ChapterIds -> Nat] /\ req[r].gives[c] > 0
        BY <1>7, <2>1 DEF EditGive, EditRequest
      <4>2. [req[r].gives EXCEPT ![c] = @ - 1] \in [ChapterIds -> Nat]
        BY <4>1
      <4> QED
        BY <2>1, <4>2 DEF EditRequest
    <3>2. made \in 0..MaxItems /\ made < MaxItems /\ MaxItems \in Nat
      BY <1>7, ProgressOK DEF EditGive, TypeOK
    <3>3. /\ made' = made + 1
          /\ assignments' = assignments \cup {[id |-> made + 1, chapter |-> c]}
          /\ EditStays(r, [req[r] EXCEPT !.gives[c] = @ - 1])
          /\ UNCHANGED <<chapters, items, rows, certificate, issued, started>>
      BY <1>7, <2>2 DEF EditGive
    <3>4. /\ (items \cup assignments)' \subseteq Item
          /\ \A x \in (items \cup assignments)' : x.chapter \in chapters /\ x.id <= made'
          /\ \A x, y \in (items \cup assignments)' : x.id = y.id => x = y
          /\ made' \in 0..MaxItems
      BY <2>2, <3>2, <3>3 DEF TypeOK, Item
    <3> QED
      BY <3>1, <3>3, <3>4, EditStaysType DEF TypeOK, RowsBounded
  <2>3. CASE c \notin chapters
    BY <1>7, <2>3, IdleType, SlotType DEF EditGive, TypeOK, RowsBounded
  <2> QED
    BY <2>2, <2>3
<1> QED
  BY <1>1, <1>2, <1>3, <1>4, <1>5, <1>6, <1>7 DEF EditStep

LEMMA FailIInv ==
  ASSUME IInv, NEW r \in Requests, Fail(r)
  PROVE  IInv'
<1>1. certificate' \in Certificate /\ certificate'.id = certificate.id
  <2>1. CASE req[r].at = "file" /\ certificate.id = req[r].id
    <3>1. certificate \in Issued
      BY <2>1, RequestAt, CertificateKinds DEF IInv, FileRequest
    <3> QED
      BY <2>1, <3>1 DEF Fail, Issued, Certificate
  <2>2. CASE ~(req[r].at = "file" /\ certificate.id = req[r].id)
    BY <2>2 DEF Fail, IInv, TypeOK
  <2> QED
    BY <2>1, <2>2
<1> QED
  BY <1>1, IdleType, SlotType DEF Fail, IInv, TypeOK, RowsBounded

LEMMA NextIInv == IInv /\ [Next]_vars => IInv'
<1> SUFFICES ASSUME IInv, [Next]_vars PROVE IInv'
  OBVIOUS
<1>1. ASSUME NEW r \in Requests,
             SaveStep(r) \/ CertificateStep(r) \/ EditStep(r) \/ Fail(r)
      PROVE  IInv'
  BY <1>1, SaveIInv, CertificateIInv, EditIInv, FailIInv
<1>2. CASE UNCHANGED vars
  BY <1>2 DEF vars, IInv, TypeOK, RowsBounded
<1> QED
  BY <1>1, <1>2 DEF Next

\* Chapters, items, rows, the certificate and the requests keep their types;
\* every item is in a chapter of the course and no id is used twice.
THEOREM TypeCorrect == Spec => []TypeOK
<1>1. Spec => []IInv
  BY InitIInv, NextIInv, PTL DEF Spec
<1>2. IInv => TypeOK
  BY DEF IInv
<1> QED
  BY <1>1, <1>2, PTL

-----------------------------------------------------------------------------
\* The file of a certificate.

\* A file is stored only in the row whose id it was drawn for.
LEMMA NextFileNames ==
  ASSUME IInv, FileNamesCertificate, [Next]_vars
  PROVE  FileNamesCertificate'
<1>1. ASSUME NEW r \in Requests, CertificateCreate(r)
      PROVE  FileNamesCertificate'
  BY <1>1 DEF CertificateCreate, FileNamesCertificate
<1>2. ASSUME NEW r \in Requests, CertificateFile(r)
      PROVE  FileNamesCertificate'
  <2>1. CASE certificate.id = req[r].id
    <3>1. certificate \in Issued
      BY <1>2, <2>1, RequestAt, CertificateKinds DEF CertificateFile, IInv, FileRequest
    <3> QED
      BY <1>2, <2>1, <3>1 DEF CertificateFile, Issued, FileNamesCertificate
  <2>2. CASE certificate.id # req[r].id
    BY <1>2, <2>2 DEF CertificateFile, FileNamesCertificate
  <2> QED
    BY <2>1, <2>2
<1>3. ASSUME NEW r \in Requests, Fail(r)
      PROVE  FileNamesCertificate'
  <2>1. CASE req[r].at = "file" /\ certificate.id = req[r].id
    <3>1. certificate \in Issued
      BY <2>1, RequestAt, CertificateKinds DEF IInv, FileRequest
    <3>2. certificate # None /\ certificate'.id = certificate.id
          /\ certificate'.file = certificate.file
      BY <1>3, <2>1, <3>1 DEF Fail, Issued, None
    <3> QED
      BY <3>2 DEF FileNamesCertificate
  <2>2. CASE ~(req[r].at = "file" /\ certificate.id = req[r].id)
    BY <1>3, <2>2 DEF Fail, FileNamesCertificate
  <2> QED
    BY <2>1, <2>2
<1>4. ASSUME NEW r \in Requests, Revoke(r)
      PROVE  FileNamesCertificate'
  BY <1>4 DEF Revoke, FileNamesCertificate
<1>5. ASSUME UNCHANGED certificate
      PROVE  FileNamesCertificate'
  BY <1>5 DEF FileNamesCertificate
<1>6. ASSUME NEW r \in Requests, SaveStep(r) \/ EditStep(r)
      PROVE  UNCHANGED certificate
  BY <1>6 DEF SaveStep, SaveFind, SaveUpdate, SaveCreate, EditStep, EditFind,
     EditUpsert, EditDrop, EditClear, EditWipe, EditCreate, EditGive
<1>7. ASSUME NEW r \in Requests, CertificateStep(r)
      PROVE  FileNamesCertificate'
  BY <1>1, <1>2, <1>4, <1>5, <1>7 DEF CertificateStep, GenerateStart, GenerateRead,
     GenerateFind, BatchFind, AdminFind
<1> QED
  BY <1>3, <1>5, <1>6, <1>7 DEF Next, vars

\* However certificates are issued, drawn anew and revoked, the file of one
\* is never that of another.
THEOREM FilesNameCertificates == Spec => []FileNamesCertificate
<1>1. Init => FileNamesCertificate
  BY DEF Init, FileNamesCertificate
<1>2. Spec => [](IInv /\ FileNamesCertificate)
  BY <1>1, InitIInv, NextIInv, NextFileNames, PTL DEF Spec
<1> QED
  BY <1>2, PTL

-----------------------------------------------------------------------------
\* Pending certificates.

\* A slot at work on a file stays so until it has stored it, or fails.
LEMMA NextPending ==
  ASSUME IInv, PendingOwned, [Next]_vars
  PROVE  PendingOwned'
<1>1. ASSUME UNCHANGED certificate,
             \A o \in Requests : req[o].at = "file" => req'[o] = req[o]
      PROVE  PendingOwned'
  BY <1>1 DEF PendingOwned
<1>2. ASSUME NEW r \in Requests, NEW q, Starts(r, q)
      PROVE  \A o \in Requests : req[o].at = "file" => req'[o] = req[o]
  BY <1>2 DEF Starts, Idle, IInv, TypeOK
<1>3. ASSUME NEW r \in Requests, NEW q, req[r].at # "file",
             req' = [req EXCEPT ![r] = q]
      PROVE  \A o \in Requests : req[o].at = "file" => req'[o] = req[o]
  BY <1>3 DEF IInv, TypeOK
<1>4. ASSUME NEW r \in Requests, NEW q, Editing(r), EditGoes(r, q)
      PROVE  \A o \in Requests : req[o].at = "file" => req'[o] = req[o]
  BY <1>4 DEF Editing, EditGoes
<1>5. ASSUME NEW r \in Requests, NEW q, Editing(r), EditStays(r, q)
      PROVE  \A o \in Requests : req[o].at = "file" => req'[o] = req[o]
  BY <1>5 DEF Editing, EditStays, IInv, TypeOK
<1>6. ASSUME NEW r \in Requests, SaveStep(r)
      PROVE  PendingOwned'
  <2>1. CASE \E kind \in SaveKinds, key \in Keys, done \in BOOLEAN :
               SaveFind(r, kind, key, done)
    BY <1>1, <1>2, <2>1 DEF SaveFind
  <2>2. CASE SaveUpdate(r)
    BY <1>1, <1>3, <2>2 DEF SaveUpdate
  <2>3. CASE SaveCreate(r)
    BY <1>1, <1>3, <2>3 DEF SaveCreate
  <2> QED
    BY <1>6, <2>1, <2>2, <2>3 DEF SaveStep
<1>7. ASSUME NEW r \in Requests, EditStep(r)
      PROVE  PendingOwned'
  <2>1. ASSUME NEW e \in Editions, EditFind(r, e)
        PROVE  PendingOwned'
    BY <1>1, <1>2, <2>1 DEF EditFind
  <2>2. ASSUME NEW c \in ChapterIds, EditUpsert(r, c)
        PROVE  PendingOwned'
    BY <1>1, <1>3, <1>4, <2>2 DEF EditUpsert, Editing
  <2>3. ASSUME NEW c \in ChapterIds, EditWipe(r, c)
        PROVE  PendingOwned'
    BY <1>1, <1>4, <2>3 DEF EditWipe
  <2>4. ASSUME NEW c \in ChapterIds, EditCreate(r, c)
        PROVE  PendingOwned'
    BY <1>1, <1>3, <1>4, <2>4 DEF EditCreate, Editing
  <2>5. CASE EditDrop(r)
    BY <1>1, <1>4, <2>5 DEF EditDrop
  <2>6. ASSUME NEW c \in ChapterIds, EditClear(r, c)
        PROVE  PendingOwned'
    BY <1>1, <1>5, <2>6 DEF EditClear
  <2>7. ASSUME NEW c \in ChapterIds, EditGive(r, c)
        PROVE  PendingOwned'
    BY <1>1, <1>3, <1>5, <2>7 DEF EditGive, Editing
  <2> QED
    BY <1>7, <2>1, <2>2, <2>3, <2>4, <2>5, <2>6, <2>7 DEF EditStep
<1>8. ASSUME NEW r \in Requests, CertificateStep(r)
      PROVE  PendingOwned'
  <2>1. CASE GenerateStart(r)
    BY <1>1, <1>2, <2>1 DEF GenerateStart
  <2>2. ASSUME NEW table \in Reads, GenerateRead(r, table)
        PROVE  PendingOwned'
    BY <1>1, <1>3, <2>2 DEF GenerateRead
  <2>3. CASE GenerateFind(r)
    BY <1>1, <1>3, <2>3 DEF GenerateFind
  <2>4. CASE BatchFind(r)
    BY <1>1, <1>2, <2>4 DEF BatchFind
  <2>5. CASE CertificateCreate(r)
    <3>1. CASE certificate = None
      <4>1. certificate'.id = issued + 1 /\ req'[r] = [at |-> "file", id |-> issued + 1]
        BY <2>5, <3>1 DEF CertificateCreate, IInv, TypeOK
      <4>2. req'[r].at = "file" /\ req'[r].id = certificate'.id
        BY <4>1
      <4> QED
        BY <4>2 DEF PendingOwned
    <3>2. CASE certificate # None
      BY <1>1, <1>3, <2>5, <3>2 DEF CertificateCreate
    <3> QED
      BY <3>1, <3>2
  <2>6. CASE CertificateFile(r)
    <3>1. CASE certificate.id = req[r].id
      <4>1. certificate \in Issued /\ req[r].id \in 1..MaxIssued
        BY <2>6, <3>1, RequestAt, CertificateKinds DEF CertificateFile, IInv, FileRequest
      <4>2. certificate'.file = req[r].id
        BY <2>6, <3>1, <4>1 DEF CertificateFile, Issued
      <4> QED
        BY <4>1, <4>2 DEF PendingOwned
    <3>2. CASE certificate.id # req[r].id
      BY <2>6, <3>2 DEF CertificateFile, PendingOwned, IInv, TypeOK
    <3> QED
      BY <3>1, <3>2
  <2>7. ASSUME NEW what \in {"file", "revoke"}, AdminFind(r, what)
        PROVE  PendingOwned'
    BY <1>1, <1>2, <2>7 DEF AdminFind
  <2>8. CASE Revoke(r)
    <3>1. CASE certificate.id = req[r].id
      BY <2>8, <3>1 DEF Revoke, PendingOwned
    <3>2. CASE certificate.id # req[r].id
      BY <1>1, <1>3, <2>8, <3>2 DEF Revoke
    <3> QED
      BY <3>1, <3>2
  <2> QED
    BY <1>8, <2>1, <2>2, <2>3, <2>4, <2>5, <2>6, <2>7, <2>8 DEF CertificateStep
<1>9. ASSUME NEW r \in Requests, Fail(r)
      PROVE  PendingOwned'
  <2>1. CASE req[r].at = "file" /\ certificate.id = req[r].id
    <3>1. certificate \in Issued
      BY <2>1, RequestAt, CertificateKinds DEF IInv, FileRequest
    <3>2. certificate'.lost
      BY <1>9, <2>1, <3>1 DEF Fail, Issued
    <3> QED
      BY <3>2 DEF PendingOwned
  <2>2. CASE ~(req[r].at = "file" /\ certificate.id = req[r].id)
    BY <1>9, <2>2 DEF Fail, PendingOwned, IInv, TypeOK
  <2> QED
    BY <2>1, <2>2
<1>10. CASE UNCHANGED vars
  BY <1>10 DEF vars, PendingOwned
<1> QED
  BY <1>6, <1>7, <1>8, <1>9, <1>10 DEF Next

\* A certificate is pending only while a handler is at work on its file, or
\* after the handler that was has failed.
THEOREM PendingAreOwned == Spec => []PendingOwned
<1>1. Init => PendingOwned
  BY DEF Init, PendingOwned
<1>2. Spec => [](IInv /\ PendingOwned)
  BY <1>1, InitIInv, NextIInv, NextPending, PTL DEF Spec
<1> QED
  BY <1>2, PTL

-----------------------------------------------------------------------------
\* One row per key.

\* Rows and saves in flight are left alone, or some saves come to an end.
LEMMA QuietRows ==
  ASSUME IInv, RowsUnique, SavesNew, UNCHANGED rows,
         \A o \in Requests : req'[o].at = "save" => req'[o] = req[o]
  PROVE  RowsUnique' /\ SavesNew'
BY DEF RowsUnique, SavesNew

LEMMA SaveRowsUnique ==
  ASSUME IInv, RowsUnique, SavesNew, NEW r \in Requests, SaveStep(r)
  PROVE  RowsUnique' /\ SavesNew'
<1> USE DEF IInv
<1>1. ASSUME NEW kind \in SaveKinds, NEW key \in Keys, NEW done \in BOOLEAN,
             SaveFind(r, kind, key, done)
      PROVE  RowsUnique' /\ SavesNew'
  <2> DEFINE found == {i \in DOMAIN rows : Matches(kind, key, rows[i])}
  <2>1. PICK i \in IF found = {} THEN {0} ELSE found :
          Starts(r, [at |-> "save", kind |-> kind, key |-> key, done |-> done,
                     found |-> i, seen |-> Len(rows)])
    BY <1>1 DEF SaveFind
  <2>2. rows' = rows /\ (kind = "chapter" => key[2] = NoItem)
    BY <1>1 DEF SaveFind
  <2>3. /\ req'[r].found = i /\ req'[r].key = key /\ req'[r].seen = Len(rows)
        /\ \A o \in Requests \ {r} : req'[o] = req[o]
    BY <2>1 DEF Starts, TypeOK
  <2>4. ASSUME i = 0, NEW j \in DOMAIN rows
        PROVE  Key(rows[j]) # key
    <3>1. 0 \notin DOMAIN rows
      BY DEF TypeOK
    <3>2. found = {}
      BY <2>4, <3>1
    <3>3. ~Matches(kind, key, rows[j])
      BY <2>4, <3>2
    <3>4. key[1] \in ChapterIds \cup {NoChapter} /\ key[2] \in Nat /\ key = <<key[1], key[2]>>
      BY ProgressOK
    <3> QED
      BY <3>3, <3>4 DEF Matches, Key
  <2>5. SavesNew'
    BY <2>2, <2>3, <2>4 DEF SavesNew, TypeOK
  <2> QED
    BY <2>2, <2>5 DEF RowsUnique
<1>2. CASE SaveUpdate(r)
  <2>1. req[r] \in SaveRequest
    BY <1>2, RequestAt DEF SaveUpdate
  <2>2. /\ DOMAIN rows' = DOMAIN rows
        /\ \A j \in DOMAIN rows : /\ Key(rows'[j]) = Key(rows[j])
                                  /\ rows'[j].seen = rows[j].seen
                                  /\ rows'[j].chapter = rows[j].chapter
                                  /\ rows'[j].item = rows[j].item
    <3>1. CASE rows' = rows
      BY <3>1
    <3>2. CASE rows' = [rows EXCEPT ![req[r].found].done = req[r].done]
      BY <2>1, <3>2, MarkedRows DEF SaveRequest, TypeOK, Key
    <3> QED
      BY <1>2, <3>1, <3>2 DEF SaveUpdate
  <2>3. \A o \in Requests : req'[o].at = "save" => req'[o] = req[o]
    BY <1>2 DEF SaveUpdate, TypeOK, Idle
  <2>4. Len(rows') = Len(rows)
    BY <1>2, <2>1, MarkedRows DEF SaveUpdate, SaveRequest, TypeOK
  <2> QED
    BY <2>2, <2>3, <2>4 DEF RowsUnique, SavesNew
<1>3. CASE SaveCreate(r)
  <2>1. req[r] \in SaveRequest
    BY <1>3, RequestAt DEF SaveCreate
  <2>2. \A o \in Requests : req'[o].at = "save" => req'[o] = req[o]
    BY <1>3 DEF SaveCreate, TypeOK, Idle
  <2>3. CASE Refuses(req[r].key)
    BY <1>3, <2>2, <2>3, QuietRows DEF SaveCreate
  <2>4. CASE ~Refuses(req[r].key)
    <3> DEFINE row == [chapter |-> req[r].key[1], item |-> req[r].key[2],
                       done |-> req[r].done, seen |-> req[r].seen]
               n == Len(rows)
    <3>1. rows' = Append(rows, row) /\ req[r].found = 0 /\ req[r].at = "save"
      BY <1>3, <2>4 DEF SaveCreate
    <3>2. req[r].key = <<req[r].key[1], req[r].key[2]>> /\ req[r].seen \in Nat
      BY <2>1, ProgressOK DEF SaveRequest
    <3>3. Key(row) = req[r].key /\ row.seen = req[r].seen
      BY <3>2 DEF Key
    <3>4. \A i \in DOMAIN rows : Key(rows[i]) = Key(row) => row.seen < i
      BY <3>1, <3>3 DEF SavesNew
    <3>5. (\E i \in DOMAIN rows : Key(rows[i]) = Key(row)) =>
            row.chapter = NoChapter \/ row.item = NoItem
      BY <2>4, <3>3 DEF Refuses
    <3>6. /\ n \in Nat /\ DOMAIN rows = 1..n /\ DOMAIN rows' = 1..(n + 1)
          /\ rows'[n + 1] = row
          /\ \A i \in 1..n : rows'[i] = rows[i]
      BY <3>1 DEF TypeOK
    <3>7. RowsUnique'
      <4> SUFFICES ASSUME NEW i \in 1..(n + 1), NEW j \in 1..(n + 1), i < j,
                          Key(rows'[i]) = Key(rows'[j])
                   PROVE  /\ rows'[j].chapter = NoChapter \/ rows'[j].item = NoItem
                          /\ rows'[j].seen < i
        BY <3>6 DEF RowsUnique, Key
      <4> HIDE DEF row
      <4>1. CASE j = n + 1
        BY <3>4, <3>5, <3>6, <4>1
      <4>2. CASE j # n + 1
        <5>1. i \in 1..n /\ j \in 1..n
          BY <3>6, <4>2
        <5>2. rows[i].chapter = rows[j].chapter /\ rows[i].item = rows[j].item
          BY <3>6, <5>1 DEF Key
        <5> QED
          BY <3>6, <5>1, <5>2 DEF RowsUnique, Key
      <4> QED
        BY <4>1, <4>2
    <3>8. SavesNew'
      <4> SUFFICES ASSUME NEW o \in Requests, req'[o].at = "save"
                   PROVE  /\ req'[o].seen <= n + 1
                          /\ req'[o].found = 0 => \A i \in 1..(n + 1) :
                               Key(rows'[i]) = req'[o].key => req'[o].seen < i
        BY <3>1, <3>6 DEF SavesNew, TypeOK
      <4>1. req'[o] = req[o] /\ req[o].seen <= n /\ req[o].seen \in Nat
        BY <2>2, RequestAt DEF SavesNew, SaveRequest
      <4>2. req'[o].seen <= n + 1
        BY <3>6, <4>1
      <4>3. ASSUME req'[o].found = 0, NEW i \in 1..(n + 1),
                   Key(rows'[i]) = req'[o].key
            PROVE  req'[o].seen < i
        <5>1. CASE i = n + 1
          BY <3>6, <4>1, <5>1
        <5>2. CASE i # n + 1
          <6>1. i \in 1..n /\ i \in DOMAIN rows
            BY <3>6, <5>2
          <6>2. Key(rows[i]) = req[o].key /\ req[o].at = "save" /\ req[o].found = 0
            BY <3>6, <4>1, <4>3, <6>1
          <6> QED BY <2>2, <4>1, <6>1, <6>2 DEF SavesNew
        <5> QED BY <5>1, <5>2
      <4> QED BY <4>2, <4>3
    <3> QED
      BY <3>7, <3>8
  <2> QED
    BY <2>3, <2>4
<1> QED
  BY <1>1, <1>2, <1>3 DEF SaveStep

LEMMA NextRowsUnique ==
  ASSUME IInv, RowsUnique, SavesNew, [Next]_vars
  PROVE  RowsUnique' /\ SavesNew'
<1> USE DEF IInv
<1> DEFINE Quiet == \A o \in Requests : req'[o].at = "save" => req'[o] = req[o]
<1>1. ASSUME NEW r \in Requests, NEW q, Starts(r, q), q.at # "save"
      PROVE  Quiet
  BY <1>1 DEF Starts, TypeOK
<1>2. ASSUME NEW r \in Requests, NEW q, req' = [req EXCEPT ![r] = q], q.at # "save"
      PROVE  Quiet
  BY <1>2 DEF TypeOK
<1>3. ASSUME NEW r \in Requests, NEW q, q.at # "save", EditGoes(r, q)
      PROVE  Quiet
  <2>1. ASSUME NEW o \in Requests, req[o].at = "eligible"
        PROVE  [req[o] EXCEPT !.excused = TRUE].at = "eligible"
    BY <2>1, RequestAt DEF EligibleRequest
  <2> QED
    BY <1>3, <2>1 DEF EditGoes, Idle
<1>4. ASSUME NEW r \in Requests, EditStep(r)
      PROVE  Quiet /\ rows' = rows
  <2>1. ASSUME NEW e \in Editions, EditFind(r, e)
        PROVE  Quiet
    BY <1>1, <2>1 DEF EditFind
  <2>2. ASSUME NEW q, Editing(r), q \in EditRequest, EditGoes(r, q)
        PROVE  Quiet
    BY <1>3, <2>2 DEF EditRequest
  <2>3. Editing(r) => req[r] \in EditRequest
    BY RequestAt DEF Editing
  <2>4. ASSUME NEW c \in ChapterIds, EditUpsert(r, c)
        PROVE  Quiet
    <3>1. [req[r] EXCEPT !.upserts = @ \ {c}].at = "edit"
      BY <2>3, <2>4 DEF EditUpsert, EditRequest
    <3> QED
      BY <1>2, <1>3, <2>4, <3>1 DEF EditUpsert, Idle
  <2>5. ASSUME NEW c \in ChapterIds, EditWipe(r, c)
        PROVE  Quiet
    <3>1. [req[r] EXCEPT !.wipes = @ \ {c}].at = "edit"
      BY <2>3, <2>5 DEF EditWipe, EditRequest
    <3> QED
      BY <1>3, <2>5, <3>1 DEF EditWipe
  <2>6. ASSUME NEW c \in ChapterIds, EditCreate(r, c)
        PROVE  Quiet
    <3>1. [req[r] EXCEPT !.creates[c] = @ - 1].at = "edit"
      BY <2>3, <2>6 DEF EditCreate, EditRequest
    <3> QED
      BY <1>2, <1>3, <2>6, <3>1 DEF EditCreate, Idle
  <2>7. CASE EditDrop(r)
    <3>1. [req[r] EXCEPT !.drop = FALSE].at = "edit"
      BY <2>3, <2>7 DEF EditDrop, EditRequest
    <3> QED
      BY <1>3, <2>7, <3>1 DEF EditDrop
  <2>8. rows' = rows
    BY <1>4 DEF EditStep, EditFind, EditUpsert, EditClear, EditWipe, EditCreate, EditGive,
       EditDrop
  <2>9. ASSUME NEW q, q.at # "save", EditStays(r, q)
        PROVE  Quiet
    BY <1>2, <2>9 DEF EditStays, Idle
  <2>10. ASSUME NEW c \in ChapterIds, EditClear(r, c)
         PROVE  Quiet
    <3>1. [req[r] EXCEPT !.clears = @ \ {c}].at = "edit"
      BY <2>3, <2>10 DEF EditClear, EditRequest
    <3> QED
      BY <2>9, <2>10, <3>1 DEF EditClear
  <2>11. ASSUME NEW c \in ChapterIds, EditGive(r, c)
         PROVE  Quiet
    <3>1. [req[r] EXCEPT !.gives[c] = @ - 1].at = "edit"
      BY <2>3, <2>11 DEF EditGive, EditRequest
    <3> QED
      BY <1>2, <2>9, <2>11, <3>1 DEF EditGive, Idle
  <2> QED
    BY <1>4, <2>1, <2>4, <2>5, <2>6, <2>7, <2>8, <2>10, <2>11 DEF EditStep
<1>5. ASSUME NEW r \in Requests, CertificateStep(r)
      PROVE  Quiet /\ rows' = rows
  <2>1. CASE GenerateStart(r)
    BY <1>1, <2>1 DEF GenerateStart
  <2>2. ASSUME NEW table \in Reads, GenerateRead(r, table)
        PROVE  Quiet
    <3>1. req[r] \in EligibleRequest
      BY <2>2, RequestAt DEF GenerateRead
    <3>2. req'[r].at = "eligible" /\ \A o \in Requests \ {r} : req'[o] = req[o]
      BY <2>2, <3>1 DEF GenerateRead, EligibleRequest, TypeOK
    <3> QED
      BY <3>2
  <2>3. CASE GenerateFind(r)
    BY <1>2, <2>3 DEF GenerateFind, Idle
  <2>4. CASE BatchFind(r)
    BY <1>1, <2>4 DEF BatchFind
  <2>5. CASE CertificateCreate(r)
    BY <1>2, <2>5 DEF CertificateCreate, Idle
  <2>6. CASE CertificateFile(r)
    BY <1>2, <2>6 DEF CertificateFile, Idle
  <2>7. ASSUME NEW what \in {"file", "revoke"}, AdminFind(r, what)
        PROVE  Quiet
    BY <1>1, <2>7 DEF AdminFind
  <2>8. CASE Revoke(r)
    BY <1>2, <2>8 DEF Revoke, Idle
  <2>9. rows' = rows
    BY <1>5 DEF CertificateStep, GenerateStart, GenerateRead, GenerateFind, BatchFind,
       CertificateCreate, CertificateFile, AdminFind, Revoke
  <2> QED
    BY <1>5, <2>1, <2>2, <2>3, <2>4, <2>5, <2>6, <2>7, <2>8, <2>9 DEF CertificateStep
<1>6. ASSUME NEW r \in Requests, Fail(r)
      PROVE  Quiet /\ rows' = rows
  BY <1>2, <1>6 DEF Fail, Idle
<1>7. CASE UNCHANGED vars
  BY <1>7, QuietRows DEF vars
<1>8. ASSUME Quiet, rows' = rows
      PROVE  RowsUnique' /\ SavesNew'
  BY <1>8, QuietRows
<1> HIDE DEF Quiet
<1> QED
  BY <1>4, <1>5, <1>6, <1>7, <1>8, SaveRowsUnique DEF Next

\* However saves overlap, an item has one row, and a chapter a second one only
\* from a save that had looked before the first one was there.
THEOREM RowsAreUnique == Spec => []RowsUnique
<1>1. Init => RowsUnique /\ SavesNew
  <2> SUFFICES ASSUME Init PROVE RowsUnique /\ SavesNew
    OBVIOUS
  <2>1. PICK k \in Nat : DOMAIN rows = 1..k /\ \A i \in 1..k : rows[i].item = i
    BY DEF Init
  <2>2. RowsUnique
    BY <2>1 DEF RowsUnique, Key
  <2>3. \A r \in Requests : req[r].at = "idle"
    BY DEF Init, Idle
  <2> QED
    BY <2>2, <2>3 DEF SavesNew
<1>2. Spec => [](IInv /\ RowsUnique /\ SavesNew)
  BY <1>1, InitIInv, NextIInv, NextRowsUnique, PTL DEF Spec
<1> QED
  BY <1>2, PTL

-----------------------------------------------------------------------------
\* Earned certificates.

\* What Math.round makes of a percentage: 80 from 79.5 on.
LEMMA PercentAtLeast80 ==
  ASSUME NEW done \in Nat, NEW total \in Nat, total > 0
  PROVE  Percent(done, total) >= 80 <=> 200 * done >= 159 * total
<1> DEFINE a == 200 * done + total
           b == 2 * total
<1>1. a \in Nat /\ b \in Nat /\ b > 0
  OBVIOUS
<1>2. a \div b >= 80 <=> a >= 80 * b
  BY <1>1
<1> QED
  BY <1>2 DEF Percent

\* Ids tell the items apart, and there are so many of them.
LEMMA ItemsFinite == TypeOK => IsFiniteSet(items)
<1> SUFFICES ASSUME TypeOK PROVE IsFiniteSet(items)
  OBVIOUS
<1> DEFINE f == [x \in items |-> x.id]
<1>1. f \in Injection(items, 1..MaxItems)
  BY DEF TypeOK, Item, Injection, IsInjective
<1>2. IsFiniteSet(1..MaxItems)
  <2>1. 1 \in Int /\ MaxItems \in Int
    BY ProgressOK
  <2> QED
    BY <2>1, FS_Interval
<1> QED
  BY <1>1, <1>2, FS_Injection

LEMMA EligibleEarned ==
  ASSUME NEW readChapters, NEW readItems, NEW read, IsFiniteSet(readItems),
         \A x \in readItems : x.chapter \in readChapters,
         Eligible(readChapters, readItems, read)
  PROVE  EarnedBy(readItems, read)
<1> DEFINE counted == Counted(readItems, read)
           t == Cardinality(readItems)
           d == Cardinality(counted)
<1>1. d \in Nat /\ t \in Nat /\ (readItems # {} => t > 0)
  <2>1. IsFiniteSet(counted)
    BY FS_Subset DEF Counted
  <2>2. t \in Nat /\ (t = 0 <=> readItems = {})
    BY FS_EmptySet, FS_CardinalityType
  <2> QED
    BY <2>1, <2>2, FS_CardinalityType
<1>2. CASE AllChaptersDone(readChapters, read)
  <2>1. CASE readItems = {}
    BY <1>2, <2>1 DEF AllChaptersDone, ChaptersDone, EarnedBy
  <2>2. CASE readItems # {}
    <3>1. counted = readItems
      BY <1>2 DEF AllChaptersDone, Counted
    <3>2. 200 * d >= 159 * t
      BY <1>1, <3>1
    <3> QED
      BY <2>2, <3>2 DEF EarnedBy
  <2> QED
    BY <2>1, <2>2
<1>3. CASE readItems # {} /\ Percent(d, t) >= 80
  BY <1>1, <1>3, PercentAtLeast80 DEF EarnedBy
<1>4. CASE readItems = {} /\ \E i \in DOMAIN read : read[i].done
  BY <1>4 DEF EarnedBy
<1> QED
  BY <1>2, <1>3, <1>4 DEF Eligible

\* Steps that leave chapters and items alone, and checks as they are.
LEMMA QuietChecks ==
  ASSUME ChecksHold, UNCHANGED <<chapters, items>>,
         \A o \in Requests : req'[o].at \in {"eligible", "create"} => req'[o] = req[o]
  PROVE  ChecksHold'
<1>1. ASSUME NEW o \in Requests, req'[o].at \in {"eligible", "create"}
      PROVE  req'[o] = req[o]
  BY <1>1
<1>2. ASSUME NEW q, CheckHolds(q)
      PROVE  CheckHolds(q)'
  BY <1>2 DEF CheckHolds
<1> QED
  BY <1>1, <1>2 DEF ChecksHold

LEMMA ReadHolds ==
  ASSUME IInv, ChecksHold, NEW r \in Requests, NEW table \in Reads,
         GenerateRead(r, table)
  PROVE  ChecksHold'
<1>1. req[r] \in EligibleRequest /\ table \in req[r].left
  BY RequestAt DEF GenerateRead, IInv
<1> DEFINE p == req[r]
<1>q. PICK q : q = req'[r]
  OBVIOUS
<1>2. /\ q.at = "eligible"
      /\ q.left = p.left \ {table}
      /\ q.chapters = IF table = "chapters" THEN chapters ELSE p.chapters
      /\ q.items = IF table = "items" THEN items ELSE p.items
      /\ q.rows = IF table = "rows" THEN rows ELSE p.rows
      /\ q.earned = IF table = "rows" THEN Earned ELSE p.earned
      /\ q.excused = p.excused
      /\ \A o \in Requests \ {r} : req'[o] = req[o]
      /\ UNCHANGED <<chapters, items, rows>>
  BY <1>1, <1>q DEF GenerateRead, EligibleRequest, IInv, TypeOK
<1>3. ASSUME ~q.excused
      PROVE  CheckHolds(q)'
  <2>1. CheckHolds(p) /\ p.left # {} /\ p.left \subseteq Reads
    BY <1>1, <1>2, <1>3 DEF ChecksHold, EligibleRequest
  <2>2. "items" \notin q.left => q.items = items
    BY <1>2, <2>1 DEF CheckHolds, Reads
  <2>3. "chapters" \notin q.left => q.chapters = chapters
    BY <1>2, <2>1 DEF CheckHolds, Reads
  <2>4. "rows" \notin q.left => q.earned = EarnedBy(items, q.rows)
    <3>1. CASE table = "rows"
      BY <1>2, <3>1 DEF Earned
    <3>2. CASE table # "rows"
      BY <1>2, <2>1, <3>2 DEF CheckHolds
    <3> QED
      BY <3>1, <3>2
  <2>5. IsFiniteSet(items) /\ \A x \in items : x.chapter \in chapters
    BY ItemsFinite DEF IInv, TypeOK
  <2>6. q.left = {} => q.items = items /\ q.chapters = chapters
    BY <2>2, <2>3
  <2>7. "rows" \notin q.left =>
          q.earned = EarnedBy(IF q.left = {} THEN q.items ELSE items, q.rows)
    BY <2>4, <2>6
  <2>8. items' = items /\ chapters' = chapters
    BY <1>2
  <2> QED
    BY <2>2, <2>3, <2>5, <2>6, <2>7, <2>8 DEF CheckHolds
<1>4. ASSUME NEW o \in Requests \ {r}
      PROVE  /\ req[o].at = "eligible" /\ ~req[o].excused => CheckHolds(req[o])'
             /\ req'[o] = req[o]
  <2>1. req'[o] = req[o]
    BY <1>2, <1>4
  <2> QED
    BY <1>2, <2>1 DEF ChecksHold, CheckHolds
<1>5. req'[r].at = "eligible" /\ (~req'[r].excused => CheckHolds(req[r])')
  BY <1>2, <1>3, <1>q DEF CheckHolds
<1> QED
  BY <1>4, <1>5 DEF ChecksHold, CheckHolds

LEMMA CertificateChecks ==
  ASSUME IInv, ChecksHold, NEW r \in Requests, CertificateStep(r)
  PROVE  ChecksHold'
<1> USE DEF IInv
<1>1. ASSUME NEW q, q.at \notin {"eligible", "create"}, req' = [req EXCEPT ![r] = q],
             UNCHANGED <<chapters, items>>
      PROVE  ChecksHold'
  BY <1>1, QuietChecks DEF TypeOK
<1>2. CASE GenerateStart(r)
  <2>1. /\ req'[r].left = Reads /\ req'[r].at = "eligible"
        /\ \A o \in Requests \ {r} : req'[o] = req[o]
        /\ UNCHANGED <<chapters, items>>
    BY <1>2 DEF GenerateStart, Starts, TypeOK
  <2>2. CheckHolds(req[r])'
    BY <2>1 DEF CheckHolds, Reads
  <2> QED
    BY <2>1, <2>2 DEF ChecksHold, CheckHolds
<1>3. CASE GenerateFind(r)
  <2> DEFINE q == req[r]
  <2>1. q \in EligibleRequest /\ q.left = {} /\ UNCHANGED <<chapters, items>>
    BY <1>3, RequestAt DEF GenerateFind
  <2>2. CASE ~(Eligible(q.chapters, q.items, q.rows) /\ certificate = None)
    <3>1. req' = [req EXCEPT ![r] = Idle]
      BY <1>3, <2>2, Zenon DEF GenerateFind
    <3> QED
      BY <1>1, <2>1, <3>1 DEF Idle
  <2>3. CASE Eligible(q.chapters, q.items, q.rows) /\ certificate = None
    <3>1. ASSUME ~q.excused PROVE q.earned
      <4>1. CheckHolds(q)
        BY <1>3, <3>1 DEF ChecksHold, GenerateFind
      <4>2. /\ IsFiniteSet(q.items)
            /\ \A x \in q.items : x.chapter \in q.chapters
            /\ q.earned = EarnedBy(q.items, q.rows)
        BY <2>1, <4>1 DEF CheckHolds
      <4>3. EarnedBy(q.items, q.rows)
        BY <2>3, <4>2, EligibleEarned, Zenon
      <4> QED
        BY <4>2, <4>3
    <3>2. PICK b \in BOOLEAN : b = (q.earned \/ q.excused)
      <4>1. \E b \in BOOLEAN : b = (q.earned \/ q.excused)
        OBVIOUS
      <4> QED
        BY <4>1
    <3>3. b
      BY <3>1, <3>2
    <3>4. req' = [req EXCEPT ![r] = [at |-> "create", by |-> "student", earned |-> b]]
      BY <1>3, <2>3, <3>2, Zenon DEF GenerateFind
    <3>5. /\ req'[r].at = "create" /\ req'[r].earned
          /\ \A o \in Requests \ {r} : req'[o] = req[o]
      BY <3>3, <3>4 DEF TypeOK
    <3> QED
      BY <2>1, <3>5 DEF ChecksHold, CheckHolds
  <2> QED
    BY <2>2, <2>3
<1>4. CASE BatchFind(r)
  <2>1. /\ req'[r].at = "create" /\ req'[r].by = "admin"
        /\ \A o \in Requests \ {r} : req'[o] = req[o]
        /\ UNCHANGED <<chapters, items>>
    BY <1>4 DEF BatchFind, Starts, TypeOK
  <2> QED
    BY <2>1 DEF ChecksHold, CheckHolds
<1>5. CASE CertificateCreate(r)
  BY <1>1, <1>5 DEF CertificateCreate, Idle
<1>6. CASE CertificateFile(r)
  BY <1>1, <1>6 DEF CertificateFile, Idle
<1>7. ASSUME NEW what \in {"file", "revoke"}, AdminFind(r, what)
      PROVE  ChecksHold'
  BY <1>1, <1>7 DEF AdminFind, Starts
<1>8. CASE Revoke(r)
  BY <1>1, <1>8 DEF Revoke, Idle
<1> QED
  BY <1>2, <1>3, <1>4, <1>5, <1>6, <1>7, <1>8, ReadHolds DEF CertificateStep

\* An edit excuses the checks it may mislead; the others have read nothing, or
\* everything.
LEMMA EditGoesChecks ==
  ASSUME IInv, ChecksHold, NEW r \in Requests, NEW q, q.at = "edit", EditGoes(r, q)
  PROVE  ChecksHold'
<1>1. req'[r].at \notin {"eligible", "create"}
  BY DEF EditGoes, Idle
<1>2. ASSUME NEW o \in Requests \ {r}
      PROVE  /\ req'[o].at = "eligible" /\ ~req'[o].excused => CheckHolds(req[o])'
             /\ req'[o].at = "create" /\ req'[o].by = "student" => req'[o].earned
  <2>1. CASE req[o].at = "eligible" /\ req[o].left \notin {Reads, {}}
    <3>1. req[o] \in EligibleRequest
      BY <2>1, RequestAt DEF IInv
    <3>2. req'[o] = [req[o] EXCEPT !.excused = TRUE]
      BY <1>2, <2>1 DEF EditGoes
    <3>3. req'[o].at = "eligible" /\ req'[o].excused
      BY <3>1, <3>2 DEF EligibleRequest
    <3> QED
      BY <3>3
  <2>2. CASE req[o].at = "eligible" /\ req[o].left \in {Reads, {}}
    <3>1. req'[o] = req[o]
      BY <1>2, <2>2 DEF EditGoes
    <3>2. CASE req[o].excused
      BY <2>2, <3>1, <3>2
    <3>3. CASE ~req[o].excused
      <4>1. CheckHolds(req[o])
        BY <1>2, <2>2, <3>3 DEF ChecksHold
      <4>2. PICK p : p = req[o]
        OBVIOUS
      <4>3. CheckHolds(p)'
        BY <2>2, <4>1, <4>2 DEF CheckHolds, Reads
      <4> QED
        BY <2>2, <3>1, <4>2, <4>3 DEF CheckHolds
    <3> QED
      BY <3>2, <3>3
  <2>3. CASE req[o].at # "eligible"
    <3>1. req'[o] = req[o]
      BY <1>2, <2>3 DEF EditGoes
    <3> QED
      BY <1>2, <2>3, <3>1 DEF ChecksHold
  <2> QED
    BY <2>1, <2>2, <2>3
<1> QED
  BY <1>1, <1>2 DEF ChecksHold, CheckHolds

LEMMA EditChecks ==
  ASSUME IInv, ChecksHold, NEW r \in Requests, EditStep(r)
  PROVE  ChecksHold'
<1> USE DEF IInv
<1>1. Editing(r) => req[r] \in EditRequest
  BY RequestAt DEF Editing
<1>2. ASSUME req' = [req EXCEPT ![r] = Idle], UNCHANGED <<chapters, items>>
      PROVE  ChecksHold'
  BY <1>2, QuietChecks DEF TypeOK, Idle
<1>3. ASSUME NEW e \in Editions, EditFind(r, e)
      PROVE  ChecksHold'
  BY <1>3, QuietChecks DEF EditFind, Starts, TypeOK
<1>4. ASSUME NEW c \in ChapterIds, EditUpsert(r, c)
      PROVE  ChecksHold'
  <2>1. [req[r] EXCEPT !.upserts = @ \ {c}].at = "edit"
    BY <1>1, <1>4 DEF EditUpsert, EditRequest
  <2> QED
    BY <1>2, <1>4, <2>1, EditGoesChecks DEF EditUpsert
<1>5. ASSUME NEW c \in ChapterIds, EditWipe(r, c)
      PROVE  ChecksHold'
  <2>1. [req[r] EXCEPT !.wipes = @ \ {c}].at = "edit"
    BY <1>1, <1>5 DEF EditWipe, EditRequest
  <2> QED
    BY <1>5, <2>1, EditGoesChecks DEF EditWipe
<1>6. ASSUME NEW c \in ChapterIds, EditCreate(r, c)
      PROVE  ChecksHold'
  <2>1. [req[r] EXCEPT !.creates[c] = @ - 1].at = "edit"
    BY <1>1, <1>6 DEF EditCreate, EditRequest
  <2> QED
    BY <1>2, <1>6, <2>1, EditGoesChecks DEF EditCreate
<1>7. CASE EditDrop(r)
  <2>1. [req[r] EXCEPT !.drop = FALSE].at = "edit"
    BY <1>1, <1>7 DEF EditDrop, EditRequest
  <2> QED
    BY <1>7, <2>1, EditGoesChecks DEF EditDrop
<1>8. ASSUME NEW q, q.at = "edit", EditStays(r, q), UNCHANGED <<chapters, items>>
      PROVE  ChecksHold'
  BY <1>8, QuietChecks DEF EditStays, TypeOK, Idle
<1>9. ASSUME NEW c \in ChapterIds, EditClear(r, c)
      PROVE  ChecksHold'
  <2>1. [req[r] EXCEPT !.clears = @ \ {c}].at = "edit"
    BY <1>1, <1>9 DEF EditClear, EditRequest
  <2> QED
    BY <1>8, <1>9, <2>1 DEF EditClear
<1>10. ASSUME NEW c \in ChapterIds, EditGive(r, c)
       PROVE  ChecksHold'
  <2>1. [req[r] EXCEPT !.gives[c] = @ - 1].at = "edit"
    BY <1>1, <1>10 DEF EditGive, EditRequest
  <2> QED
    BY <1>2, <1>8, <1>10, <2>1 DEF EditGive
<1> QED
  BY <1>3, <1>4, <1>5, <1>6, <1>7, <1>9, <1>10 DEF EditStep

LEMMA NextChecks ==
  ASSUME IInv, ChecksHold, [Next]_vars
  PROVE  ChecksHold'
<1> USE DEF IInv
<1>1. ASSUME NEW r \in Requests, SaveStep(r) \/ Fail(r)
      PROVE  ChecksHold'
  <2>1. UNCHANGED <<chapters, items>>
    BY <1>1 DEF SaveStep, SaveFind, SaveUpdate, SaveCreate, Fail
  <2>2. \A o \in Requests : req'[o].at \in {"eligible", "create"} => req'[o] = req[o]
    BY <1>1 DEF SaveStep, SaveFind, SaveUpdate, SaveCreate, Fail, Starts, Idle, TypeOK
  <2> QED
    BY <2>1, <2>2, QuietChecks
<1>2. CASE UNCHANGED vars
  BY <1>2, QuietChecks DEF vars
<1> QED
  BY <1>1, <1>2, CertificateChecks, EditChecks DEF Next

LEMMA NextEarned ==
  ASSUME IInv, ChecksHold, CertificateEarned, [Next]_vars
  PROVE  CertificateEarned'
<1>1. ASSUME NEW r \in Requests, CertificateCreate(r)
      PROVE  CertificateEarned'
  BY <1>1 DEF CertificateCreate, CertificateEarned, ChecksHold
<1>2. ASSUME NEW r \in Requests, CertificateFile(r) \/ Fail(r)
      PROVE  CertificateEarned'
  <2>1. CASE certificate' = certificate
    BY <2>1 DEF CertificateEarned
  <2>2. CASE certificate.id = req[r].id /\ req[r].at = "file"
    <3>1. certificate \in Issued
      BY <2>2, RequestAt, CertificateKinds DEF IInv, FileRequest
    <3>2. /\ certificate # None
          /\ certificate'.by = certificate.by
          /\ certificate'.earned = certificate.earned
      BY <1>2, <2>2, <3>1 DEF CertificateFile, Fail, Issued, None
    <3> QED
      BY <3>2 DEF CertificateEarned
  <2> QED
    BY <1>2, <2>1, <2>2 DEF CertificateFile, Fail
<1>3. ASSUME NEW r \in Requests, Revoke(r)
      PROVE  CertificateEarned'
  BY <1>3 DEF Revoke, CertificateEarned
<1>4. ASSUME UNCHANGED certificate
      PROVE  CertificateEarned'
  BY <1>4 DEF CertificateEarned
<1>5. ASSUME NEW r \in Requests, SaveStep(r) \/ EditStep(r)
      PROVE  UNCHANGED certificate
  BY <1>5 DEF SaveStep, SaveFind, SaveUpdate, SaveCreate, EditStep, EditFind,
     EditUpsert, EditDrop, EditClear, EditWipe, EditCreate, EditGive
<1>6. ASSUME NEW r \in Requests, CertificateStep(r)
      PROVE  CertificateEarned'
  BY <1>1, <1>2, <1>3, <1>4, <1>6 DEF CertificateStep, GenerateStart, GenerateRead,
     GenerateFind, BatchFind, AdminFind
<1> QED
  BY <1>2, <1>4, <1>5, <1>6 DEF Next, vars

\* A certificate is granted to a student who has completed enough of the
\* course, however saves and edits fall between the reads that decide it,
\* unless an edit went on between two of them.
THEOREM CertificatesAreEarned == Spec => []CertificateEarned
<1>1. Init => ChecksHold /\ CertificateEarned
  BY DEF Init, ChecksHold, Idle, CertificateEarned
<1>2. Spec => [](IInv /\ ChecksHold /\ CertificateEarned)
  BY <1>1, InitIInv, NextIInv, NextChecks, NextEarned, PTL DEF Spec
<1> QED
  BY <1>2, PTL
\* A certificate was earned, is not left pending by a handler that goes on, and
\* has the file drawn for it.
THEOREM CertificatesAreRight == Spec => []CertificatesRight
<1>1. CertificateEarned /\ PendingOwned /\ FileNamesCertificate => CertificatesRight
  BY DEF CertificatesRight
<1> QED
  BY <1>1, CertificatesAreEarned, PendingAreOwned, FilesNameCertificates, PTL

-----------------------------------------------------------------------------
\* The views of ProgressViews agree.  Each agreement follows from what every
\* reachable state has: finitely many items, each in a chapter of the course,
\* and rows that are a sequence.

\* All of something is 100 %, and no part of it is more.
LEMMA PercentOfAll ==
  ASSUME NEW total \in Nat, total > 0
  PROVE  /\ Percent(total, total) = 100
         /\ \A done \in 0..total : Percent(done, total) <= 100
<1> DEFINE b == 2 * total
<1>1. b \in Nat /\ b > 0
  OBVIOUS
<1>2. ASSUME NEW a \in Nat, 100 * b <= a, a < 101 * b
      PROVE  a \div b = 100
  BY <1>1, <1>2
<1>3. ASSUME NEW a \in Nat, a < 101 * b
      PROVE  a \div b <= 100
  BY <1>1, <1>3
<1>4. Percent(total, total) = 100
  BY <1>2 DEF Percent
<1>5. \A done \in 0..total : Percent(done, total) <= 100
  BY <1>3 DEF Percent
<1> QED
  BY <1>4, <1>5

LEMMA CountedFinite ==
  ASSUME TypeOK
  PROVE  /\ Cardinality(items) \in Nat
         /\ items # {} => Cardinality(items) > 0
         /\ Cardinality(Counted(items, rows)) \in 0..Cardinality(items)
<1>1. IsFiniteSet(items)
  BY ItemsFinite
<1>2. Cardinality(items) \in Nat /\ (Cardinality(items) = 0 <=> items = {})
  BY <1>1, FS_EmptySet, FS_CardinalityType
<1>3. Counted(items, rows) \in SUBSET items
  BY DEF Counted
<1>4. /\ IsFiniteSet(Counted(items, rows))
      /\ Cardinality(Counted(items, rows)) <= Cardinality(items)
  BY <1>1, <1>3, FS_Subset
<1> QED
  BY <1>2, <1>4, FS_CardinalityType

\* When all chapters are completed, so are all items.
LEMMA CompletedCounts ==
  ASSUME TypeOK, ListCompleted
  PROVE  Counted(items, rows) = items
<1>1. ASSUME NEW x \in items
      PROVE  x \in Counted(items, rows)
  <2>1. x.chapter \in chapters /\ x \in ItemsIn(x.chapter)
    BY <1>1 DEF TypeOK, ItemsIn
  <2>2. ListChapterCompleted(x.chapter)
    BY <2>1 DEF ListCompleted
  <2> QED
    BY <1>1, <2>1, <2>2 DEF ListChapterCompleted, Counted
<1> QED
  BY <1>1 DEF Counted

\* A completed chapter without items has been marked, in a row.
LEMMA CompletedHasRow ==
  ASSUME ListCompleted, items = {}
  PROVE  /\ chapters \subseteq ChaptersDone(rows)
         /\ AnyRowDone
<1>1. \A c \in chapters : ListChapterCompleted(c) /\ ItemsIn(c) = {}
  BY DEF ListCompleted, ItemsIn
<1>2. chapters \subseteq ChaptersDone(rows)
  BY <1>1 DEF ListChapterCompleted
<1>3. PICK c \in chapters : c \in ChaptersDone(rows)
  BY <1>2 DEF ListCompleted
<1> QED
  BY <1>2, <1>3 DEF ChaptersDone, AnyRowDone

\* What the reports show without looking at chapters is what the list shows.
LEMMA ListPercentPlain ==
  ASSUME TypeOK
  PROVE  ListPercent = PercentOf(Counted(items, rows), AnyRowDone)
<1>1. CASE ~ListCompleted
  BY <1>1 DEF ListPercent, ListDone
<1>2. CASE ListCompleted /\ items # {}
  <2>1. Percent(Cardinality(items), Cardinality(items)) = 100
    BY <1>2, CountedFinite, PercentOfAll
  <2> QED
    BY <1>2, <2>1, CompletedCounts DEF ListPercent, PercentOf
<1>3. CASE ListCompleted /\ items = {}
  BY <1>3, CompletedHasRow DEF ListPercent, PercentOf
<1> QED
  BY <1>1, <1>2, <1>3

\* Teacher, school admin and student see one percentage.
THEOREM ReportsMatch == Spec => []ReportsMatchOwnView
<1>1. TypeOK => ReportsMatchOwnView
  BY ListPercentPlain DEF ReportsMatchOwnView, TeacherPercent, SchoolAdminPercent
<1> QED
  BY <1>1, TypeCorrect, PTL

\* A certificate is granted exactly when the list shows 80 % or more.
THEOREM CertificatesMatch == Spec => []CertificateMatchesList
<1>1. ASSUME TypeOK
      PROVE  Eligible(chapters, items, rows) <=> ListPercent >= 80
  <2>1. CASE items = {}
    <3>1. ListPercent >= 80 <=> AnyRowDone
      BY <1>1, <2>1, ListPercentPlain DEF PercentOf
    <3>2. AllChaptersDone(chapters, rows) => AnyRowDone
      BY DEF AllChaptersDone, ChaptersDone, AnyRowDone
    <3> QED
      BY <2>1, <3>1, <3>2 DEF Eligible, AnyRowDone
  <2>2. CASE items # {}
    <3>1. ListPercent = Percent(Cardinality(Counted(items, rows)), Cardinality(items))
      BY <1>1, <2>2, ListPercentPlain DEF PercentOf
    <3>2. AllChaptersDone(chapters, rows) => ListPercent >= 80
      BY DEF AllChaptersDone, ListCompleted, ListChapterCompleted, ListPercent
    <3> QED
      BY <2>2, <3>1, <3>2 DEF Eligible
  <2> QED
    BY <2>1, <2>2
<1> QED
  BY <1>1, TypeCorrect, PTL DEF CertificateMatchesList

\* There are finitely many marks.
LEMMA MarksFinite ==
  ASSUME TypeOK
  PROVE  IsFiniteSet(ChaptersDone(rows))
<1> DEFINE marked == {i \in DOMAIN rows : rows[i].chapter \in ChaptersDone(rows)}
           f == [i \in marked |-> rows[i].chapter]
<1>1. IsFiniteSet(marked)
  <2>1. Len(rows) \in Nat /\ DOMAIN rows = 1..Len(rows)
    BY DEF TypeOK
  <2>2. IsFiniteSet(1..Len(rows))
    BY <2>1, FS_Interval
  <2> QED
    BY <2>1, <2>2, FS_Subset
<1>2. f \in Surjection(marked, ChaptersDone(rows))
  BY DEF Surjection, ChaptersDone
<1> QED
  BY <1>1, <1>2, FS_Surjection

\* The dashboard calls a course completed when the list does, and otherwise
\* only for an empty chapter without a mark, or by rounding.
THEOREM DashboardMatches == Spec => []DashboardMatchesList
<1> DEFINE shown == {x \in items : x.id \in ItemsDone(rows) \/ x.chapter \in DashboardMarks}
<1>0. shown = Counted(items, rows)
  BY DEF Counted, DashboardMarks
<1>1. ASSUME TypeOK, ListCompleted
      PROVE  DashboardCompleted
  <2>1. chapters # {}
    BY <1>1 DEF ListCompleted
  <2>2. CASE items = {}
    <3>1. chapters \in SUBSET ChaptersDone(rows)
      BY <1>1, <2>2, CompletedHasRow
    <3>2. Cardinality(ChaptersDone(rows)) >= Cardinality(chapters)
      <4>1. IsFiniteSet(ChaptersDone(rows))
        BY <1>1, MarksFinite
      <4>2. Cardinality(chapters) <= Cardinality(ChaptersDone(rows))
        BY <3>1, <4>1, FS_Subset
      <4>3. Cardinality(chapters) \in Nat /\ Cardinality(ChaptersDone(rows)) \in Nat
        BY <3>1, <4>1, FS_Subset, FS_CardinalityType
      <4> QED
        BY <4>2, <4>3
    <3> QED
      BY <2>1, <2>2, <3>2 DEF DashboardCompleted, PercentOf, DashboardMarks
  <2>3. CASE items # {}
    <3>1. Percent(Cardinality(items), Cardinality(items)) = 100
      BY <1>1, <2>3, CountedFinite, PercentOfAll
    <3>2. shown = items
      BY <1>0, <1>1, CompletedCounts
    <3>3. PercentOf(items, Cardinality(DashboardMarks) >= Cardinality(chapters)) = 100
      BY <2>3, <3>1 DEF PercentOf
    <3> QED
      BY <2>1, <3>2, <3>3 DEF DashboardCompleted
  <2> QED
    BY <2>2, <2>3
<1>2. ASSUME TypeOK, DashboardCompleted, ~ListCompleted,
             \A c \in chapters : ItemsIn(c) # {} \/ c \in ChaptersDone(rows)
      PROVE  ListDone # items /\ ListPercent = 100
  <2>1. PICK c \in chapters : ~ListChapterCompleted(c)
    BY <1>2 DEF ListCompleted, DashboardCompleted
  <2>2. c \notin ChaptersDone(rows)
    BY <2>1 DEF ListChapterCompleted
  <2>3. ItemsIn(c) # {}
    BY <1>2, <2>1, <2>2
  <2>4. PICK x \in items : x.chapter = c /\ x.id \notin ItemsDone(rows)
    BY <2>1, <2>3 DEF ListChapterCompleted, ItemsIn
  <2>5. ListDone # items
    BY <2>2, <2>4 DEF ListDone, Counted
  <2>6. Percent(Cardinality(Counted(items, rows)), Cardinality(items)) >= 100
    BY <1>0, <1>2, <2>4 DEF DashboardCompleted, PercentOf
  <2>7. Percent(Cardinality(Counted(items, rows)), Cardinality(items)) = 100
    <3>1. Percent(Cardinality(Counted(items, rows)), Cardinality(items)) \in Int
      BY <1>2, <2>4, CountedFinite DEF Percent
    <3> QED
      BY <1>2, <2>4, <2>6, <3>1, CountedFinite, PercentOfAll
  <2> QED
    BY <1>2, <2>4, <2>5, <2>7, ListPercentPlain DEF PercentOf
<1>3. TypeOK => DashboardMatchesList
  BY <1>1, <1>2 DEF DashboardMatchesList
<1> QED
  BY <1>3, TypeCorrect, PTL
\* The page of the course shows the contents that the list counts, and completes
\* other chapters only for their assignments.
THEOREM PageMatches == Spec => []PageMatchesList
<1>1. ASSUME NEW x \in items
      PROVE  ChapterComplete(x.chapter) \/ x.id \in ItemsDone(rows)
               <=> x.id \in ItemsDone(rows) \/ x.chapter \in ChaptersDone(rows)
  BY DEF ChapterComplete, AllItemsIn, ItemsIn
<1>2. ChapterPageDone \cap items = ListDone
  BY <1>1 DEF ChapterPageDone, ListDone, Counted
<1>3. ASSUME NEW c \in chapters, ListChapterCompleted(c), ~ChapterComplete(c)
      PROVE  \E x \in AssignmentsIn(c) : x.id \notin ItemsDone(rows)
  BY <1>3 DEF ListChapterCompleted, ChapterComplete, AllItemsIn
<1>4. ASSUME NEW c \in chapters, ChapterComplete(c), ~ListChapterCompleted(c)
      PROVE  ItemsIn(c) = {} /\ AssignmentsIn(c) # {}
  BY <1>4 DEF ListChapterCompleted, ChapterComplete, AllItemsIn
<1>5. PageMatchesList
  BY <1>2, <1>3, <1>4 DEF PageMatchesList
<1> QED
  BY <1>5, PTL

\* The views of a student's progress agree.
THEOREM ViewsDoAgree == Spec => []ViewsAgree
<1>1. /\ ReportsMatchOwnView /\ PageMatchesList
      /\ CertificateMatchesList /\ DashboardMatchesList
      => ViewsAgree
  BY DEF ViewsAgree
<1> QED
  BY <1>1, ReportsMatch, PageMatches, CertificatesMatch, DashboardMatches, PTL
=============================================================================
