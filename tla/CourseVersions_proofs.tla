----------------------- MODULE CourseVersions_proofs -----------------------
(***************************************************************************)
(* The content of a course and its versions, proved for any editors,       *)
(* chapters and schools.                                                   *)
(***************************************************************************)
EXTENDS CourseVersions, FiniteSetTheorems, TLAPS

Handling == [left : SUBSET Calls, rules : Access, body : Body,
             known : SUBSET ChapterIds, snap : Body, number : Nat,
             goal : Course, alone : BOOLEAN]

\* A rule is made for a school the handler has grades for.
GrantsRuled ==
    \A r \in Requests : req[r] # Idle =>
        \A s \in Schools : <<"grant", s>> \in req[r].left => s \in DOMAIN req[r].rules

\* A number read for a version is the next one, or one given out meanwhile.
NumbersKnown ==
    \A r \in Requests :
        /\ req[r] # Idle /\ exists
        /\ <<"insert">> \in req[r].left /\ <<"number">> \notin req[r].left
        => req[r].number \in 1..(Len(versions) + 1)

\* Only the first request can create the course.
Unstarted == started = 0 => \A r \in Requests : req[r] = Idle

Inv == TypeOK /\ GrantsRuled /\ VersionsNumbered

NumbersInv == Inv /\ NumbersKnown /\ Unstarted

-----------------------------------------------------------------------------
LEMMA NoRules == <<>> \in Access
<1>1. <<>> \in [{} -> SUBSET Grades]
  OBVIOUS
<1> QED BY <1>1 DEF Access

LEMMA AccessType ==
  ASSUME NEW a \in Access
  PROVE  /\ a = [s \in DOMAIN a |-> a[s]]
         /\ DOMAIN a \in SUBSET Schools
         /\ \A s \in DOMAIN a : a[s] \in SUBSET Grades
BY DEF Access

LEMMA ProductType ==
  ASSUME NEW body \in Body
  PROVE  Product(body) \in Access /\ DOMAIN Product(body) = body.schools
<1>1. body.schools \in SUBSET Schools /\ body.grades \in SUBSET Grades
  BY DEF Body
<1>2. [s \in body.schools |-> body.grades] \in [body.schools -> SUBSET Grades]
  BY <1>1
<1> QED BY <1>1, <1>2 DEF Product, Access

LEMMA GradesType ==
  ASSUME NEW a \in Access
  PROVE  GradesOf(a) \in SUBSET Grades
BY AccessType DEF GradesOf

LEMMA BlankType == Blank \in Course /\ NoBody \in Body /\ NoCopies \in [Places -> Nat]
BY NoRules DEF Blank, NoBody, NoCopies, Course, Body

LEMMA ItemCallsType ==
  ASSUME NEW body \in Body
  PROVE  ItemCalls(body) \subseteq Calls
<1>1. ASSUME NEW p \in Places, NEW i \in 1..body.copies[p]
      PROVE  <<"item", p, i>> \in {"item"} \X Places \X Nat
  BY <1>1 DEF Body
<1> QED BY <1>1 DEF ItemCalls, Calls

LEMMA CallTypes ==
  /\ SaveCalls \subseteq Calls /\ <<"end">> \in Calls
  /\ \A S \in SUBSET Schools : {"grant"} \X S \subseteq Calls
  /\ \A C \in SUBSET ChapterIds : {"upsert", "wipe"} \X C \subseteq Calls
                                  /\ {"upsert"} \X C \subseteq Calls
  /\ \A a \in Access : AccessCalls(a) \subseteq Calls
  /\ \A body \in Body : ContentCalls(body) \subseteq Calls
<1>1. /\ SaveCalls \subseteq Calls /\ <<"end">> \in Calls
      /\ \A S \in SUBSET Schools : {"grant"} \X S \subseteq Calls
      /\ \A C \in SUBSET ChapterIds : {"upsert", "wipe"} \X C \subseteq Calls
                                      /\ {"upsert"} \X C \subseteq Calls
  BY DEF SaveCalls, Calls
<1>2. \A a \in Access : AccessCalls(a) \subseteq Calls
  <2>1. <<"clear">> \in Calls
    BY DEF Calls
  <2> QED BY <1>1, <2>1, AccessType DEF AccessCalls
<1>3. \A body \in Body : ContentCalls(body) \subseteq Calls
  <2>1. {<<"find">>, <<"drop">>} \subseteq Calls
    BY DEF Calls
  <2>2. \A body \in Body : body.chapters \in SUBSET ChapterIds
    BY DEF Body
  <2> QED BY <1>1, <2>1, <2>2, ItemCallsType DEF ContentCalls
<1> QED BY <1>1, <1>2, <1>3

LEMMA EditedType ==
  ASSUME course \in Course, NEW parts, NEW body \in Body
  PROVE  Edited(parts, body) \in Course
<1>1. /\ body.chapters \in SUBSET ChapterIds /\ body.copies \in [Places -> Nat]
      /\ course.chapters \in SUBSET ChapterIds /\ course.copies \in [Places -> Nat]
      /\ course.access \in Access
  BY DEF Body, Course
<1> QED BY <1>1, ProductType DEF Edited, Course

LEMMA HandlerType ==
  ASSUME NEW calls \in SUBSET Calls, NEW rules \in Access, NEW body \in Body,
         NEW goal \in Course
  PROVE  Handler(calls, rules, body, goal) \in Handling
BY BlankType DEF Handler, Handling

LEMMA RequestKinds == Request = {Idle} \cup Handling
BY DEF Request, Handling

\* No call comes before one of an earlier phase.
LEMMA PhaseOrder ==
  /\ Rank["clear"] = 1 /\ Rank["grant"] = 2 /\ Rank["find"] = 3 /\ Rank["upsert"] = 4
  /\ Rank["drop"] = 5 /\ Rank["wipe"] = 6 /\ Rank["item"] = 7 /\ Rank["chapters"] = 8
  /\ Rank["contents"] = 9 /\ Rank["access"] = 10 /\ Rank["number"] = 11
  /\ Rank["insert"] = 12 /\ Rank["end"] = 13
<1>1. DOMAIN Phases = 1..13
  BY DEF Phases
<1>2. \A i, j \in 1..13 : Phases[i] = Phases[j] => i = j
  BY DEF Phases
<1>3. \A i \in 1..13 : Rank[Phases[i]] = i
  BY <1>1, <1>2 DEF Rank
<1>4. /\ Phases[1] = "clear" /\ Phases[2] = "grant" /\ Phases[3] = "find"
      /\ Phases[4] = "upsert" /\ Phases[5] = "drop" /\ Phases[6] = "wipe"
      /\ Phases[7] = "item" /\ Phases[8] = "chapters" /\ Phases[9] = "contents"
      /\ Phases[10] = "access" /\ Phases[11] = "number" /\ Phases[12] = "insert"
      /\ Phases[13] = "end"
  BY DEF Phases
<1> QED BY <1>3, <1>4

-----------------------------------------------------------------------------
LEMMA AtWork ==
  ASSUME TypeOK, NEW r \in Requests, req[r] # Idle
  PROVE  req[r] \in Handling
BY RequestKinds DEF TypeOK

LEMMA CallAtWork ==
  ASSUME TypeOK, NEW r \in Requests, NEW call, At(r, call)
  PROVE  req[r] # Idle /\ req[r] \in Handling /\ call \in req[r].left /\ call \in Calls
<1>1. req[r] # Idle /\ call \in req[r].left
  BY DEF At, Idle
<1> QED BY <1>1, AtWork DEF Handling

\* A handler that makes its next call keeps the form of all of them.
LEMMA GoesType ==
  ASSUME TypeOK, GrantsRuled, NEW r \in Requests, NEW call, NEW q \in Handling,
         NEW w \in BOOLEAN, req[r] # Idle,
         Goes(r, call, q, w), q.left = req[r].left, q.rules = req[r].rules
  PROVE  req' \in [Requests -> Request] /\ GrantsRuled'
<1> DEFINE rest == q.left \ {call}
           moved == [q EXCEPT !.left = rest]
<1>1. moved \in Handling /\ moved.left = rest /\ moved.rules = q.rules
  BY DEF Handling
<1>2. ASSUME NEW o \in Requests, req[o] # Idle
      PROVE  /\ [req[o] EXCEPT !.alone = FALSE] \in Handling
             /\ [req[o] EXCEPT !.alone = FALSE].left = req[o].left
             /\ [req[o] EXCEPT !.alone = FALSE].rules = req[o].rules
  BY <1>2, AtWork DEF Handling
<1>3. \A o \in Requests :
        req'[o] = IF o = r THEN IF rest = {} THEN Idle ELSE moved
                  ELSE IF w /\ req[o] # Idle THEN [req[o] EXCEPT !.alone = FALSE]
                  ELSE req[o]
  BY DEF Goes
<1> HIDE DEF moved
<1>4. req' \in [Requests -> Request]
  <2>1. \A o \in Requests : req'[o] \in Request
    BY <1>1, <1>2, <1>3, AtWork, RequestKinds
  <2>2. req' = [o \in Requests |-> req'[o]]
    BY DEF Goes
  <2> QED BY <2>1, <2>2
<1>5. GrantsRuled'
  BY <1>1, <1>2, <1>3, ZenonT(60) DEF GrantsRuled
<1> QED BY <1>4, <1>5

LEMMA RefusedType ==
  ASSUME TypeOK, GrantsRuled, NEW r \in Requests, Refused(r)
  PROVE  req' \in [Requests -> Request] /\ GrantsRuled'
BY RequestKinds DEF TypeOK, GrantsRuled, Refused

LEMMA StartsType ==
  ASSUME TypeOK, GrantsRuled, NEW r \in Requests, NEW q \in Handling, Starts(r, q),
         \A s \in Schools : <<"grant", s>> \in q.left => s \in DOMAIN q.rules
  PROVE  req' \in [Requests -> Request] /\ GrantsRuled' /\ started' \in 0..MaxRequests
BY RequestKinds, VersionsOK DEF TypeOK, GrantsRuled, Starts

\* The course keeps its form when the part a call writes does.
LEMMA CourseParts ==
  ASSUME course \in Course
  PROVE  /\ course.access \in Access /\ course.chapters \in SUBSET ChapterIds
         /\ course.copies \in [Places -> Nat]
         /\ \A a \in Access : [course EXCEPT !.access = a] \in Course
         /\ \A c \in SUBSET ChapterIds, n \in [Places -> Nat] :
              [course EXCEPT !.chapters = c, !.copies = n] \in Course
BY DEF Course

\* A course is its parts.
LEMMA BlankParts ==
  /\ Blank.access = <<>> /\ Blank.chapters = {} /\ Blank.copies = NoCopies
  /\ \A x \in Course :
       x.access = <<>> /\ x.chapters = {} /\ x.copies = NoCopies => x = Blank
  /\ \A p \in Places : NoCopies[p] = 0
<1>1. ASSUME NEW x \in Course, x.access = <<>>, x.chapters = {}, x.copies = NoCopies
      PROVE  x = Blank
  <2>1. x = [access |-> x.access, chapters |-> x.chapters, copies |-> x.copies]
    BY DEF Course
  <2> QED BY ONLY <1>1, <2>1 DEF Blank
<1>2. Blank.access = <<>> /\ Blank.chapters = {} /\ Blank.copies = NoCopies
  BY DEF Blank
<1>3. \A p \in Places : NoCopies[p] = 0
  BY DEF NoCopies
<1> QED BY <1>1, <1>2, <1>3

LEMMA WithoutType ==
  ASSUME NEW C, NEW n \in [Places -> Nat]
  PROVE  /\ Without(C, n) \in [Places -> Nat]
         /\ \A p \in Places : Without(C, n)[p] = IF p[1] \in C THEN 0 ELSE n[p]
BY DEF Without

LEMMA StartKeeps ==
  ASSUME Inv, NEW r \in Requests, StartStep(r)
  PROVE  Inv'
<1>0. course \in Course /\ \A e \in Edits : e.body \in Body
  BY VersionsOK DEF Inv, TypeOK
<1>1. ASSUME NEW calls \in SUBSET Calls, NEW rules \in Access, NEW body \in Body,
             NEW goal \in Course, Starts(r, Handler(calls, rules, body, goal)),
             \A s \in Schools : <<"grant", s>> \in calls => s \in DOMAIN rules,
             UNCHANGED <<course, versions>>, exists' = TRUE
      PROVE  Inv'
  <2>1. /\ Handler(calls, rules, body, goal) \in Handling
        /\ Handler(calls, rules, body, goal).left = calls
        /\ Handler(calls, rules, body, goal).rules = rules
    BY HandlerType DEF Handler
  <2>2. req' \in [Requests -> Request] /\ GrantsRuled' /\ started' \in 0..MaxRequests
    BY <1>1, <2>1, StartsType DEF Inv
  <2> QED BY <1>1, <2>2 DEF Inv, TypeOK, VersionsNumbered
<1>2. ASSUME NEW e \in Edits, CreateStart(r, e)
      PROVE  Inv'
  <2> DEFINE calls == ({"grant"} \X e.body.schools) \cup ({"upsert"} \X e.body.chapters)
                        \cup ItemCalls(e.body) \cup {<<"end">>}
  <2>1. /\ e.body \in Body /\ e.body.schools \in SUBSET Schools
        /\ e.body.chapters \in SUBSET ChapterIds
    BY <1>0 DEF Body
  <2>2. calls \subseteq Calls
    BY <2>1, CallTypes, ItemCallsType
  <2>3. \A s \in Schools : <<"grant", s>> \in calls => s \in e.body.schools
    BY DEF ItemCalls
  <2> HIDE DEF calls
  <2> QED BY <1>0, <1>1, <1>2, <2>1, <2>2, <2>3, ProductType, EditedType
          DEF CreateStart, calls
<1>3. ASSUME NEW e \in Edits, UpdateStart(r, e)
      PROVE  Inv'
  <2> DEFINE calls == (IF "access" \in e.parts THEN AccessCalls(Product(e.body)) ELSE {})
                        \cup (IF "content" \in e.parts THEN ContentCalls(e.body) ELSE {})
                        \cup SaveCalls \cup {<<"end">>}
  <2>1. e.body \in Body /\ Product(e.body) \in Access
    BY <1>0, ProductType
  <2>2. calls \subseteq Calls
    BY <2>1, CallTypes
  <2>3. \A s \in Schools : <<"grant", s>> \in calls => s \in DOMAIN Product(e.body)
    BY DEF ItemCalls, ContentCalls, AccessCalls, SaveCalls
  <2>4. Starts(r, Handler(calls, Product(e.body), e.body, Edited(e.parts, e.body)))
    BY <1>3 DEF UpdateStart
  <2> HIDE DEF calls
  <2> QED BY <1>0, <1>1, <1>3, <2>1, <2>2, <2>3, <2>4, EditedType
          DEF UpdateStart, Inv, TypeOK
<1>4. ASSUME NEW v \in DOMAIN versions, RevertStart(r, v)
      PROVE  Inv'
  <2> DEFINE body == versions[v].snap
             calls == AccessCalls(Product(body)) \cup ContentCalls(body) \cup {<<"end">>}
  <2>1. body \in Body /\ Product(body) \in Access
    <3>1. versions[v] \in Version
      BY DEF Inv, TypeOK
    <3> QED BY <3>1, ProductType DEF Version
  <2>2. calls \subseteq Calls
    BY <2>1, CallTypes
  <2>3. \A s \in Schools : <<"grant", s>> \in calls => s \in DOMAIN Product(body)
    BY DEF ItemCalls, ContentCalls, AccessCalls
  <2>4. Starts(r, Handler(calls, Product(body), body, Edited(Parts, body)))
    BY <1>4 DEF RevertStart
  <2> HIDE DEF calls, body
  <2> QED BY <1>0, <1>1, <1>4, <2>1, <2>2, <2>3, <2>4, EditedType
          DEF RevertStart, Inv, TypeOK
<1>5. ASSUME NEW rules \in Rules, AccessStart(r, rules)
      PROVE  Inv'
  <2> DEFINE calls == AccessCalls(rules) \cup {<<"end">>}
             goal == [course EXCEPT !.access = rules]
  <2>1. rules \in Access /\ goal \in Course
    BY <1>0, VersionsOK, CourseParts
  <2>2. calls \subseteq Calls
    BY <2>1, CallTypes
  <2>3. \A s \in Schools : <<"grant", s>> \in calls => s \in DOMAIN rules
    BY DEF AccessCalls
  <2>4. Starts(r, Handler(calls, rules, NoBody, goal))
    BY <1>5 DEF AccessStart
  <2> HIDE DEF calls, goal
  <2> QED BY <1>1, <1>5, <2>1, <2>2, <2>3, <2>4, BlankType DEF AccessStart, Inv, TypeOK
<1>6. ASSUME NEW c \in ChapterIds, AddStart(r, c)
      PROVE  Inv'
  <2> DEFINE goal == [course EXCEPT !.chapters = @ \cup {c}]
  <2>1. goal \in Course /\ {<<"upsert", c>>} \subseteq Calls
    BY <1>0 DEF Course, Calls
  <2>2. \A s \in Schools : <<"grant", s>> \notin {<<"upsert", c>>}
    OBVIOUS
  <2>3. Starts(r, Handler({<<"upsert", c>>}, <<>>, NoBody, goal))
    BY <1>6 DEF AddStart
  <2> HIDE DEF goal
  <2> QED BY <1>1, <1>6, <2>1, <2>2, <2>3, BlankType, NoRules DEF AddStart, Inv, TypeOK
<1>7. ASSUME PublishStart(r)
      PROVE  Inv'
  <2>1. SaveCalls \subseteq Calls /\ \A s \in Schools : <<"grant", s>> \notin SaveCalls
    BY CallTypes DEF SaveCalls
  <2> QED BY <1>0, <1>1, <1>7, <2>1, BlankType, NoRules DEF PublishStart, Inv, TypeOK
<1> QED BY <1>2, <1>3, <1>4, <1>5, <1>6, <1>7 DEF StartStep

-----------------------------------------------------------------------------
Held == \A p \in Places : course.copies[p] > 0 => p[1] \in course.chapters

\* A call of the handler, and what it leaves of the course.
LEMMA CallKeeps ==
  ASSUME Inv, NEW r \in Requests, NEW call, NEW q \in Handling, NEW w \in BOOLEAN,
         req[r] # Idle, Goes(r, call, q, w) \/ Refused(r),
         q.left = req[r].left, q.rules = req[r].rules,
         course' \in Course, Held', ~exists => course' = Blank,
         UNCHANGED <<exists, versions, started>>
  PROVE  Inv'
<1>1. req' \in [Requests -> Request] /\ GrantsRuled'
  <2>1. CASE Goes(r, call, q, w)
    BY <2>1, GoesType DEF Inv
  <2>2. CASE Refused(r)
    BY <2>2, RefusedType DEF Inv
  <2> QED BY <2>1, <2>2
<1> QED BY <1>1 DEF Inv, TypeOK, Held, VersionsNumbered

LEMMA ClearKeeps ==
  ASSUME Inv, NEW r \in Requests, Clear(r)
  PROVE  Inv'
<1>1. req[r] # Idle /\ req[r] \in Handling
  BY CallAtWork DEF Clear, Inv
<1>2. /\ course' = [course EXCEPT !.access = <<>>]
      /\ Goes(r, <<"clear">>, req[r], TRUE)
      /\ UNCHANGED <<exists, versions, started>>
  BY DEF Clear
<1>3. course' \in Course /\ Held'
  BY <1>2, CourseParts, NoRules DEF Inv, TypeOK, Held, Course
<1>4. /\ course'.access = <<>> /\ course'.chapters = course.chapters
      /\ course'.copies = course.copies
  BY <1>2 DEF Inv, TypeOK, Course
<1>5. ~exists => course' = Blank
  BY <1>3, <1>4, BlankParts DEF Inv, TypeOK
<1> QED BY <1>1, <1>2, <1>3, <1>5, CallKeeps

LEMMA GrantKeeps ==
  ASSUME Inv, NEW r \in Requests, NEW s \in Schools, Grant(r, s)
  PROVE  Inv'
<1> DEFINE granted == exists /\ s \notin DOMAIN course.access
           a == [x \in DOMAIN course.access \cup {s} |->
                   IF x = s THEN req[r].rules[s] ELSE course.access[x]]
<1>1. req[r] # Idle /\ req[r] \in Handling /\ s \in DOMAIN req[r].rules
  BY CallAtWork DEF Grant, Inv, GrantsRuled
<1>2. /\ course' = IF granted THEN [course EXCEPT !.access = a] ELSE course
      /\ Goes(r, <<"grant", s>>, req[r], TRUE) \/ Refused(r)
      /\ UNCHANGED <<exists, versions, started>>
  BY DEF Grant
<1>3. a \in Access
  <2>1. req[r].rules \in Access
    BY <1>1 DEF Handling
  <2>2. req[r].rules[s] \in SUBSET Grades
    BY <1>1, <2>1, AccessType
  <2>3. /\ DOMAIN course.access \in SUBSET Schools
        /\ \A x \in DOMAIN course.access : course.access[x] \in SUBSET Grades
    BY AccessType, CourseParts DEF Inv, TypeOK
  <2>4. a \in [DOMAIN course.access \cup {s} -> SUBSET Grades]
    BY <2>2, <2>3
  <2> QED BY <2>3, <2>4 DEF Access
<1> HIDE DEF a
<1>4. course' \in Course /\ Held'
  BY <1>2, <1>3, CourseParts DEF Inv, TypeOK, Held, Course
<1>5. ~exists => course' = Blank
  BY <1>2 DEF Inv, TypeOK
<1> QED BY <1>1, <1>2, <1>4, <1>5, CallKeeps

LEMMA UpsertKeeps ==
  ASSUME Inv, NEW r \in Requests, NEW c \in ChapterIds, Upsert(r, c)
  PROVE  Inv'
<1> DEFINE known == c \in req[r].known
           stored == IF known THEN c \in course.chapters
                     ELSE exists /\ c \notin course.chapters
<1>1. req[r] # Idle /\ req[r] \in Handling
  BY CallAtWork DEF Upsert, Inv
<1>2. PICK w \in BOOLEAN : w = ~known
  OBVIOUS
<1>3. /\ course' = IF stored THEN [course EXCEPT !.chapters = @ \cup {c}] ELSE course
      /\ Goes(r, <<"upsert", c>>, req[r], w) \/ Refused(r)
      /\ UNCHANGED <<exists, versions, started>>
  BY <1>2, Zenon DEF Upsert
<1>4. course' \in Course /\ Held'
  BY <1>3 DEF Inv, TypeOK, Held, Course
<1>5. ~exists => course' = Blank
  BY <1>3 DEF Inv, TypeOK, Blank
<1> QED BY <1>1, <1>3, <1>4, <1>5, CallKeeps

LEMMA DropKeeps ==
  ASSUME Inv, NEW r \in Requests, Drop(r)
  PROVE  Inv'
<1> DEFINE gone == req[r].known \ req[r].body.chapters
           n == Without(gone, course.copies)
<1>1. req[r] # Idle /\ req[r] \in Handling
  BY CallAtWork DEF Drop, Inv
<1>2. /\ course' = [course EXCEPT !.chapters = @ \ gone, !.copies = n]
      /\ Goes(r, <<"drop">>, req[r], TRUE)
      /\ UNCHANGED <<exists, versions, started>>
  BY DEF Drop
<1>3. /\ course.copies \in [Places -> Nat]
      /\ course.chapters \in SUBSET ChapterIds
  BY CourseParts DEF Inv, TypeOK
<1>4. /\ n \in [Places -> Nat]
      /\ \A p \in Places : n[p] = IF p[1] \in gone THEN 0 ELSE course.copies[p]
  BY <1>3, WithoutType
<1>5. ~exists => n = NoCopies /\ course = Blank
  <2>1. ~exists => course = Blank
    BY DEF Inv, TypeOK
  <2>2. ~exists => \A p \in Places : n[p] = 0
    BY <1>4, <2>1, BlankParts
  <2> QED BY <1>4, <2>1, <2>2 DEF NoCopies
<1> HIDE DEF n, gone
<1>6. /\ course'.access = course.access /\ course'.chapters = course.chapters \ gone
      /\ course'.copies = n
  BY <1>2 DEF Inv, TypeOK, Course
<1>7. course' \in Course /\ Held'
  <2>1. course.chapters \ gone \in SUBSET ChapterIds
    BY <1>3
  <2>2. course' \in Course
    BY <1>2, <1>4, <2>1, CourseParts DEF Inv, TypeOK
  <2> QED BY <1>4, <1>6, <2>2 DEF Inv, TypeOK, Held
<1>8. ~exists => course' = Blank
  BY <1>5, <1>6, <1>7, BlankParts
<1> QED BY <1>1, <1>2, <1>7, <1>8, CallKeeps

LEMMA WipeKeeps ==
  ASSUME Inv, NEW r \in Requests, NEW c \in ChapterIds, Wipe(r, c)
  PROVE  Inv'
<1> DEFINE n == Without({c}, course.copies)
<1>1. req[r] # Idle /\ req[r] \in Handling
  BY CallAtWork DEF Wipe, Inv
<1>2. /\ course' = [course EXCEPT !.copies = n]
      /\ Goes(r, <<"wipe", c>>, req[r], TRUE)
      /\ UNCHANGED <<exists, versions, started>>
  BY DEF Wipe
<1>3. course.copies \in [Places -> Nat]
  BY CourseParts DEF Inv, TypeOK
<1>4. /\ n \in [Places -> Nat]
      /\ \A p \in Places : n[p] = IF p[1] \in {c} THEN 0 ELSE course.copies[p]
  BY <1>3, WithoutType
<1>5. ~exists => n = NoCopies /\ course = Blank
  <2>1. ~exists => course = Blank
    BY DEF Inv, TypeOK
  <2>2. ~exists => \A p \in Places : n[p] = 0
    BY <1>4, <2>1, BlankParts
  <2> QED BY <1>4, <2>1, <2>2 DEF NoCopies
<1> HIDE DEF n
<1>6. /\ course'.access = course.access /\ course'.chapters = course.chapters
      /\ course'.copies = n
  BY <1>2 DEF Inv, TypeOK, Course
<1>7. course' \in Course /\ Held'
  <2>1. course' \in Course
    BY <1>2, <1>4 DEF Inv, TypeOK, Course
  <2> QED BY <1>4, <1>6, <2>1 DEF Inv, TypeOK, Held
<1>8. ~exists => course' = Blank
  BY <1>5, <1>6, <1>7, BlankParts
<1> QED BY <1>1, <1>2, <1>7, <1>8, CallKeeps

LEMMA CreateKeeps ==
  ASSUME Inv, NEW r \in Requests, NEW call, Create(r, call)
  PROVE  Inv'
<1> DEFINE place == call[2]
           stored == place[1] \in req[r].body.chapters \cap course.chapters
           n == [course.copies EXCEPT ![place] = course.copies[place] + 1]
<1>1. req[r] # Idle /\ req[r] \in Handling /\ call \in Calls /\ call[1] = "item"
  BY CallAtWork DEF Create, Inv
<1>2. place \in Places
  BY <1>1 DEF Calls
<1>3. course.copies \in [Places -> Nat]
  BY CourseParts DEF Inv, TypeOK
<1>4. /\ course' = IF stored THEN [course EXCEPT !.copies = n] ELSE course
      /\ Goes(r, call, req[r], TRUE) \/ Refused(r)
      /\ UNCHANGED <<exists, versions, started>>
  BY DEF Create
<1>5. /\ n \in [Places -> Nat]
      /\ \A p \in Places \ {place} : n[p] = course.copies[p]
  BY <1>2, <1>3
<1> HIDE DEF n
<1>6. course' \in Course /\ Held'
  BY <1>3, <1>4, <1>5 DEF Inv, TypeOK, Held, Course
<1>7. ~exists => course' = Blank
  <2>1. ~exists => course = Blank
    BY DEF Inv, TypeOK
  <2>2. ~exists => ~stored
    BY <2>1, BlankParts
  <2> QED BY <1>4, <2>1, <2>2
<1> QED BY <1>1, <1>4, <1>6, <1>7, CallKeeps

LEMMA HighestIs ==
  ASSUME NEW n \in Nat, Numbers = 1..n
  PROVE  Highest = n
<1>1. CASE n = 0
  <2>1. Numbers = {}
    BY <1>1
  <2> QED BY <1>1, <2>1 DEF Highest
<1>2. CASE n # 0
  <2>1. n \in Numbers /\ Numbers # {} /\ \A m \in Numbers : m <= n
    BY <1>2
  <2>2. \A k \in Numbers : (\A m \in Numbers : m <= k) => k = n
    BY <2>1
  <2>3. Highest = CHOOSE k \in Numbers : \A m \in Numbers : m <= k
    BY <2>1 DEF Highest
  <2> QED BY <2>1, <2>2, <2>3
<1> QED BY <1>1, <1>2

LEMMA HighestType ==
  ASSUME Inv
  PROVE  Len(versions) \in Nat /\ Numbers = 1..Len(versions) /\ Highest = Len(versions)
<1>1. Len(versions) \in Nat /\ DOMAIN versions = 1..Len(versions)
  BY DEF Inv, TypeOK
<1>2. Numbers = 1..Len(versions)
  BY <1>1 DEF Inv, VersionsNumbered, Numbers
<1> QED BY <1>1, <1>2, HighestIs

LEMMA ReadKeeps ==
  ASSUME Inv, NEW r \in Requests,
         ReadChapters(r) \/ ReadContents(r) \/ ReadAccess(r) \/ ReadNumber(r)
           \/ FindChapters(r) \/ End(r)
  PROVE  Inv'
<1>0. /\ course \in Course /\ course.chapters \in SUBSET ChapterIds
      /\ course.copies \in [Places -> Nat] /\ course.access \in Access
      /\ Held /\ (~exists => course = Blank)
  BY CourseParts DEF Inv, TypeOK, Held
<1>1. /\ req[r] # Idle /\ req[r] \in Handling
      /\ UNCHANGED <<exists, course, versions, started>>
  BY CallAtWork DEF Inv, ReadChapters, ReadContents, ReadAccess, ReadNumber,
                    FindChapters, End
<1>2. ASSUME NEW call, NEW q \in Handling, Goes(r, call, q, FALSE) \/ Refused(r),
             q.left = req[r].left, q.rules = req[r].rules
      PROVE  Inv'
  BY <1>0, <1>1, <1>2, CallKeeps DEF Held
<1>3. CASE ReadChapters(r)
  <2> DEFINE q == [req[r] EXCEPT !.snap.chapters = course.chapters]
  <2>1. q \in Handling /\ q.left = req[r].left /\ q.rules = req[r].rules
    BY <1>0, <1>1 DEF Handling, Body
  <2> QED BY <1>2, <1>3, <2>1 DEF ReadChapters
<1>4. CASE ReadContents(r)
  <2> DEFINE n == Without(ChapterIds \ req[r].snap.chapters, course.copies)
             q == [req[r] EXCEPT !.snap.copies = n]
  <2>1. n \in [Places -> Nat]
    BY <1>0, WithoutType
  <2> HIDE DEF n
  <2>2. q \in Handling /\ q.left = req[r].left /\ q.rules = req[r].rules
    BY <1>1, <2>1 DEF Handling, Body
  <2> QED BY <1>2, <1>4, <2>2 DEF ReadContents, n
<1>5. CASE ReadAccess(r)
  <2> DEFINE schools == DOMAIN course.access
             grades == GradesOf(course.access)
             q == [req[r] EXCEPT !.snap.schools = schools, !.snap.grades = grades]
  <2>1. schools \in SUBSET Schools /\ grades \in SUBSET Grades
    BY <1>0, AccessType, GradesType
  <2> HIDE DEF schools, grades
  <2>2. q \in Handling /\ q.left = req[r].left /\ q.rules = req[r].rules
    BY <1>1, <2>1 DEF Handling, Body
  <2> QED BY <1>2, <1>5, <2>2 DEF ReadAccess, schools, grades
<1>6. CASE FindChapters(r)
  <2> DEFINE q == [req[r] EXCEPT !.known = course.chapters]
  <2>1. q \in Handling /\ q.left = req[r].left /\ q.rules = req[r].rules
    BY <1>0, <1>1 DEF Handling
  <2> QED BY <1>2, <1>6, <2>1 DEF FindChapters
<1>7. CASE ReadNumber(r)
  <2> DEFINE n == Highest + 1
             q == [req[r] EXCEPT !.number = n]
  <2>1. Highest \in Nat
    BY HighestType
  <2>2. n \in Nat
    BY <2>1
  <2> HIDE DEF n
  <2>3. q \in Handling /\ q.left = req[r].left /\ q.rules = req[r].rules
    BY <1>1, <2>2 DEF Handling
  <2> QED BY <1>2, <1>7, <2>3 DEF ReadNumber, n
<1>8. CASE End(r)
  BY <1>1, <1>2, <1>8 DEF End
<1> QED BY <1>3, <1>4, <1>5, <1>6, <1>7, <1>8

LEMMA InsertKeeps ==
  ASSUME NumbersInv, NEW r \in Requests, Insert(r)
  PROVE  Inv'
<1>1. req[r] # Idle /\ req[r] \in Handling /\ UNCHANGED <<exists, course, started>>
  BY CallAtWork DEF NumbersInv, Inv, Insert
<1>2. req' \in [Requests -> Request] /\ GrantsRuled'
  BY <1>1, GoesType, RefusedType DEF NumbersInv, Inv, Insert
<1>3. Row(r) \in Version /\ Row(r).number = req[r].number
  BY <1>1 DEF Row, Version, Handling
<1>4. CASE exists /\ req[r].number \notin Numbers
  <2>1. versions' = Append(versions, Row(r))
    BY <1>4 DEF Insert
  <2>2. req[r].number \in 1..(Len(versions) + 1)
    <3>1. <<"number">> \notin req[r].left /\ <<"insert">> \in req[r].left
      BY PhaseOrder DEF Insert, At
    <3> QED BY <1>1, <1>4, <3>1 DEF NumbersInv, NumbersKnown
  <2>3. req[r].number = Len(versions) + 1 /\ Len(versions) \in Nat
    BY <1>4, <2>2, HighestType DEF NumbersInv
  <2>4. versions' \in Seq(Version) /\ VersionsNumbered'
    BY <1>3, <2>1, <2>3 DEF NumbersInv, Inv, TypeOK, VersionsNumbered
  <2> QED BY <1>1, <1>2, <1>4, <2>4 DEF NumbersInv, Inv, TypeOK
<1>5. CASE ~(exists /\ req[r].number \notin Numbers)
  <2>1. versions' = versions
    BY <1>5 DEF Insert
  <2> QED BY <1>1, <1>2, <2>1 DEF NumbersInv, Inv, TypeOK, VersionsNumbered
<1> QED BY <1>4, <1>5

LEMMA DeleteKeeps ==
  ASSUME Inv, Delete
  PROVE  Inv'
<1>1. \A r \in Requests :
        /\ req'[r] \in Request
        /\ req'[r] # Idle => /\ req[r] # Idle /\ req'[r].left = req[r].left
                             /\ req'[r].rules = req[r].rules
  <2> SUFFICES ASSUME NEW r \in Requests
               PROVE  /\ req'[r] \in Request
                      /\ req'[r] # Idle => /\ req[r] # Idle /\ req'[r].left = req[r].left
                                           /\ req'[r].rules = req[r].rules
    OBVIOUS
  <2>1. CASE req[r] = Idle
    BY <2>1, RequestKinds DEF Delete
  <2>2. CASE req[r] # Idle
    <3>1. req[r] \in Handling
      BY <2>2, AtWork DEF Inv
    <3>2. req'[r] = [req[r] EXCEPT !.alone = FALSE]
      BY <2>2 DEF Delete
    <3> QED BY <2>2, <3>1, <3>2, RequestKinds DEF Handling
  <2> QED BY <2>1, <2>2
<1>2. req' = [r \in Requests |-> req'[r]]
  BY DEF Delete
<1>3. req' \in [Requests -> Request] /\ GrantsRuled'
  BY <1>1, <1>2 DEF Inv, GrantsRuled
<1>4. course' \in Course /\ Held'
  BY BlankType, BlankParts DEF Delete, Held
<1>5. /\ exists' = FALSE /\ course' = Blank /\ versions' = <<>>
      /\ started' = started
  BY DEF Delete
<1>6. <<>> \in Seq(Version) /\ DOMAIN <<>> = {}
  OBVIOUS
<1>7. TypeOK'
  BY <1>3, <1>4, <1>5, <1>6 DEF Inv, TypeOK, Held
<1>8. VersionsNumbered'
  BY <1>5, <1>6 DEF VersionsNumbered
<1> QED BY <1>3, <1>7, <1>8 DEF Inv

LEMMA FormKept == NumbersInv /\ [Next]_vars => Inv'
<1> SUFFICES ASSUME NumbersInv, [Next]_vars PROVE Inv'
  OBVIOUS
<1>0. Inv
  BY DEF NumbersInv
<1>1. ASSUME NEW r \in Requests, EditStep(r) PROVE Inv'
  BY <1>0, <1>1, ClearKeeps, GrantKeeps, UpsertKeeps, DropKeeps, WipeKeeps, CreateKeeps,
     ReadKeeps DEF EditStep
<1>2. ASSUME NEW r \in Requests, SaveStep(r) \/ End(r) PROVE Inv'
  BY <1>0, <1>2, ReadKeeps, InsertKeeps DEF SaveStep
<1>3. ASSUME NEW r \in Requests, Fail(r) PROVE Inv'
  BY <1>0, <1>3, RefusedType DEF Fail, Inv, TypeOK, VersionsNumbered
<1>4. CASE UNCHANGED vars
  BY <1>0, <1>4 DEF vars, Inv, TypeOK, GrantsRuled, VersionsNumbered
<1>5. ASSUME NEW r \in Requests, StartStep(r) PROVE Inv'
  BY <1>0, <1>5, StartKeeps
<1>6. CASE Delete
  BY <1>0, <1>6, DeleteKeeps
<1> QED BY <1>1, <1>2, <1>3, <1>4, <1>5, <1>6 DEF Next

-----------------------------------------------------------------------------
(***************************************************************************)
(* How the handlers change from step to step.                              *)
(***************************************************************************)
\* A handler goes on: all it holds stays, but for the calls it has made.
Same(r) ==
    /\ req[r] # Idle
    /\ req'[r].left \subseteq req[r].left
    /\ req'[r].rules = req[r].rules /\ req'[r].body = req[r].body
    /\ req'[r].known = req[r].known /\ req'[r].snap = req[r].snap
    /\ req'[r].number = req[r].number /\ req'[r].goal = req[r].goal
    /\ req'[r].alone => req[r].alone

LEMMA GoesMoves ==
  ASSUME TypeOK, NEW r \in Requests, req[r] # Idle, NEW call, NEW q \in Handling,
         NEW w \in BOOLEAN, Goes(r, call, q, w)
  PROVE  /\ \A o \in Requests \ {r} : req'[o] # Idle =>
              Same(o) /\ req'[o].left = req[o].left /\ (req'[o].alone => ~w)
         /\ req'[r] # Idle =>
              /\ req'[r].left = q.left \ {call}
              /\ req'[r].rules = q.rules /\ req'[r].body = q.body
              /\ req'[r].known = q.known /\ req'[r].snap = q.snap
              /\ req'[r].number = q.number /\ req'[r].goal = q.goal
              /\ req'[r].alone = q.alone
<1>1. ASSUME NEW o \in Requests \ {r}, req'[o] # Idle
      PROVE  Same(o) /\ req'[o].left = req[o].left /\ (req'[o].alone => ~w)
  <2>1. req'[o] = IF w /\ req[o] # Idle THEN [req[o] EXCEPT !.alone = FALSE] ELSE req[o]
    BY <1>1 DEF Goes
  <2>2. req[o] # Idle
    BY <1>1, <2>1
  <2>3. req[o] \in Handling
    BY <2>2, AtWork
  <2>4. CASE w
    <3>1. req'[o] = [req[o] EXCEPT !.alone = FALSE]
      BY <2>1, <2>2, <2>4
    <3> QED BY <2>2, <2>3, <2>4, <3>1 DEF Same, Handling
  <2>5. CASE ~w
    BY <2>1, <2>2, <2>5 DEF Same
  <2> QED BY <2>4, <2>5
<1>2. ASSUME req'[r] # Idle
      PROVE  req'[r] = [q EXCEPT !.left = q.left \ {call}]
  BY <1>2 DEF Goes
<1>3. /\ [q EXCEPT !.left = q.left \ {call}].left = q.left \ {call}
      /\ [q EXCEPT !.left = q.left \ {call}].rules = q.rules
      /\ [q EXCEPT !.left = q.left \ {call}].body = q.body
      /\ [q EXCEPT !.left = q.left \ {call}].known = q.known
      /\ [q EXCEPT !.left = q.left \ {call}].snap = q.snap
      /\ [q EXCEPT !.left = q.left \ {call}].number = q.number
      /\ [q EXCEPT !.left = q.left \ {call}].goal = q.goal
      /\ [q EXCEPT !.left = q.left \ {call}].alone = q.alone
  BY DEF Handling
<1> QED BY <1>1, <1>2, <1>3

\* The same for one who only follows the handlers on their way.
Moved(r, call, q) ==
    /\ \A o \in Requests \ {r} : req'[o] # Idle => Same(o) /\ req'[o].left = req[o].left
    /\ req'[r] # Idle =>
         /\ req'[r].left = q.left \ {call} /\ req'[r].rules = q.rules
         /\ req'[r].body = q.body /\ req'[r].known = q.known /\ req'[r].snap = q.snap
         /\ req'[r].number = q.number /\ req'[r].goal = q.goal
         /\ req'[r].alone = q.alone

LEMMA GoesOn ==
  ASSUME TypeOK, NEW r \in Requests, req[r] # Idle, NEW call, NEW q \in Handling,
         Goes(r, call, q, TRUE) \/ Goes(r, call, q, FALSE)
  PROVE  Moved(r, call, q)
<1>1. CASE Goes(r, call, q, TRUE)
  BY ONLY <1>1, TypeOK, r \in Requests, req[r] # Idle, q \in Handling, GoesMoves,
          ZenonT(60) DEF Moved
<1>2. CASE Goes(r, call, q, FALSE)
  BY ONLY <1>2, TypeOK, r \in Requests, req[r] # Idle, q \in Handling, GoesMoves,
          ZenonT(60) DEF Moved
<1> QED BY <1>1, <1>2

LEMMA RefusedMoves ==
  ASSUME TypeOK, NEW r \in Requests, Refused(r)
  PROVE  /\ req'[r] = Idle
         /\ \A o \in Requests \ {r} : req'[o] = req[o]
         /\ \A o \in Requests : req'[o] # Idle => o # r /\ Same(o)
BY DEF TypeOK, Refused, Same

LEMMA StartsMoves ==
  ASSUME TypeOK, NEW r \in Requests, NEW q, Starts(r, q)
  PROVE  /\ req'[r] = q
         /\ \A o \in Requests \ {r} : req'[o] = req[o]
         /\ started' > 0
BY VersionsOK DEF TypeOK, Starts

\* A call other than the reading of a number, seen by the numbers.
LEMMA OthersNumbered ==
  ASSUME NumbersInv, started' = started, exists' => exists, versions' = versions,
         \A o \in Requests : req'[o] # Idle =>
            /\ req[o] # Idle /\ req'[o].number = req[o].number
            /\ req'[o].left \subseteq req[o].left
            /\ <<"number">> \in req[o].left => <<"number">> \in req'[o].left
  PROVE  NumbersKnown' /\ Unstarted'
BY DEF NumbersInv, NumbersKnown, Unstarted

LEMMA CallNumbered ==
  ASSUME NumbersInv, NEW r \in Requests, req[r] # Idle, NEW call,
         NEW w \in BOOLEAN, NEW q \in Handling,
         Goes(r, call, q, w) \/ Refused(r), q.left = req[r].left,
         q.number = req[r].number, call # <<"number">>,
         UNCHANGED <<exists, versions, started>>
  PROVE  NumbersKnown' /\ Unstarted'
<1>0. TypeOK
  BY DEF NumbersInv, Inv
<1>1. CASE Goes(r, call, q, w)
  <2>1. \A o \in Requests : req'[o] # Idle =>
          /\ req[o] # Idle /\ req'[o].number = req[o].number
          /\ req'[o].left \subseteq req[o].left
          /\ <<"number">> \in req[o].left => <<"number">> \in req'[o].left
    <3>1. Goes(r, call, q, TRUE) \/ Goes(r, call, q, FALSE)
      BY <1>1, Zenon
    <3>2. Moved(r, call, q)
      BY <1>0, <3>1, GoesOn
    <3> QED BY <3>2 DEF Moved, Same
  <2> QED BY <2>1, OthersNumbered
<1>2. CASE Refused(r)
  BY <1>0, <1>2, RefusedMoves, OthersNumbered
<1> QED BY <1>1, <1>2

\* The same request, with the same calls to make.
Alike(p, q) ==
    /\ q.left = p.left /\ q.rules = p.rules /\ q.body = p.body
    /\ q.goal = p.goal /\ q.alone = p.alone

\* A call of an edit, or the last one: it keeps what the handler has read.
EditCall(r, call, q, w) ==
    /\ req[r] # Idle
    /\ Goes(r, call, q, w) \/ Refused(r)
    /\ Alike(req[r], q) /\ q.snap = req[r].snap /\ q.number = req[r].number
    /\ call[1] \in Writing \cup {"end"}
    /\ UNCHANGED <<exists, versions, started>>

LEMMA EditCalls ==
  ASSUME TypeOK, NEW r \in Requests, EditStep(r) \/ End(r)
  PROVE  \E call \in Calls, q \in Handling, w \in BOOLEAN : EditCall(r, call, q, w)
<1> DEFINE p == req[r]
<1>0. \A call : At(r, call) => req[r] # Idle /\ req[r] \in Handling /\ call \in Calls
  BY CallAtWork
<1>1. ASSUME NEW call, At(r, call), NEW w \in BOOLEAN, Goes(r, call, p, w) \/ Refused(r),
             call[1] \in Writing \cup {"end"}, UNCHANGED <<exists, versions, started>>
      PROVE  \E cl \in Calls, q \in Handling, v \in BOOLEAN : EditCall(r, cl, q, v)
  <2>1. call \in Calls /\ p \in Handling /\ EditCall(r, call, p, w)
    BY <1>0, <1>1 DEF Alike, EditCall
  <2> QED BY <2>1
<1>2. CASE Clear(r)
  BY <1>1, <1>2 DEF Clear, Writing
<1>3. CASE Drop(r)
  BY <1>1, <1>3 DEF Drop, Writing
<1>4. CASE End(r)
  BY <1>1, <1>4 DEF End, Writing
<1>5. CASE \E s \in Schools : Grant(r, s)
  <2>1. PICK s \in Schools : Grant(r, s)
    BY <1>5
  <2>2. /\ At(r, <<"grant", s>>) /\ UNCHANGED <<exists, versions, started>>
        /\ Goes(r, <<"grant", s>>, p, TRUE) \/ Refused(r)
        /\ <<"grant", s>>[1] \in Writing \cup {"end"}
    BY <2>1 DEF Grant, Writing
  <2> QED BY <1>1, <2>2
<1>6. CASE \E c \in ChapterIds : Upsert(r, c)
  <2>1. PICK c \in ChapterIds : Upsert(r, c)
    BY <1>6
  <2>2. PICK w \in BOOLEAN : w = ~(c \in req[r].known)
    OBVIOUS
  <2>3. Goes(r, <<"upsert", c>>, p, w) \/ Refused(r)
    BY <2>1, <2>2, Zenon DEF Upsert
  <2>4. /\ At(r, <<"upsert", c>>) /\ UNCHANGED <<exists, versions, started>>
        /\ <<"upsert", c>>[1] \in Writing \cup {"end"}
    BY <2>1 DEF Upsert, Writing
  <2> QED BY <1>1, <2>3, <2>4
<1>7. CASE \E c \in ChapterIds : Wipe(r, c)
  BY <1>1, <1>7 DEF Wipe, Writing
<1>8. CASE \E call \in req[r].left : Create(r, call)
  <2>1. PICK call \in req[r].left : Create(r, call)
    BY <1>8
  <2>2. /\ At(r, call) /\ UNCHANGED <<exists, versions, started>>
        /\ Goes(r, call, p, TRUE) \/ Refused(r)
        /\ call[1] \in Writing \cup {"end"}
    BY <2>1 DEF Create, Writing
  <2> QED BY <1>1, <2>2
<1>9. CASE FindChapters(r)
  <2> DEFINE q == [p EXCEPT !.known = course.chapters]
  <2>1. /\ p # Idle /\ p \in Handling /\ Goes(r, <<"find">>, q, FALSE)
        /\ <<"find">> \in Calls /\ UNCHANGED <<exists, versions, started>>
    BY <1>0, <1>9 DEF FindChapters
  <2>2. /\ q \in Handling /\ Alike(p, q) /\ q.snap = p.snap /\ q.number = p.number
    BY <2>1, CourseParts DEF Handling, TypeOK, Alike
  <2>3. <<"find">>[1] \in Writing \cup {"end"}
    BY DEF Writing
  <2>4. EditCall(r, <<"find">>, q, FALSE)
    BY <2>1, <2>2, <2>3 DEF EditCall
  <2> HIDE DEF q
  <2> QED BY <2>1, <2>2, <2>4
<1> QED BY <1>2, <1>3, <1>4, <1>5, <1>6, <1>7, <1>8, <1>9 DEF EditStep

\* A handler that is to store a version has all of it still to read.
LEMMA StartsRead ==
  ASSUME NEW r \in Requests, StartStep(r)
  PROVE  \E q : /\ Starts(r, q)
                /\ <<"insert">> \in q.left => SaveCalls \subseteq q.left
                /\ UNCHANGED versions
                /\ exists \/ started = 0
<1>1. \A calls, rules, body, goal : Handler(calls, rules, body, goal).left = calls
  BY DEF Handler
<1>2. CASE \E e \in Edits : CreateStart(r, e)
  <2>1. PICK e \in Edits : CreateStart(r, e)
    BY <1>2
  <2>2. <<"insert">> \notin ({"grant"} \X e.body.schools)
            \cup ({"upsert"} \X e.body.chapters) \cup ItemCalls(e.body) \cup {<<"end">>}
    BY DEF ItemCalls
  <2> QED BY <1>1, <2>1, <2>2 DEF CreateStart
<1>3. CASE \E e \in Edits : UpdateStart(r, e)
  BY <1>1, <1>3 DEF UpdateStart
<1>4. CASE \E v \in DOMAIN versions : RevertStart(r, v)
  <2>1. \A rules, body : <<"insert">> \notin AccessCalls(rules) \cup ContentCalls(body)
                                             \cup {<<"end">>}
    BY DEF AccessCalls, ContentCalls, ItemCalls
  <2> QED BY <1>1, <1>4, <2>1 DEF RevertStart
<1>5. CASE \E rules \in Rules : AccessStart(r, rules)
  <2>1. \A rules : <<"insert">> \notin AccessCalls(rules) \cup {<<"end">>}
    BY DEF AccessCalls
  <2> QED BY <1>1, <1>5, <2>1 DEF AccessStart
<1>6. CASE \E c \in ChapterIds : AddStart(r, c)
  <2>1. \A c : <<"insert">> \notin {<<"upsert", c>>}
    OBVIOUS
  <2> QED BY <1>1, <1>6, <2>1 DEF AddStart
<1>7. CASE PublishStart(r)
  BY <1>1, <1>7 DEF PublishStart
<1> QED BY <1>2, <1>3, <1>4, <1>5, <1>6, <1>7 DEF StartStep

LEMMA NumbersStep == NumbersInv /\ [Next]_vars => NumbersKnown' /\ Unstarted'
<1> SUFFICES ASSUME NumbersInv, [Next]_vars PROVE NumbersKnown' /\ Unstarted'
  OBVIOUS
<1>0. Inv /\ TypeOK
  BY DEF NumbersInv, Inv
<1>1. ASSUME NEW r \in Requests, StartStep(r)
      PROVE  NumbersKnown' /\ Unstarted'
  <2>1. PICK q : /\ Starts(r, q)
                 /\ <<"insert">> \in q.left => <<"number">> \in q.left
                 /\ UNCHANGED versions
                 /\ exists \/ started = 0
    BY <1>1, StartsRead DEF SaveCalls
  <2>2. /\ req'[r] = q /\ started' > 0
        /\ \A o \in Requests \ {r} : req'[o] = req[o]
    BY <1>0, <2>1, StartsMoves
  <2>3. \A o \in Requests : req[o] # Idle => exists
    BY <2>1 DEF NumbersInv, Unstarted
  <2> QED BY <2>1, <2>2 DEF NumbersInv, NumbersKnown, Unstarted
<1>2. ASSUME NEW r \in Requests, EditStep(r) \/ End(r)
      PROVE  NumbersKnown' /\ Unstarted'
  <2>1. PICK call \in Calls, q \in Handling, w \in BOOLEAN : EditCall(r, call, q, w)
    BY <1>0, <1>2, EditCalls
  <2>2. call # <<"number">>
    BY <2>1 DEF EditCall, Writing
  <2> QED BY <2>1, <2>2, CallNumbered DEF EditCall, Alike
<1>3. ASSUME NEW r \in Requests, ReadChapters(r) \/ ReadContents(r) \/ ReadAccess(r)
      PROVE  NumbersKnown' /\ Unstarted'
  <2>0. /\ req[r] # Idle /\ req[r] \in Handling
        /\ UNCHANGED <<exists, versions, started>>
    BY <1>0, <1>3, CallAtWork DEF ReadChapters, ReadContents, ReadAccess
  <2>1. CASE ReadChapters(r)
    <3> DEFINE q == [req[r] EXCEPT !.snap.chapters = course.chapters]
    <3>1. q \in Handling /\ q.left = req[r].left /\ q.number = req[r].number
      BY <1>0, <2>0, CourseParts DEF TypeOK, Handling, Body
    <3>2. /\ Goes(r, <<"chapters">>, q, FALSE) \/ Refused(r)
          /\ <<"chapters">> # <<"number">>
      BY <2>1 DEF ReadChapters
    <3> HIDE DEF q
    <3> QED BY <2>0, <3>1, <3>2, CallNumbered
  <2>2. CASE ReadContents(r)
    <3> DEFINE n == Without(ChapterIds \ req[r].snap.chapters, course.copies)
               q == [req[r] EXCEPT !.snap.copies = n]
    <3>1. course.copies \in [Places -> Nat]
      BY <1>0, CourseParts DEF TypeOK
    <3>2. n \in [Places -> Nat]
      BY <3>1, WithoutType
    <3>3. Goes(r, <<"contents">>, q, FALSE)
      BY <2>2 DEF ReadContents
    <3> HIDE DEF n
    <3>4. q \in Handling /\ q.left = req[r].left /\ q.number = req[r].number
      BY <2>0, <3>2 DEF Handling, Body
    <3> HIDE DEF q
    <3> QED BY <2>0, <3>3, <3>4, CallNumbered
  <2>3. CASE ReadAccess(r)
    <3> DEFINE schools == DOMAIN course.access
               grades == GradesOf(course.access)
               q == [req[r] EXCEPT !.snap.schools = schools, !.snap.grades = grades]
    <3>1. schools \in SUBSET Schools /\ grades \in SUBSET Grades
      BY <1>0, CourseParts, AccessType, GradesType DEF TypeOK
    <3>2. Goes(r, <<"access">>, q, FALSE)
      BY <2>3 DEF ReadAccess
    <3> HIDE DEF schools, grades
    <3>3. q \in Handling /\ q.left = req[r].left /\ q.number = req[r].number
      BY <2>0, <3>1 DEF Handling, Body
    <3> HIDE DEF q
    <3> QED BY <2>0, <3>2, <3>3, CallNumbered
  <2> QED BY <1>3, <2>1, <2>2, <2>3
<1>4. ASSUME NEW r \in Requests, ReadNumber(r)
      PROVE  NumbersKnown' /\ Unstarted'
  <2> DEFINE n == Highest + 1
             q == [req[r] EXCEPT !.number = n]
  <2>1. /\ req[r] # Idle /\ req[r] \in Handling
        /\ Goes(r, <<"number">>, q, FALSE) /\ UNCHANGED <<exists, versions, started>>
    BY <1>0, <1>4, CallAtWork DEF ReadNumber
  <2>2. n = Len(versions) + 1 /\ n \in Nat
    BY <1>0, HighestType
  <2> HIDE DEF n
  <2>3. q \in Handling /\ q.left = req[r].left /\ q.number = n
    BY <2>1, <2>2 DEF Handling
  <2> HIDE DEF q
  <2>4. Moved(r, <<"number">>, q)
    BY <1>0, <2>1, <2>3, GoesOn
  <2> QED BY <2>1, <2>2, <2>3, <2>4 DEF Moved, NumbersInv, NumbersKnown, Unstarted, Same
<1>5. ASSUME NEW r \in Requests, Insert(r)
      PROVE  NumbersKnown' /\ Unstarted'
  <2>1. /\ req[r] # Idle /\ req[r] \in Handling
        /\ Goes(r, <<"insert">>, req[r], FALSE) \/ Refused(r)
        /\ UNCHANGED <<exists, started>>
        /\ versions' = versions \/ versions' = Append(versions, Row(r))
    BY <1>0, <1>5, CallAtWork DEF Insert
  <2>2. Len(versions) \in Nat /\ Len(versions') \in Nat /\ Len(versions) <= Len(versions')
    BY <1>0, <2>1 DEF TypeOK
  <2>3. \A o \in Requests : req'[o] # Idle =>
          /\ req[o] # Idle /\ req'[o].number = req[o].number
          /\ req'[o].left \subseteq req[o].left
          /\ <<"number">> \in req[o].left => <<"number">> \in req'[o].left
    <3>1. CASE Goes(r, <<"insert">>, req[r], FALSE)
      <4>1. Moved(r, <<"insert">>, req[r])
        BY <1>0, <2>1, <3>1, GoesOn
      <4>2. <<"insert">> # <<"number">>
        OBVIOUS
      <4> QED BY <2>1, <4>1, <4>2 DEF Moved, Same
    <3>2. CASE Refused(r)
      BY <1>0, <3>2, RefusedMoves
    <3> QED BY <2>1, <3>1, <3>2
  <2> QED BY <2>1, <2>2, <2>3 DEF NumbersInv, NumbersKnown, Unstarted
<1>6. ASSUME NEW r \in Requests, Fail(r)
      PROVE  NumbersKnown' /\ Unstarted'
  BY <1>0, <1>6, RefusedMoves, OthersNumbered DEF Fail
<1>7. CASE Delete
  BY <1>7 DEF Delete, NumbersInv, NumbersKnown, Unstarted
<1>8. CASE UNCHANGED vars
  BY <1>8 DEF vars, NumbersInv, NumbersKnown, Unstarted
<1> QED BY <1>1, <1>2, <1>3, <1>4, <1>5, <1>6, <1>7, <1>8 DEF Next, SaveStep

LEMMA NumbersInvariant == Spec => []NumbersInv
<1>1. Init => NumbersInv
  <2> SUFFICES ASSUME Init PROVE NumbersInv
    OBVIOUS
  <2>1. <<>> \in Seq(Version) /\ DOMAIN <<>> = {}
    OBVIOUS
  <2>2. req \in [Requests -> Request] /\ GrantsRuled
    BY RequestKinds DEF Init, GrantsRuled
  <2>3. course = Blank /\ Held
    BY BlankParts DEF Init, Held
  <2>4. TypeOK /\ GrantsRuled
    <3>0. started \in 0..MaxRequests /\ versions = <<>>
      BY VersionsOK DEF Init
    <3>1. exists \in BOOLEAN
      BY Zenon DEF Init
    <3>2. course \in Course
      BY <2>3, BlankType
    <3> QED BY <2>1, <2>2, <2>3, <3>0, <3>1, <3>2 DEF TypeOK, Held
  <2> QED BY <2>1, <2>4 DEF Init, NumbersInv, Inv, VersionsNumbered, NumbersKnown, Unstarted
<1>2. NumbersInv /\ [Next]_vars => NumbersInv'
  BY FormKept, NumbersStep DEF NumbersInv
<1> QED BY <1>1, <1>2, PTL DEF Spec

\* Course, versions and handlers keep their form, and an item is in a chapter.
THEOREM TypeCorrect == Spec => []TypeOK
<1>1. NumbersInv => TypeOK
  BY DEF NumbersInv, Inv
<1> QED BY <1>1, NumbersInvariant, PTL

\* The versions are numbered in the order they were stored.
THEOREM VersionsAreNumbered == Spec => []VersionsNumbered
<1>1. NumbersInv => VersionsNumbered
  BY DEF NumbersInv, Inv
<1> QED BY <1>1, NumbersInvariant, PTL

-----------------------------------------------------------------------------
\* What an edit of a course leaves and what a version records.  Plan says which
\* calls of a handler are still to come before which; Made, what the course is by
\* the calls made so far when no other handler wrote meanwhile.

\* The items of a place that are still to be created.
ItemsLeft(q, p) == {i \in 1..q.goal.copies[p] : <<"item", p, i>> \in q.left}

\* A rule to come is one that was asked for; before the old ones are cleared,
\* all of them are to come.
PlanAccess(q) ==
    /\ \A s \in Schools : <<"grant", s>> \in q.left =>
         s \in DOMAIN q.goal.access /\ q.rules[s] = q.goal.access[s]
    /\ <<"clear">> \in q.left => \A s \in DOMAIN q.goal.access : <<"grant", s>> \in q.left

\* Likewise the chapters, until the old ones are found and dropped,
\* and the items, up to the phase that empties their chapter.
PlanContent(q) ==
    /\ \A c \in ChapterIds :
         <<"upsert", c>> \in q.left \/ <<"wipe", c>> \in q.left => c \in q.goal.chapters
    /\ <<"find">> \in q.left =>
         <<"drop">> \in q.left /\ \A c \in q.goal.chapters : <<"upsert", c>> \in q.left
    /\ <<"drop">> \in q.left =>
         /\ q.body.chapters = q.goal.chapters
         /\ \A c \in q.goal.chapters : <<"wipe", c>> \in q.left
    /\ \A p \in Places : <<"drop">> \in q.left \/ <<"wipe", p[1]>> \in q.left =>
         ItemsLeft(q, p) = 1..q.goal.copies[p]
    /\ \A p \in Places, i \in Nat :
         <<"item", p, i>> \in q.left => i \in 1..q.goal.copies[p]

Plan(q) == PlanAccess(q) /\ PlanContent(q)

\* Once cleared, the rules are those that have been made.
MadeAccess(q, c) ==
    <<"clear">> \notin q.left =>
        /\ DOMAIN c.access = {s \in DOMAIN q.goal.access : <<"grant", s>> \notin q.left}
        /\ \A s \in DOMAIN c.access : c.access[s] = q.goal.access[s]

UpsertsMade(q) == {c \in q.goal.chapters : <<"upsert", c>> \notin q.left}

\* Once found, the chapters are the old ones and those made, and after the drop
\* those made alone; what an emptied chapter lacks of its items is to come.
MadeContent(q, c) ==
    /\ <<"drop">> \in q.left /\ <<"find">> \notin q.left =>
         c.chapters = q.known \cup UpsertsMade(q)
    /\ <<"drop">> \notin q.left =>
         /\ c.chapters = UpsertsMade(q)
         /\ \A p \in Places : <<"wipe", p[1]>> \notin q.left =>
              c.copies[p] + Cardinality(ItemsLeft(q, p)) = q.goal.copies[p]

Made(q, c) == MadeAccess(q, c) /\ MadeContent(q, c)

LEMMA ItemsLeftFinite ==
  ASSUME NEW q \in Handling, NEW p \in Places
  PROVE  /\ IsFiniteSet(ItemsLeft(q, p))
         /\ Cardinality(ItemsLeft(q, p)) \in Nat
         /\ q.goal.copies[p] \in Nat
         /\ Cardinality(1..q.goal.copies[p]) = q.goal.copies[p]
<1>1. q.goal.copies[p] \in Nat
  BY DEF Handling, Course
<1>2. /\ IsFiniteSet(1..q.goal.copies[p])
      /\ Cardinality(1..q.goal.copies[p]) = q.goal.copies[p]
  <2> DEFINE n == q.goal.copies[p]
  <2>1. n \in Nat
    BY <1>1
  <2> HIDE DEF n
  <2>2. IsFiniteSet(1..n) /\ Cardinality(1..n) = IF 1 > n THEN 0 ELSE n - 1 + 1
    BY <2>1, FS_Interval
  <2>3. Cardinality(1..n) = n
    BY <2>1, <2>2
  <2> QED BY <2>2, <2>3 DEF n
<1>3. ItemsLeft(q, p) \subseteq 1..q.goal.copies[p]
  BY DEF ItemsLeft
<1>4. IsFiniteSet(ItemsLeft(q, p))
  BY <1>2, <1>3, FS_Subset
<1> QED BY <1>1, <1>2, <1>4, FS_CardinalityType

\* When nothing is left to write, the course is what was asked for.
LEMMA MadeWhole ==
  ASSUME NEW q \in Handling, NEW c \in Course, Made(q, c),
         \A call \in q.left : call[1] \notin Writing
  PROVE  c = q.goal
<1>0. q.goal \in Course /\ q.goal.access \in Access /\ c.access \in Access
      /\ q.goal.copies \in [Places -> Nat] /\ c.copies \in [Places -> Nat]
  BY DEF Handling, Course
<1>1. /\ <<"clear">> \notin q.left /\ <<"drop">> \notin q.left
      /\ \A s \in Schools : <<"grant", s>> \notin q.left
      /\ \A k \in ChapterIds : <<"upsert", k>> \notin q.left /\ <<"wipe", k>> \notin q.left
      /\ \A p \in Places, i \in Nat : <<"item", p, i>> \notin q.left
  BY DEF Writing
<1>2. c.access = q.goal.access
  <2>1. /\ DOMAIN c.access = DOMAIN q.goal.access
        /\ \A s \in DOMAIN c.access : c.access[s] = q.goal.access[s]
    BY <1>0, <1>1, AccessType DEF Made, MadeAccess
  <2>2. /\ c.access = [s \in DOMAIN c.access |-> c.access[s]]
        /\ q.goal.access = [s \in DOMAIN q.goal.access |-> q.goal.access[s]]
    BY <1>0, AccessType
  <2> QED BY <2>1, <2>2
<1>3. c.chapters = q.goal.chapters
  BY <1>0, <1>1 DEF Made, MadeContent, UpsertsMade, Course
<1>4. c.copies = q.goal.copies
  <2>1. ASSUME NEW p \in Places
        PROVE  c.copies[p] = q.goal.copies[p]
    <3>1. p[1] \in ChapterIds
      BY DEF Places
    <3>2. ItemsLeft(q, p) = {}
      BY <1>0, <1>1 DEF ItemsLeft
    <3>3. c.copies[p] + 0 = q.goal.copies[p]
      BY <1>1, <3>1, <3>2, FS_EmptySet DEF Made, MadeContent
    <3> QED BY <1>0, <3>3
  <2> QED BY <1>0, <2>1
<1>5. /\ c = [access |-> c.access, chapters |-> c.chapters, copies |-> c.copies]
      /\ q.goal = [access |-> q.goal.access, chapters |-> q.goal.chapters,
                   copies |-> q.goal.copies]
  BY <1>0 DEF Course
<1> QED BY ONLY <1>2, <1>3, <1>4, <1>5

\* A call changes nothing in the order of those that are left.
LEMMA PlanKept ==
  ASSUME TypeOK, NEW r \in Requests, NEW call, At(r, call), NEW q \in Handling,
         Plan(req[r]), q.left = req[r].left \ {call}, q.rules = req[r].rules,
         q.body = req[r].body, q.goal = req[r].goal
  PROVE  Plan(q)
<1> DEFINE p == req[r]
<1>0. /\ p \in Handling /\ call \in p.left /\ call \in Calls
      /\ p.goal.chapters \in SUBSET ChapterIds /\ p.goal.access \in Access
  BY CallAtWork DEF Handling, Course
<1>1. \A d \in p.left : Rank[call[1]] <= Rank[d[1]]
  BY DEF At
<1>2. PlanAccess(q)
  <2>1. ASSUME <<"clear">> \in q.left, NEW s \in Schools
        PROVE  call # <<"grant", s>>
    BY <1>1, <2>1, PhaseOrder
  <2> QED BY <1>0, <2>1, AccessType DEF Plan, PlanAccess
<1>3. PlanContent(q)
  <2>1. ASSUME <<"find">> \in q.left, NEW c
        PROVE  call # <<"drop">> /\ call # <<"upsert", c>>
    BY <1>1, <2>1, PhaseOrder
  <2>2. ASSUME <<"drop">> \in q.left, NEW c
        PROVE  call # <<"wipe", c>>
    BY <1>1, <2>2, PhaseOrder
  <2>3. ASSUME NEW p1, NEW i, NEW d, <<"drop">> \in q.left \/ <<"wipe", d>> \in q.left
        PROVE  call # <<"item", p1, i>>
    BY <1>1, <2>3, PhaseOrder
  <2>4. \A c \in ChapterIds :
          <<"upsert", c>> \in q.left \/ <<"wipe", c>> \in q.left => c \in q.goal.chapters
    BY DEF Plan, PlanContent
  <2>5. <<"find">> \in q.left =>
          <<"drop">> \in q.left /\ \A c \in q.goal.chapters : <<"upsert", c>> \in q.left
    BY <2>1 DEF Plan, PlanContent
  <2>6. <<"drop">> \in q.left =>
          /\ q.body.chapters = q.goal.chapters
          /\ \A c \in q.goal.chapters : <<"wipe", c>> \in q.left
    BY <2>2 DEF Plan, PlanContent
  <2>7. ASSUME NEW x \in Places, <<"drop">> \in q.left \/ <<"wipe", x[1]>> \in q.left
        PROVE  ItemsLeft(q, x) = 1..q.goal.copies[x]
    <3>1. ItemsLeft(p, x) = 1..p.goal.copies[x]
      BY <2>7 DEF Plan, PlanContent
    <3>2. \A i : call # <<"item", x, i>>
      BY <2>3, <2>7
    <3> QED BY <3>1, <3>2 DEF ItemsLeft
  <2>8. \A x \in Places, i \in Nat :
          <<"item", x, i>> \in q.left => i \in 1..q.goal.copies[x]
    BY DEF Plan, PlanContent
  <2> QED BY <2>4, <2>5, <2>6, <2>7, <2>8 DEF PlanContent
<1> QED BY <1>2, <1>3 DEF Plan

\* Holds of every handler, and of the course for those nobody disturbed.
EffectOf(q, c) == Plan(q) /\ (q.alone => Made(q, c))

Effects == \A r \in Requests : req[r] # Idle => EffectOf(req[r], course)

LEMMA EffectSame ==
  ASSUME NEW p, NEW q, NEW c, EffectOf(p, c), q.left = p.left, q.rules = p.rules,
         q.body = p.body, q.known = p.known, q.goal = p.goal, q.alone => p.alone
  PROVE  EffectOf(q, c)
<1>1. Plan(q)
  BY DEF EffectOf, Plan, PlanAccess, PlanContent, ItemsLeft
<1>2. q.alone => Made(q, c)
  BY DEF EffectOf, Made, MadeAccess, MadeContent, UpsertsMade, ItemsLeft
<1> QED BY <1>1, <1>2 DEF EffectOf

\* Others than the handler that makes a call.
LEMMA OthersEffect ==
  ASSUME TypeOK, Effects, NEW r \in Requests, NEW call, NEW q \in Handling,
         req[r] # Idle,
         Goes(r, call, q, TRUE) \/ (Goes(r, call, q, FALSE) /\ course' = course)
  PROVE  \A o \in Requests \ {r} : req'[o] # Idle => EffectOf(req'[o], course')
<1> SUFFICES ASSUME NEW o \in Requests \ {r}, req'[o] # Idle
             PROVE  EffectOf(req'[o], course')
  OBVIOUS
<1>1. Same(o) /\ req'[o].left = req[o].left
  BY GoesMoves
<1>2. req'[o].alone => course' = course
  <2>1. CASE Goes(r, call, q, TRUE)
    BY <2>1, GoesMoves
  <2>2. CASE Goes(r, call, q, FALSE) /\ course' = course
    BY <2>2
  <2> QED BY <2>1, <2>2
<1>3. EffectOf(req[o], course)
  BY <1>1 DEF Effects, Same
<1>4. EffectOf(req'[o], course)
  BY <1>1, <1>3, EffectSame DEF Same
<1> QED BY <1>2, <1>4 DEF EffectOf

\* What a call is to leave of the course, for the handler that makes it.
Leaves(r, call, known) ==
    \A m \in Handling :
        m.left = req[r].left \ {call} /\ m.goal = req[r].goal /\ m.known = known
            /\ req[r].alone
          => Made(m, course')

LEMMA GoesEffect ==
  ASSUME TypeOK, TypeOK', Effects, NEW r \in Requests, NEW call, At(r, call),
         NEW q \in Handling,
         Goes(r, call, q, TRUE) \/ (Goes(r, call, q, FALSE) /\ course' = course),
         Alike(req[r], q), Leaves(r, call, q.known)
  PROVE  Effects'
<1>1. req[r] # Idle /\ req[r] \in Handling
  BY CallAtWork
<1>2. \A o \in Requests \ {r} : req'[o] # Idle => EffectOf(req'[o], course')
  BY <1>1, OthersEffect
<1>3. ASSUME req'[r] # Idle
      PROVE  EffectOf(req'[r], course')
  <2>0. Moved(r, call, q)
    BY ONLY <1>1, Goes(r, call, q, TRUE) \/ Goes(r, call, q, FALSE), TypeOK,
            r \in Requests, q \in Handling, GoesOn
  <2>1. /\ req'[r].left = q.left \ {call} /\ req'[r].rules = q.rules
        /\ req'[r].body = q.body /\ req'[r].known = q.known
        /\ req'[r].goal = q.goal /\ req'[r].alone = q.alone
    BY <1>3, <2>0 DEF Moved
  <2>2. req'[r] \in Handling
    BY <1>3, RequestKinds DEF TypeOK
  <2>3. Plan(req'[r])
    <3>1. /\ req'[r].left = req[r].left \ {call} /\ req'[r].rules = req[r].rules
          /\ req'[r].body = req[r].body /\ req'[r].goal = req[r].goal
      BY <2>1 DEF Alike
    <3>2. Plan(req[r])
      BY <1>1 DEF Effects, EffectOf
    <3> QED BY ONLY <2>2, <3>1, <3>2, TypeOK, At(r, call), r \in Requests, PlanKept
  <2>4. req'[r].alone => Made(req'[r], course')
    BY <2>1, <2>2 DEF Alike, Leaves
  <2> QED BY <2>3, <2>4 DEF EffectOf
<1> QED BY <1>2, <1>3 DEF Effects

LEMMA RefusedEffect ==
  ASSUME TypeOK, Effects, NEW r \in Requests, Refused(r), course' = course
  PROVE  Effects'
BY RefusedMoves DEF Effects

\* A call of the one part leaves what is made of the other.
LEMMA AccessApart ==
  ASSUME NEW p, NEW m, NEW call, NEW c, NEW d, MadeAccess(p, c),
         m.left = p.left \ {call}, call[1] \notin {"clear", "grant"},
         m.goal = p.goal, d.access = c.access
  PROVE  MadeAccess(m, d)
<1>1. <<"clear">> # call /\ \A s : <<"grant", s>> # call
  OBVIOUS
<1> QED BY <1>1 DEF MadeAccess

LEMMA ContentApart ==
  ASSUME NEW p, NEW m, NEW call, NEW c, NEW d, MadeContent(p, c),
         m.left = p.left \ {call},
         call[1] \notin {"find", "upsert", "drop", "wipe", "item"},
         m.goal = p.goal, m.known = p.known, d.chapters = c.chapters, d.copies = c.copies
  PROVE  MadeContent(m, d)
<1>1. /\ <<"find">> # call /\ <<"drop">> # call
      /\ \A x : <<"upsert", x>> # call /\ <<"wipe", x>> # call
      /\ \A x, i : <<"item", x, i>> # call
  OBVIOUS
<1>2. UpsertsMade(m) = UpsertsMade(p) /\ \A x : ItemsLeft(m, x) = ItemsLeft(p, x)
  BY <1>1 DEF UpsertsMade, ItemsLeft
<1> QED BY <1>1, <1>2 DEF MadeContent

LEMMA ClearEffect ==
  ASSUME TypeOK, TypeOK', Effects, NEW r \in Requests, Clear(r)
  PROVE  Effects'
<1> DEFINE p == req[r]
<1>1. /\ At(r, <<"clear">>) /\ p # Idle /\ p \in Handling /\ <<"clear">> \in p.left
      /\ Goes(r, <<"clear">>, p, TRUE)
  BY CallAtWork DEF Clear
<1>2. /\ course'.access = <<>> /\ course'.chapters = course.chapters
      /\ course'.copies = course.copies
  BY DEF Clear, TypeOK, Course
<1>3. ASSUME NEW m \in Handling, m.left = p.left \ {<<"clear">>}, m.goal = p.goal,
             m.known = p.known, p.alone
      PROVE  Made(m, course')
  <2>1. Plan(p) /\ Made(p, course)
    BY <1>1, <1>3 DEF Effects, EffectOf
  <2>2. MadeContent(m, course')
    BY <1>2, <1>3, <2>1, ContentApart DEF Made
  <2>3. MadeAccess(m, course')
    <3>1. \A s \in DOMAIN m.goal.access : <<"grant", s>> \in m.left
      BY <1>1, <1>3, <2>1 DEF Plan, PlanAccess
    <3>2. DOMAIN course'.access = {}
      BY <1>2
    <3> QED BY <3>1, <3>2 DEF MadeAccess
  <2> QED BY <2>2, <2>3 DEF Made
<1>4. Leaves(r, <<"clear">>, p.known) /\ Alike(req[r], p)
  BY <1>3 DEF Leaves, Alike
<1> QED BY <1>1, <1>4, GoesEffect

LEMMA GrantEffect ==
  ASSUME TypeOK, TypeOK', Effects, NEW r \in Requests, NEW s \in Schools, Grant(r, s)
  PROVE  Effects'
<1> DEFINE p == req[r]
           granted == exists /\ s \notin DOMAIN course.access
           a == [x \in DOMAIN course.access \cup {s} |->
                   IF x = s THEN p.rules[s] ELSE course.access[x]]
<1>1. /\ At(r, <<"grant", s>>) /\ p # Idle /\ p \in Handling /\ <<"grant", s>> \in p.left
  BY CallAtWork DEF Grant
<1>3. ASSUME NEW m \in Handling, m.left = p.left \ {<<"grant", s>>}, m.goal = p.goal,
             m.known = p.known, p.alone, granted
      PROVE  Made(m, course')
  <2>1. Plan(p) /\ Made(p, course)
    BY <1>1, <1>3 DEF Effects, EffectOf
  <2>2. course' = [course EXCEPT !.access = a]
    BY <1>3 DEF Grant
  <2>3. /\ course'.access = a /\ course'.chapters = course.chapters
        /\ course'.copies = course.copies
    BY <2>2 DEF TypeOK, Course
  <2>4. MadeContent(m, course')
    BY <1>3, <2>1, <2>3, ContentApart DEF Made
  <2>5. MadeAccess(m, course')
    <3>1. <<"clear">> \notin p.left
      BY <1>1, PhaseOrder DEF At
    <3>2. /\ DOMAIN course.access = {x \in DOMAIN p.goal.access : <<"grant", x>> \notin p.left}
          /\ \A x \in DOMAIN course.access : course.access[x] = p.goal.access[x]
      BY <2>1, <3>1 DEF Made, MadeAccess
    <3>3. s \in DOMAIN p.goal.access /\ p.rules[s] = p.goal.access[s]
      BY <1>1, <2>1 DEF Plan, PlanAccess
    <3>4. DOMAIN a = {x \in DOMAIN p.goal.access : <<"grant", x>> \notin m.left}
      BY <1>3, <3>2, <3>3
    <3>5. \A x \in DOMAIN a : a[x] = p.goal.access[x]
      BY <3>2, <3>3
    <3> HIDE DEF a
    <3>6. m.goal = p.goal /\ course'.access = a
      BY <1>3, <2>3
    <3> QED BY ONLY <3>4, <3>5, <3>6 DEF MadeAccess
  <2> QED BY <2>4, <2>5 DEF Made
<1>4. CASE granted
  <2>1. Goes(r, <<"grant", s>>, p, TRUE)
    BY <1>4 DEF Grant
  <2>2. Leaves(r, <<"grant", s>>, p.known) /\ Alike(req[r], p)
    BY <1>3, <1>4 DEF Leaves, Alike
  <2> QED BY <1>1, <2>1, <2>2, GoesEffect
<1>5. CASE ~granted
  <2>1. Refused(r) /\ course' = course
    BY <1>5 DEF Grant
  <2> QED BY <2>1, RefusedEffect
<1> QED BY <1>4, <1>5

LEMMA FindEffect ==
  ASSUME TypeOK, TypeOK', Effects, NEW r \in Requests, FindChapters(r)
  PROVE  Effects'
<1> DEFINE p == req[r]
           q == [p EXCEPT !.known = course.chapters]
<1>1. /\ At(r, <<"find">>) /\ p # Idle /\ p \in Handling /\ <<"find">> \in p.left
      /\ Goes(r, <<"find">>, q, FALSE) /\ course' = course
  BY CallAtWork DEF FindChapters
<1>2. q \in Handling /\ q.known = course.chapters /\ Alike(p, q)
  BY <1>1, CourseParts DEF Handling, TypeOK, Alike
<1> HIDE DEF q
<1>3. ASSUME NEW m \in Handling, m.left = p.left \ {<<"find">>}, m.goal = p.goal,
             m.known = q.known, p.alone
      PROVE  Made(m, course')
  <2>1. Plan(p) /\ Made(p, course)
    BY <1>1, <1>3 DEF Effects, EffectOf
  <2>2. MadeAccess(m, course')
    <3>1. <<"find">>[1] \notin {"clear", "grant"} /\ MadeAccess(p, course)
      BY <2>1 DEF Made
    <3>2. course'.access = course.access
      BY <1>1
    <3> QED BY ONLY <1>3, <3>1, <3>2, AccessApart
  <2>3. /\ <<"drop">> \in m.left
        /\ \A c \in m.goal.chapters : <<"upsert", c>> \in m.left
    BY <1>1, <1>3, <2>1 DEF Plan, PlanContent
  <2>4. UpsertsMade(m) = {}
    BY <2>3 DEF UpsertsMade
  <2>5. MadeContent(m, course')
    BY <1>1, <1>2, <1>3, <2>3, <2>4 DEF MadeContent
  <2> QED BY <2>2, <2>5 DEF Made
<1>4. Leaves(r, <<"find">>, q.known)
  BY <1>3 DEF Leaves
<1> QED BY <1>1, <1>2, <1>4, GoesEffect

LEMMA UpsertEffect ==
  ASSUME TypeOK, TypeOK', Effects, NEW r \in Requests, NEW c \in ChapterIds, Upsert(r, c)
  PROVE  Effects'
<1> DEFINE p == req[r]
           call == <<"upsert", c>>
           known == c \in p.known
           stored == IF known THEN c \in course.chapters
                     ELSE exists /\ c \notin course.chapters
<1>1. /\ At(r, call) /\ p # Idle /\ p \in Handling /\ call \in p.left
  BY CallAtWork DEF Upsert
<1>2. ASSUME stored, NEW m \in Handling, m.left = p.left \ {call}, m.goal = p.goal,
             m.known = p.known, p.alone
      PROVE  Made(m, course')
  <2>1. Plan(p) /\ Made(p, course)
    BY <1>1, <1>2 DEF Effects, EffectOf
  <2>2. course' = [course EXCEPT !.chapters = course.chapters \cup {c}]
    BY <1>2 DEF Upsert
  <2>3. /\ course'.access = course.access /\ course'.copies = course.copies
        /\ course'.chapters = course.chapters \cup {c}
    BY <2>2 DEF TypeOK, Course
  <2>4. MadeAccess(m, course')
    <3>1. call[1] \notin {"clear", "grant"} /\ MadeAccess(p, course)
      BY <2>1 DEF Made
    <3> QED BY <1>2, <2>3, <3>1, AccessApart
  <2>5. UpsertsMade(m) = UpsertsMade(p) \cup {c}
    BY <1>1, <1>2, <2>1 DEF UpsertsMade, Plan, PlanContent
  <2>6. \A x \in Places : ItemsLeft(m, x) = ItemsLeft(p, x)
    BY <1>2 DEF ItemsLeft
  <2>7. <<"find">> \notin p.left
    BY <1>1, PhaseOrder DEF At
  <2>8. MadeContent(m, course')
    BY <1>2, <2>1, <2>3, <2>5, <2>6, <2>7 DEF Made, MadeContent
  <2> QED BY <2>4, <2>8 DEF Made
<1>3. CASE stored
  <2>1. Leaves(r, call, p.known) /\ Alike(req[r], p)
    BY <1>2, <1>3 DEF Leaves, Alike
  <2>2. CASE known
    <3>1. Goes(r, call, p, FALSE)
      <4>1. Goes(r, call, p, ~known)
        BY <1>3 DEF Upsert
      <4> QED BY <2>2, <4>1, Zenon
    <3>2. course' = course
      <4>1. course' = [course EXCEPT !.chapters = course.chapters \cup {c}]
        BY <1>3 DEF Upsert
      <4>2. course.chapters \cup {c} = course.chapters
        BY <1>3, <2>2
      <4> QED BY <4>1, <4>2 DEF TypeOK, Course
    <3> QED BY <1>1, <2>1, <3>1, <3>2, GoesEffect
  <2>3. CASE ~known
    <3>1. Goes(r, call, p, TRUE)
      <4>1. Goes(r, call, p, ~known)
        BY <1>3 DEF Upsert
      <4> QED BY <2>3, <4>1, Zenon
    <3> QED BY <1>1, <2>1, <3>1, GoesEffect
  <2> QED BY <2>2, <2>3
<1>4. CASE ~stored
  <2>1. Refused(r) /\ course' = course
    BY <1>4 DEF Upsert
  <2> QED BY <2>1, RefusedEffect
<1> QED BY <1>3, <1>4

LEMMA DropEffect ==
  ASSUME TypeOK, TypeOK', Effects, NEW r \in Requests, Drop(r)
  PROVE  Effects'
<1> DEFINE p == req[r]
           gone == p.known \ p.body.chapters
           n == Without(gone, course.copies)
<1>1. /\ At(r, <<"drop">>) /\ p # Idle /\ p \in Handling /\ <<"drop">> \in p.left
      /\ Goes(r, <<"drop">>, p, TRUE)
  BY CallAtWork DEF Drop
<1>2. course' = [course EXCEPT !.chapters = @ \ gone, !.copies = n]
  BY DEF Drop
<1>3. /\ n \in [Places -> Nat]
      /\ \A x \in Places : n[x] = IF x[1] \in gone THEN 0 ELSE course.copies[x]
  <2>1. course.copies \in [Places -> Nat]
    BY CourseParts DEF TypeOK
  <2> QED BY <2>1, WithoutType
<1> HIDE DEF n
<1>4. /\ course'.access = course.access /\ course'.chapters = course.chapters \ gone
      /\ course'.copies = n
  BY <1>2 DEF TypeOK, Course
<1>5. ASSUME NEW m \in Handling, m.left = p.left \ {<<"drop">>}, m.goal = p.goal,
             m.known = p.known, p.alone
      PROVE  Made(m, course')
  <2>1. Plan(p) /\ Made(p, course)
    BY <1>1, <1>5 DEF Effects, EffectOf
  <2>2. MadeAccess(m, course')
    <3>1. <<"drop">>[1] \notin {"clear", "grant"} /\ MadeAccess(p, course)
      BY <2>1 DEF Made
    <3> QED BY <1>4, <1>5, <3>1, AccessApart
  <2>3. <<"find">> \notin p.left /\ \A c : <<"upsert", c>> \notin p.left
    BY <1>1, PhaseOrder DEF At
  <2>4. /\ p.body.chapters = p.goal.chapters
        /\ \A c \in p.goal.chapters : <<"wipe", c>> \in p.left
        /\ \A x \in Places : ItemsLeft(p, x) = 1..p.goal.copies[x]
    BY <1>1, <2>1 DEF Plan, PlanContent
  <2>5. UpsertsMade(p) = p.goal.chapters /\ UpsertsMade(m) = p.goal.chapters
    BY <1>5, <2>3 DEF UpsertsMade
  <2>6. course.chapters = p.known \cup p.goal.chapters
    BY <1>1, <2>1, <2>3, <2>5 DEF Made, MadeContent
  <2>7. course'.chapters = UpsertsMade(m)
    BY <1>4, <2>4, <2>5, <2>6
  <2>8. ASSUME NEW x \in Places, <<"wipe", x[1]>> \notin m.left
        PROVE  course'.copies[x] + Cardinality(ItemsLeft(m, x)) = m.goal.copies[x]
    <3>1. x[1] \in ChapterIds /\ course.copies[x] \in Nat
      BY CourseParts DEF Places, TypeOK
    <3>2. x[1] \notin p.goal.chapters
      BY <1>5, <2>4, <2>8
    <3>3. x[1] \in gone \/ x[1] \notin course.chapters
      BY <2>4, <2>6, <3>2
    <3>4. course'.copies[x] = 0
      BY <1>3, <1>4, <3>1, <3>3 DEF TypeOK
    <3>5. ItemsLeft(m, x) = 1..m.goal.copies[x]
      BY <1>5, <2>4 DEF ItemsLeft
    <3> QED BY <3>4, <3>5, ItemsLeftFinite
  <2>9. MadeContent(m, course')
    BY <1>5, <2>7, <2>8 DEF MadeContent
  <2> QED BY <2>2, <2>9 DEF Made
<1>6. Leaves(r, <<"drop">>, p.known) /\ Alike(req[r], p)
  BY <1>5 DEF Leaves, Alike
<1> QED BY <1>1, <1>6, GoesEffect

LEMMA WipeEffect ==
  ASSUME TypeOK, TypeOK', Effects, NEW r \in Requests, NEW c \in ChapterIds, Wipe(r, c)
  PROVE  Effects'
<1> DEFINE p == req[r]
           call == <<"wipe", c>>
           n == Without({c}, course.copies)
<1>1. /\ At(r, call) /\ p # Idle /\ p \in Handling /\ call \in p.left
      /\ Goes(r, call, p, TRUE)
  BY CallAtWork DEF Wipe
<1>2. course' = [course EXCEPT !.copies = n]
  BY DEF Wipe
<1>3. \A x \in Places : n[x] = IF x[1] = c THEN 0 ELSE course.copies[x]
  <2>1. course.copies \in [Places -> Nat]
    BY CourseParts DEF TypeOK
  <2> QED BY <2>1, WithoutType
<1> HIDE DEF n
<1>4. /\ course'.access = course.access /\ course'.chapters = course.chapters
      /\ course'.copies = n
  BY <1>2 DEF TypeOK, Course
<1>5. ASSUME NEW m \in Handling, m.left = p.left \ {call}, m.goal = p.goal,
             m.known = p.known, p.alone
      PROVE  Made(m, course')
  <2>1. Plan(p) /\ Made(p, course)
    BY <1>1, <1>5 DEF Effects, EffectOf
  <2>2. MadeAccess(m, course')
    <3>1. call[1] \notin {"clear", "grant"} /\ MadeAccess(p, course)
      BY <2>1 DEF Made
    <3> QED BY <1>4, <1>5, <3>1, AccessApart
  <2>3. <<"drop">> \notin p.left
    BY <1>1, PhaseOrder DEF At
  <2>4. UpsertsMade(m) = UpsertsMade(p) /\ \A x : ItemsLeft(m, x) = ItemsLeft(p, x)
    BY <1>5 DEF UpsertsMade, ItemsLeft
  <2>5. course'.chapters = UpsertsMade(m)
    BY <1>4, <2>1, <2>3, <2>4 DEF Made, MadeContent
  <2>6. ASSUME NEW x \in Places, <<"wipe", x[1]>> \notin m.left
        PROVE  course'.copies[x] + Cardinality(ItemsLeft(m, x)) = m.goal.copies[x]
    <3>1. CASE x[1] = c
      <4>1. ItemsLeft(p, x) = 1..p.goal.copies[x]
        BY <1>1, <2>1, <3>1 DEF Plan, PlanContent
      <4>2. ItemsLeft(m, x) = 1..m.goal.copies[x]
        BY <1>5, <2>4, <4>1
      <4>3. course'.copies[x] = 0
        BY <1>3, <1>4, <3>1
      <4> QED BY <4>2, <4>3, ItemsLeftFinite
    <3>2. CASE x[1] # c
      <4>1. <<"wipe", x[1]>> \notin p.left
        BY <1>5, <2>6, <3>2
      <4>2. course.copies[x] + Cardinality(ItemsLeft(p, x)) = p.goal.copies[x]
        BY <2>1, <2>3, <4>1 DEF Made, MadeContent
      <4> QED BY <1>3, <1>4, <1>5, <2>4, <3>2, <4>2
    <3> QED BY <3>1, <3>2
  <2>7. <<"drop">> \notin m.left
    BY <1>5, <2>3
  <2>8. MadeContent(m, course')
    BY ONLY <2>5, <2>6, <2>7 DEF MadeContent
  <2> QED BY <2>2, <2>8 DEF Made
<1>6. Leaves(r, call, p.known) /\ Alike(req[r], p)
  BY <1>5 DEF Leaves, Alike
<1> QED BY <1>1, <1>6, GoesEffect

LEMMA CreateEffect ==
  ASSUME TypeOK, TypeOK', Effects, NEW r \in Requests, NEW call, Create(r, call)
  PROVE  Effects'
<1> DEFINE p == req[r]
           place == call[2]
           stored == place[1] \in p.body.chapters \cap course.chapters
           n == [course.copies EXCEPT ![place] = course.copies[place] + 1]
<1>1. /\ At(r, call) /\ p # Idle /\ p \in Handling /\ call \in p.left /\ call \in Calls
      /\ call[1] = "item"
  BY CallAtWork DEF Create
<1>2. place \in Places /\ call[3] \in Nat /\ call = <<"item", place, call[3]>>
  BY <1>1 DEF Calls
<1>3. course.copies \in [Places -> Nat]
  BY CourseParts DEF TypeOK
<1>4. ASSUME stored, NEW m \in Handling, m.left = p.left \ {call}, m.goal = p.goal,
             m.known = p.known, p.alone
      PROVE  Made(m, course')
  <2>1. Plan(p) /\ Made(p, course)
    BY <1>1, <1>4 DEF Effects, EffectOf
  <2>2. course' = [course EXCEPT !.copies = n]
    BY <1>4 DEF Create
  <2>3. n[place] = course.copies[place] + 1 /\ \A x \in Places \ {place} : n[x] = course.copies[x]
    BY <1>2, <1>3
  <2> HIDE DEF n
  <2>4. /\ course'.access = course.access /\ course'.chapters = course.chapters
        /\ course'.copies = n
    BY <2>2 DEF TypeOK, Course
  <2>5. MadeAccess(m, course')
    BY <1>1, <1>4, <2>1, <2>4, AccessApart DEF Made
  <2>6. <<"drop">> \notin p.left /\ \A c : <<"wipe", c>> \notin p.left
    BY <1>1, PhaseOrder DEF At
  <2>7. /\ UpsertsMade(m) = UpsertsMade(p)
        /\ \A x \in Places \ {place} : ItemsLeft(m, x) = ItemsLeft(p, x)
        /\ ItemsLeft(m, place) = ItemsLeft(p, place) \ {call[3]}
    BY <1>2, <1>4 DEF UpsertsMade, ItemsLeft
  <2>8. call[3] \in ItemsLeft(p, place)
    BY <1>1, <1>2, <2>1 DEF Plan, PlanContent, ItemsLeft
  <2>9. \A x \in Places : course.copies[x] + Cardinality(ItemsLeft(p, x)) = p.goal.copies[x]
    BY <2>1, <2>6 DEF Made, MadeContent
  <2>10. Cardinality(ItemsLeft(m, place)) = Cardinality(ItemsLeft(p, place)) - 1
    <3>1. IsFiniteSet(ItemsLeft(p, place))
      BY <1>1, <1>2, ItemsLeftFinite
    <3>2. Cardinality(ItemsLeft(p, place) \ {call[3]}) = Cardinality(ItemsLeft(p, place)) - 1
      BY ONLY <2>8, <3>1, FS_RemoveElement, ZenonT(60)
    <3> QED BY <2>7, <3>2
  <2>11. /\ course.copies[place] \in Nat /\ Cardinality(ItemsLeft(p, place)) \in Nat
         /\ p.goal.copies[place] \in Nat
    BY <1>1, <1>2, <1>3, ItemsLeftFinite
  <2>12. n[place] + Cardinality(ItemsLeft(m, place)) = m.goal.copies[place]
    BY ONLY <1>2, <1>4, <2>3, <2>9, <2>10, <2>11
  <2>13. \A x \in Places : n[x] + Cardinality(ItemsLeft(m, x)) = m.goal.copies[x]
    BY <1>4, <2>3, <2>7, <2>9, <2>12
  <2>14. course'.chapters = UpsertsMade(m)
    BY <2>1, <2>4, <2>6, <2>7 DEF Made, MadeContent
  <2>15. <<"drop">> \notin m.left
    BY <1>4, <2>6
  <2>16. MadeContent(m, course')
    BY ONLY <2>4, <2>13, <2>14, <2>15 DEF MadeContent
  <2> QED BY <2>5, <2>16 DEF Made
<1>5. CASE stored
  <2>1. Leaves(r, call, p.known) /\ Alike(req[r], p)
    BY <1>4, <1>5 DEF Leaves, Alike
  <2>2. Goes(r, call, p, TRUE)
    BY <1>5 DEF Create
  <2> QED BY <1>1, <2>1, <2>2, GoesEffect
<1>6. CASE ~stored
  <2>1. Refused(r) /\ course' = course
    BY <1>6 DEF Create
  <2> QED BY <2>1, RefusedEffect
<1> QED BY <1>5, <1>6

\* Reading changes neither the course nor what is left to write.
LEMMA ReadEffect ==
  ASSUME TypeOK, TypeOK', Effects, NEW r \in Requests, NEW call, At(r, call),
         call[1] \notin Writing, NEW q \in Handling, Goes(r, call, q, FALSE),
         Alike(req[r], q), q.known = req[r].known, course' = course
  PROVE  Effects'
<1> DEFINE p == req[r]
<1>1. p # Idle /\ p \in Handling
  BY CallAtWork
<1>2. ASSUME NEW m \in Handling, m.left = p.left \ {call}, m.goal = p.goal,
             m.known = p.known, p.alone
      PROVE  Made(m, course)
  <2>1. MadeAccess(p, course) /\ MadeContent(p, course)
    BY <1>1, <1>2 DEF Effects, EffectOf, Made
  <2>2. MadeAccess(m, course)
    BY <1>2, <2>1, AccessApart DEF Writing
  <2>3. MadeContent(m, course)
    BY <1>2, <2>1, ContentApart DEF Writing
  <2> QED BY <2>2, <2>3 DEF Made
<1>3. Leaves(r, call, q.known)
  BY <1>2 DEF Leaves
<1> QED BY <1>3, GoesEffect

-----------------------------------------------------------------------------
\* What a handler finds as it starts.
LEMMA StartAccess ==
  ASSUME NEW q, NEW c, q.goal \in Course, c \in Course,
         \/ /\ <<"clear">> \notin q.left /\ \A s \in Schools : <<"grant", s>> \notin q.left
            /\ q.goal.access = c.access
         \/ /\ \A s \in Schools : <<"grant", s>> \in q.left <=> s \in DOMAIN q.rules
            /\ q.goal.access = q.rules
            /\ <<"clear">> \in q.left \/ c.access = <<>>
  PROVE  PlanAccess(q) /\ MadeAccess(q, c)
<1>1. DOMAIN q.goal.access \in SUBSET Schools /\ DOMAIN c.access \in SUBSET Schools
  BY AccessType DEF Course
<1>2. CASE /\ <<"clear">> \notin q.left /\ \A s \in Schools : <<"grant", s>> \notin q.left
           /\ q.goal.access = c.access
  BY <1>1, <1>2 DEF PlanAccess, MadeAccess
<1>3. CASE /\ \A s \in Schools : <<"grant", s>> \in q.left <=> s \in DOMAIN q.rules
           /\ q.goal.access = q.rules
           /\ <<"clear">> \in q.left \/ c.access = <<>>
  <2>1. PlanAccess(q)
    BY <1>1, <1>3 DEF PlanAccess
  <2>2. <<"clear">> \notin q.left => DOMAIN c.access = {}
    BY <1>3
  <2> QED BY <1>1, <1>3, <2>1, <2>2 DEF MadeAccess
<1> QED BY <1>2, <1>3

\* A handler that writes no content, or adds one chapter.
Brings(q, c, added) ==
    /\ <<"find">> \notin q.left /\ <<"drop">> \notin q.left
    /\ \A k : <<"upsert", k>> \in q.left <=> k \in added
    /\ \A k : <<"wipe", k>> \notin q.left
    /\ \A p, i : <<"item", p, i>> \notin q.left
    /\ q.goal.chapters = c.chapters \cup added
    /\ added \cap c.chapters = {}
    /\ q.goal.copies = c.copies

LEMMA StartNoContent ==
  ASSUME NEW q, NEW c, NEW added, q.goal \in Course, c \in Course, Brings(q, c, added)
  PROVE  PlanContent(q) /\ MadeContent(q, c)
<1> USE DEF Brings
<1>1. \A p \in Places : ItemsLeft(q, p) = {}
  BY DEF ItemsLeft
<1>2. UpsertsMade(q) = c.chapters
  BY DEF UpsertsMade
<1>3. \A p \in Places : c.copies[p] \in Nat /\ c.copies[p] + 0 = q.goal.copies[p]
  BY DEF Course
<1>4. MadeContent(q, c)
  BY <1>1, <1>2, <1>3, FS_EmptySet DEF MadeContent
<1>5. PlanContent(q)
  BY DEF PlanContent
<1> QED BY <1>4, <1>5

\* A handler that replaces the content, or brings the first one.
LEMMA StartContent ==
  ASSUME NEW q \in Handling, NEW c, q.body \in Body,
         q.goal.chapters = q.body.chapters, q.goal.copies = q.body.copies,
         \A k \in ChapterIds : <<"upsert", k>> \in q.left <=> k \in q.body.chapters,
         \A p \in Places, i \in Nat :
            <<"item", p, i>> \in q.left <=> i \in 1..q.body.copies[p],
         \/ /\ <<"find">> \in q.left /\ <<"drop">> \in q.left
            /\ \A k \in ChapterIds : <<"wipe", k>> \in q.left <=> k \in q.body.chapters
         \/ /\ <<"find">> \notin q.left /\ <<"drop">> \notin q.left
            /\ \A k \in ChapterIds : <<"wipe", k>> \notin q.left
            /\ c = Blank
  PROVE  PlanContent(q) /\ MadeContent(q, c)
<1>1. q.body.chapters \in SUBSET ChapterIds /\ q.body.copies \in [Places -> Nat]
  BY DEF Body
<1>2. \A p \in Places : ItemsLeft(q, p) = 1..q.goal.copies[p]
  BY <1>1 DEF ItemsLeft
<1>3. UpsertsMade(q) = {}
  BY <1>1 DEF UpsertsMade
<1>4. PlanContent(q)
  <2>1. \A p \in Places : p[1] \in ChapterIds
    BY DEF Places
  <2> QED BY <1>1, <1>2, <2>1 DEF PlanContent
<1>5. MadeContent(q, c)
  <2>1. CASE <<"find">> \in q.left /\ <<"drop">> \in q.left
    BY <2>1 DEF MadeContent
  <2>2. CASE <<"find">> \notin q.left /\ <<"drop">> \notin q.left /\ c = Blank
    <3>1. ASSUME NEW p \in Places
          PROVE  c.copies[p] + Cardinality(ItemsLeft(q, p)) = q.goal.copies[p]
      BY <1>2, <2>2, ItemsLeftFinite, BlankParts
    <3> QED BY <1>3, <2>2, <3>1, BlankParts DEF MadeContent
  <2> QED BY <2>1, <2>2
<1> QED BY <1>4, <1>5

LEMMA StartEffect ==
  ASSUME TypeOK, Effects, NEW r \in Requests, NEW q, Starts(r, q), course' = course,
         PlanAccess(q), MadeAccess(q, course), PlanContent(q), MadeContent(q, course)
  PROVE  Effects'
<1>1. EffectOf(q, course)
  BY DEF EffectOf, Plan, Made
<1>2. req'[r] = q /\ \A o \in Requests \ {r} : req'[o] = req[o]
  BY StartsMoves
<1> QED BY <1>1, <1>2 DEF Effects

LEMMA CallMembers ==
  ASSUME NEW body \in Body, NEW rules \in Access
  PROVE  /\ \A s \in Schools : <<"grant", s>> \in AccessCalls(rules) <=> s \in DOMAIN rules
         /\ <<"clear">> \in AccessCalls(rules)
         /\ \A d \in AccessCalls(rules) : d[1] \in {"clear", "grant"}
         /\ \A d \in ItemCalls(body) : d[1] = "item"
         /\ \A p \in Places, i \in Nat :
              <<"item", p, i>> \in ItemCalls(body) <=> i \in 1..body.copies[p]
         /\ \A d \in ContentCalls(body) : d[1] \in {"find", "upsert", "drop", "wipe", "item"}
         /\ <<"find">> \in ContentCalls(body) /\ <<"drop">> \in ContentCalls(body)
         /\ \A k \in ChapterIds :
              /\ <<"upsert", k>> \in ContentCalls(body) <=> k \in body.chapters
              /\ <<"wipe", k>> \in ContentCalls(body) <=> k \in body.chapters
         /\ \A p \in Places, i \in Nat :
              <<"item", p, i>> \in ContentCalls(body) <=> i \in 1..body.copies[p]
         /\ \A d \in SaveCalls : d[1] \notin Writing
<1>1. /\ \A s \in Schools : <<"grant", s>> \in AccessCalls(rules) <=> s \in DOMAIN rules
      /\ <<"clear">> \in AccessCalls(rules)
      /\ \A d \in AccessCalls(rules) : d[1] \in {"clear", "grant"}
  BY DEF AccessCalls
<1>2. /\ \A d \in ItemCalls(body) : d[1] = "item"
      /\ \A p \in Places, i \in Nat :
           <<"item", p, i>> \in ItemCalls(body) <=> i \in 1..body.copies[p]
  BY DEF ItemCalls
<1>3. /\ \A d \in ContentCalls(body) : d[1] \in {"find", "upsert", "drop", "wipe", "item"}
      /\ <<"find">> \in ContentCalls(body) /\ <<"drop">> \in ContentCalls(body)
      /\ \A k \in ChapterIds :
           /\ <<"upsert", k>> \in ContentCalls(body) <=> k \in body.chapters
           /\ <<"wipe", k>> \in ContentCalls(body) <=> k \in body.chapters
      /\ \A p \in Places, i \in Nat :
           <<"item", p, i>> \in ContentCalls(body) <=> i \in 1..body.copies[p]
  BY <1>2 DEF ContentCalls
<1>4. \A d \in SaveCalls : d[1] \notin Writing
  BY DEF SaveCalls, Writing
<1> QED BY <1>1, <1>2, <1>3, <1>4

LEMMA StartsEffect ==
  ASSUME TypeOK, Effects, NEW r \in Requests, StartStep(r)
  PROVE  Effects'
<1>0. /\ course \in Course /\ \A e \in Edits : e.body \in Body
      /\ \A rules \in Rules : rules \in Access
      /\ NoBody \in Body /\ <<>> \in Access
  BY VersionsOK, BlankType, NoRules DEF TypeOK
<1>1. ASSUME NEW e \in Edits, CreateStart(r, e)
      PROVE  Effects'
  <2> DEFINE b == e.body
             calls == ({"grant"} \X b.schools) \cup ({"upsert"} \X b.chapters)
                        \cup ItemCalls(b) \cup {<<"end">>}
             goal == Edited(Parts, b)
             q == Handler(calls, Product(b), b, goal)
  <2>1. Starts(r, q) /\ course' = course /\ course = Blank
    BY <1>1 DEF CreateStart, TypeOK
  <2>2. /\ b \in Body /\ Product(b) \in Access /\ DOMAIN Product(b) = b.schools
        /\ b.schools \in SUBSET Schools /\ b.chapters \in SUBSET ChapterIds
    BY <1>0, ProductType DEF Body
  <2>3. /\ \A s \in Schools : <<"grant", s>> \in calls <=> s \in b.schools
        /\ \A k \in ChapterIds : <<"upsert", k>> \in calls <=> k \in b.chapters
        /\ \A p \in Places, i \in Nat : <<"item", p, i>> \in calls <=> i \in 1..b.copies[p]
        /\ <<"find">> \notin calls /\ <<"drop">> \notin calls
        /\ \A k \in ChapterIds : <<"wipe", k>> \notin calls
    BY <2>2, CallMembers
  <2>4. /\ goal.access = Product(b) /\ goal.chapters = b.chapters
        /\ goal.copies = b.copies /\ goal \in Course
    BY <1>0, <2>2, EditedType DEF Edited, Parts
  <2>5. calls \subseteq Calls
    BY <2>2, CallTypes, ItemCallsType
  <2> HIDE DEF calls, goal
  <2>6. /\ q \in Handling /\ q.left = calls /\ q.rules = Product(b) /\ q.body = b
        /\ q.goal = goal
    BY <2>2, <2>4, <2>5, HandlerType DEF Handler
  <2> HIDE DEF q, b
  <2>7. PlanAccess(q) /\ MadeAccess(q, course)
    BY <1>0, <2>1, <2>2, <2>3, <2>4, <2>6, StartAccess, BlankParts
  <2>8. PlanContent(q) /\ MadeContent(q, course)
    BY <2>1, <2>2, <2>3, <2>4, <2>6, StartContent
  <2> QED BY <2>1, <2>7, <2>8, StartEffect
<1>2. ASSUME NEW e \in Edits, UpdateStart(r, e)
      PROVE  Effects'
  <2> DEFINE b == e.body
             A == IF "access" \in e.parts THEN AccessCalls(Product(b)) ELSE {}
             C == IF "content" \in e.parts THEN ContentCalls(b) ELSE {}
             calls == A \cup C \cup SaveCalls \cup {<<"end">>}
             goal == Edited(e.parts, b)
             q == Handler(calls, Product(b), b, goal)
  <2>1. Starts(r, q) /\ course' = course
    BY <1>2 DEF UpdateStart
  <2>2. b \in Body /\ Product(b) \in Access
    BY <1>0, ProductType
  <2>3. /\ "access" \in e.parts =>
             /\ <<"clear">> \in A
             /\ \A s \in Schools : <<"grant", s>> \in A <=> s \in DOMAIN Product(b)
        /\ "access" \notin e.parts => A = {}
        /\ \A d \in A : d[1] \in {"clear", "grant"}
    BY <2>2, CallMembers
  <2>4. /\ "content" \in e.parts =>
             /\ <<"find">> \in C /\ <<"drop">> \in C
             /\ \A k \in ChapterIds : <<"upsert", k>> \in C <=> k \in b.chapters
             /\ \A k \in ChapterIds : <<"wipe", k>> \in C <=> k \in b.chapters
             /\ \A p \in Places, i \in Nat : <<"item", p, i>> \in C <=> i \in 1..b.copies[p]
        /\ "content" \notin e.parts => C = {}
        /\ \A d \in C : d[1] \in {"find", "upsert", "drop", "wipe", "item"}
    BY <2>2, CallMembers
  <2>5. \A d \in SaveCalls \cup {<<"end">>} : d[1] \notin Writing
    BY <2>2, CallMembers DEF Writing
  <2>6. /\ goal.access = IF "access" \in e.parts THEN Product(b) ELSE course.access
        /\ goal.chapters = IF "content" \in e.parts THEN b.chapters ELSE course.chapters
        /\ goal.copies = IF "content" \in e.parts THEN b.copies ELSE course.copies
        /\ goal \in Course
    BY <1>0, <2>2, EditedType DEF Edited
  <2>7. calls \subseteq Calls
    BY <2>2, CallTypes
  <2> HIDE DEF A, C, goal
  <2>8. /\ q \in Handling /\ q.left = calls /\ q.rules = Product(b) /\ q.body = b
        /\ q.goal = goal
    BY <2>2, <2>6, <2>7, HandlerType DEF Handler
  <2> HIDE DEF q, b
  <2>9. \A d \in q.left : d \in A \/ d \in C \/ d[1] \notin Writing
    BY <2>5, <2>8
  <2>10. A \subseteq q.left /\ C \subseteq q.left
    BY <2>8
  <2> HIDE DEF calls
  <2>11. /\ \A d \in q.left : d[1] \in {"clear", "grant"} => d \in A
         /\ \A d \in q.left : d[1] \in {"find", "upsert", "drop", "wipe", "item"} => d \in C
    BY <2>3, <2>4, <2>9 DEF Writing
  <2>12. PlanAccess(q) /\ MadeAccess(q, course)
    <3>1. CASE "access" \in e.parts
      <4>1. /\ <<"clear">> \in q.left
            /\ \A s \in Schools : <<"grant", s>> \in q.left <=> s \in DOMAIN q.rules
        BY <2>3, <2>8, <2>10, <2>11, <3>1
      <4> QED BY <1>0, <2>6, <2>8, <3>1, <4>1, StartAccess
    <3>2. CASE "access" \notin e.parts
      <4>1. /\ <<"clear">> \notin q.left
            /\ \A s \in Schools : <<"grant", s>> \notin q.left
        BY <2>3, <2>11, <3>2
      <4> QED BY <1>0, <2>6, <2>8, <3>2, <4>1, StartAccess
    <3> QED BY <3>1, <3>2
  <2>13. PlanContent(q) /\ MadeContent(q, course)
    <3>1. CASE "content" \in e.parts
      <4>1. /\ <<"find">> \in q.left /\ <<"drop">> \in q.left
            /\ \A k \in ChapterIds : <<"upsert", k>> \in q.left <=> k \in b.chapters
            /\ \A k \in ChapterIds : <<"wipe", k>> \in q.left <=> k \in b.chapters
            /\ \A p \in Places, i \in Nat :
                 <<"item", p, i>> \in q.left <=> i \in 1..b.copies[p]
        BY <2>4, <2>10, <2>11, <3>1
      <4> QED BY <2>2, <2>6, <2>8, <3>1, <4>1, StartContent
    <3>2. CASE "content" \notin e.parts
      <4>1. /\ <<"find">> \notin q.left /\ <<"drop">> \notin q.left
            /\ \A k : <<"upsert", k>> \notin q.left /\ <<"wipe", k>> \notin q.left
            /\ \A p, i : <<"item", p, i>> \notin q.left
        BY <2>4, <2>11, <3>2
      <4>2. \A k : <<"upsert", k>> \in q.left <=> k \in {}
        BY <4>1
      <4>3. Brings(q, course, {})
        BY <2>6, <2>8, <3>2, <4>1, <4>2 DEF Brings
      <4> QED BY <1>0, <2>6, <2>8, <4>3, StartNoContent
    <3> QED BY <3>1, <3>2
  <2> QED BY <2>1, <2>12, <2>13, StartEffect
<1>3. ASSUME NEW v \in DOMAIN versions, RevertStart(r, v)
      PROVE  Effects'
  <2> DEFINE b == versions[v].snap
             calls == AccessCalls(Product(b)) \cup ContentCalls(b) \cup {<<"end">>}
             goal == Edited(Parts, b)
             q == Handler(calls, Product(b), b, goal)
  <2>1. Starts(r, q) /\ course' = course
    BY <1>3 DEF RevertStart
  <2>2. b \in Body /\ Product(b) \in Access
    <3>1. versions[v] \in Version
      BY DEF TypeOK
    <3> QED BY <3>1, ProductType DEF Version
  <2> HIDE DEF b
  <2>10. /\ <<"clear">> \in AccessCalls(Product(b))
         /\ \A s \in Schools :
              <<"grant", s>> \in AccessCalls(Product(b)) <=> s \in DOMAIN Product(b)
         /\ \A d \in AccessCalls(Product(b)) : d[1] \in {"clear", "grant"}
    BY <2>2, CallMembers
  <2>11. /\ \A d \in ContentCalls(b) : d[1] \in {"find", "upsert", "drop", "wipe", "item"}
         /\ <<"find">> \in ContentCalls(b) /\ <<"drop">> \in ContentCalls(b)
         /\ \A k \in ChapterIds : <<"upsert", k>> \in ContentCalls(b) <=> k \in b.chapters
         /\ \A k \in ChapterIds : <<"wipe", k>> \in ContentCalls(b) <=> k \in b.chapters
         /\ \A p \in Places, i \in Nat :
              <<"item", p, i>> \in ContentCalls(b) <=> i \in 1..b.copies[p]
    BY <2>2, CallMembers
  <2>3. /\ <<"clear">> \in calls
        /\ \A s \in Schools : <<"grant", s>> \in calls <=> s \in DOMAIN Product(b)
        /\ <<"find">> \in calls /\ <<"drop">> \in calls
        /\ \A k \in ChapterIds : <<"upsert", k>> \in calls <=> k \in b.chapters
        /\ \A k \in ChapterIds : <<"wipe", k>> \in calls <=> k \in b.chapters
        /\ \A p \in Places, i \in Nat : <<"item", p, i>> \in calls <=> i \in 1..b.copies[p]
    BY ONLY <2>10, <2>11
  <2>4. /\ goal.access = Product(b) /\ goal.chapters = b.chapters
        /\ goal.copies = b.copies /\ goal \in Course
    BY <1>0, <2>2, EditedType DEF Edited, Parts
  <2>5. calls \subseteq Calls
    BY <2>2, CallTypes
  <2> HIDE DEF calls, goal
  <2>6. /\ q \in Handling /\ q.left = calls /\ q.rules = Product(b) /\ q.body = b
        /\ q.goal = goal
    BY <2>2, <2>4, <2>5, HandlerType DEF Handler
  <2> HIDE DEF q
  <2>7. PlanAccess(q) /\ MadeAccess(q, course)
    BY <1>0, <2>3, <2>4, <2>6, StartAccess
  <2>8. PlanContent(q) /\ MadeContent(q, course)
    BY <2>2, <2>3, <2>4, <2>6, StartContent
  <2> QED BY <2>1, <2>7, <2>8, StartEffect
<1>4. ASSUME NEW rules \in Rules, AccessStart(r, rules)
      PROVE  Effects'
  <2> DEFINE calls == AccessCalls(rules) \cup {<<"end">>}
             goal == [course EXCEPT !.access = rules]
             q == Handler(calls, rules, NoBody, goal)
  <2>1. Starts(r, q) /\ course' = course
    BY <1>4 DEF AccessStart
  <2>2. /\ goal \in Course /\ goal.access = rules /\ goal.chapters = course.chapters
        /\ goal.copies = course.copies
    BY <1>0, CourseParts DEF Course
  <2>3. /\ <<"clear">> \in calls
        /\ \A s \in Schools : <<"grant", s>> \in calls <=> s \in DOMAIN rules
        /\ \A d \in calls : d[1] \in {"clear", "grant", "end"}
    BY <1>0, CallMembers
  <2> HIDE DEF calls, goal
  <2>4. q.left = calls /\ q.rules = rules /\ q.goal = goal
    BY DEF Handler
  <2> HIDE DEF q
  <2>5. PlanAccess(q) /\ MadeAccess(q, course)
    BY <1>0, <2>2, <2>3, <2>4, StartAccess
  <2>6. /\ <<"find">> \notin q.left /\ <<"drop">> \notin q.left
        /\ \A k : <<"wipe", k>> \notin q.left
        /\ \A k : <<"upsert", k>> \in q.left <=> k \in {}
        /\ \A p, i : <<"item", p, i>> \notin q.left
    BY <2>3, <2>4
  <2>7. PlanContent(q) /\ MadeContent(q, course)
    <3>1. Brings(q, course, {})
      BY <2>2, <2>4, <2>6 DEF Brings
    <3> QED BY <1>0, <2>2, <2>4, <3>1, StartNoContent
  <2> QED BY <2>1, <2>5, <2>7, StartEffect
<1>5. ASSUME NEW c \in ChapterIds, AddStart(r, c)
      PROVE  Effects'
  <2> DEFINE goal == [course EXCEPT !.chapters = course.chapters \cup {c}]
             q == Handler({<<"upsert", c>>}, <<>>, NoBody, goal)
  <2>1. Starts(r, q) /\ course' = course /\ c \notin course.chapters
    BY <1>5 DEF AddStart, Unnamed
  <2>2. /\ goal \in Course /\ goal.access = course.access
        /\ goal.chapters = course.chapters \cup {c} /\ goal.copies = course.copies
    BY <1>0 DEF Course
  <2> HIDE DEF goal
  <2>3. q.left = {<<"upsert", c>>} /\ q.goal = goal
    BY DEF Handler
  <2> HIDE DEF q
  <2>4. PlanAccess(q) /\ MadeAccess(q, course)
    <3>1. <<"clear">> \notin q.left /\ \A s \in Schools : <<"grant", s>> \notin q.left
      BY <2>3
    <3> QED BY <1>0, <2>2, <2>3, <3>1, StartAccess
  <2>5. /\ <<"find">> \notin q.left /\ <<"drop">> \notin q.left
        /\ \A k : <<"wipe", k>> \notin q.left
        /\ \A k : <<"upsert", k>> \in q.left <=> k \in {c}
        /\ \A p, i : <<"item", p, i>> \notin q.left
    BY <2>3
  <2>6. PlanContent(q) /\ MadeContent(q, course)
    <3>1. Brings(q, course, {c})
      BY <2>1, <2>2, <2>3, <2>5 DEF Brings
    <3> QED BY <1>0, <2>2, <2>3, <3>1, StartNoContent
  <2> QED BY <2>1, <2>4, <2>6, StartEffect
<1>6. ASSUME PublishStart(r)
      PROVE  Effects'
  <2> DEFINE q == Handler(SaveCalls, <<>>, NoBody, course)
  <2>1. Starts(r, q) /\ course' = course
    BY <1>6 DEF PublishStart
  <2>2. q.left = SaveCalls /\ q.goal = course
    BY DEF Handler
  <2> HIDE DEF q
  <2>3. \A d \in q.left : d[1] \notin Writing
    BY <1>0, <2>2, CallMembers
  <2>4. /\ <<"clear">> \notin q.left /\ \A s : <<"grant", s>> \notin q.left
        /\ <<"find">> \notin q.left /\ <<"drop">> \notin q.left
        /\ \A k : <<"wipe", k>> \notin q.left
        /\ \A k : <<"upsert", k>> \in q.left <=> k \in {}
        /\ \A p, i : <<"item", p, i>> \notin q.left
    BY <2>3 DEF Writing
  <2>5. PlanAccess(q) /\ MadeAccess(q, course)
    BY <1>0, <2>2, <2>4, StartAccess
  <2>6. PlanContent(q) /\ MadeContent(q, course)
    <3>1. Brings(q, course, {})
      BY <2>2, <2>4 DEF Brings
    <3> QED BY <1>0, <2>2, <3>1, StartNoContent
  <2> QED BY <2>1, <2>5, <2>6, StartEffect
<1> QED BY <1>1, <1>2, <1>3, <1>4, <1>5, <1>6 DEF StartStep

LEMMA DeleteEffect ==
  ASSUME TypeOK, Effects, Delete
  PROVE  Effects'
<1> SUFFICES ASSUME NEW r \in Requests, req'[r] # Idle
             PROVE  EffectOf(req'[r], course')
  BY DEF Effects
<1>1. req[r] # Idle /\ req'[r] = [req[r] EXCEPT !.alone = FALSE]
  BY DEF Delete, TypeOK
<1>2. req[r] \in Handling /\ EffectOf(req[r], course)
  BY <1>1, AtWork DEF Effects
<1>3. /\ req'[r].left = req[r].left /\ req'[r].rules = req[r].rules
      /\ req'[r].body = req[r].body /\ req'[r].known = req[r].known
      /\ req'[r].goal = req[r].goal /\ ~req'[r].alone
  BY <1>1, <1>2 DEF Handling
<1>4. EffectOf(req'[r], course)
  BY <1>2, <1>3, EffectSame
<1> QED BY <1>3, <1>4 DEF EffectOf

\* What a read leaves of the handler.
LEMMA ReadParts ==
  ASSUME TypeOK, NEW r \in Requests, req[r] # Idle
  PROVE  LET p == req[r]
             a == [p EXCEPT !.snap.chapters = course.chapters]
             n == Without(ChapterIds \ p.snap.chapters, course.copies)
             b == [p EXCEPT !.snap.copies = n]
             c == [p EXCEPT !.snap.schools = DOMAIN course.access,
                            !.snap.grades = GradesOf(course.access)]
         IN /\ a \in Handling /\ b \in Handling /\ c \in Handling
            /\ Alike(p, a) /\ Alike(p, b) /\ Alike(p, c)
            /\ a.known = p.known /\ b.known = p.known /\ c.known = p.known
            /\ a.snap.chapters = course.chapters /\ a.snap.copies = p.snap.copies
            /\ a.snap.schools = p.snap.schools /\ a.snap.grades = p.snap.grades
            /\ b.snap.chapters = p.snap.chapters /\ b.snap.copies = n
            /\ b.snap.schools = p.snap.schools /\ b.snap.grades = p.snap.grades
            /\ c.snap.chapters = p.snap.chapters /\ c.snap.copies = p.snap.copies
            /\ c.snap.schools = DOMAIN course.access
            /\ c.snap.grades = GradesOf(course.access)
<1> DEFINE p == req[r]
           schools == DOMAIN course.access
           grades == GradesOf(course.access)
           n == Without(ChapterIds \ p.snap.chapters, course.copies)
           chapters == course.chapters
           a == [p EXCEPT !.snap.chapters = chapters]
           b == [p EXCEPT !.snap.copies = n]
           c == [p EXCEPT !.snap.schools = schools, !.snap.grades = grades]
<1>1. course \in Course /\ p \in Handling
  BY AtWork DEF TypeOK
<1>2. /\ schools \in SUBSET Schools /\ grades \in SUBSET Grades
      /\ chapters \in SUBSET ChapterIds
  BY <1>1, CourseParts, AccessType, GradesType
<1>3. n \in [Places -> Nat]
  <2>1. course.copies \in [Places -> Nat]
    BY <1>1, CourseParts
  <2> QED BY <2>1, WithoutType
<1> HIDE DEF schools, grades, n, chapters, p
<1>4. /\ a \in Handling /\ a.known = p.known /\ a.left = p.left /\ a.rules = p.rules
      /\ a.body = p.body /\ a.goal = p.goal /\ a.alone = p.alone
      /\ a.snap.chapters = chapters /\ a.snap.copies = p.snap.copies
      /\ a.snap.schools = p.snap.schools /\ a.snap.grades = p.snap.grades
  BY <1>1, <1>2 DEF Handling, Body
<1>5. /\ b \in Handling /\ b.known = p.known /\ b.left = p.left /\ b.rules = p.rules
      /\ b.body = p.body /\ b.goal = p.goal /\ b.alone = p.alone
      /\ b.snap.chapters = p.snap.chapters /\ b.snap.copies = n
      /\ b.snap.schools = p.snap.schools /\ b.snap.grades = p.snap.grades
  BY <1>1, <1>3 DEF Handling, Body
<1>6. /\ c \in Handling /\ c.known = p.known /\ c.left = p.left /\ c.rules = p.rules
      /\ c.body = p.body /\ c.goal = p.goal /\ c.alone = p.alone
      /\ c.snap.chapters = p.snap.chapters /\ c.snap.copies = p.snap.copies
      /\ c.snap.schools = schools /\ c.snap.grades = grades
  BY <1>1, <1>2 DEF Handling, Body
<1> QED BY ONLY <1>4, <1>5, <1>6 DEF p, schools, grades, n, chapters, Alike

LEMMA EffectsStep ==
  ASSUME Inv, TypeOK, TypeOK', Effects, [Next]_vars
  PROVE  Effects'
<1>1. ASSUME NEW r \in Requests, EditStep(r) PROVE Effects'
  BY <1>1, ClearEffect, GrantEffect, FindEffect, UpsertEffect, DropEffect, WipeEffect,
     CreateEffect DEF EditStep
<1>2. ASSUME NEW r \in Requests, StartStep(r) PROVE Effects'
  BY <1>2, StartsEffect
<1>3. ASSUME NEW r \in Requests, SaveStep(r) \/ End(r) PROVE Effects'
  <2>0. /\ req[r] # Idle /\ req[r] \in Handling /\ course' = course
    BY <1>3, CallAtWork DEF SaveStep, ReadChapters, ReadContents, ReadAccess, ReadNumber,
                            Insert, End
  <2>9. \A call \in {<<"chapters">>, <<"contents">>, <<"access">>, <<"number">>,
                     <<"insert">>, <<"end">>} : call[1] \notin Writing
    BY DEF Writing
  <2>1. ASSUME NEW call \in {<<"chapters">>, <<"contents">>, <<"access">>, <<"number">>,
                             <<"insert">>, <<"end">>},
               At(r, call), NEW q \in Handling, Goes(r, call, q, FALSE) \/ Refused(r),
               Alike(req[r], q), q.known = req[r].known
        PROVE  Effects'
    <3>1. CASE Goes(r, call, q, FALSE)
      BY <2>0, <2>1, <2>9, <3>1, ReadEffect
    <3>2. CASE Refused(r)
      BY <2>0, <3>2, RefusedEffect
    <3> QED BY <2>1, <3>1, <3>2
  <2>2. CASE ReadChapters(r)
    BY <2>0, <2>1, <2>2, ReadParts DEF ReadChapters
  <2>3. CASE ReadContents(r)
    BY <2>0, <2>1, <2>3, ReadParts DEF ReadContents
  <2>4. CASE ReadAccess(r)
    BY <2>0, <2>1, <2>4, ReadParts DEF ReadAccess
  <2>5. CASE ReadNumber(r)
    <3> DEFINE n == Highest + 1
               q == [req[r] EXCEPT !.number = n]
    <3>1. n \in Nat
      BY HighestType
    <3>2. At(r, <<"number">>) /\ Goes(r, <<"number">>, q, FALSE)
      BY <2>5 DEF ReadNumber
    <3> HIDE DEF n
    <3>3. q \in Handling /\ Alike(req[r], q) /\ q.known = req[r].known
      BY <2>0, <3>1 DEF Handling, Alike
    <3> QED BY <2>1, <3>2, <3>3
  <2>6. CASE Insert(r) \/ End(r)
    <3>1. Alike(req[r], req[r])
      BY DEF Alike
    <3> QED BY <2>0, <2>1, <2>6, <3>1 DEF Insert, End
  <2> QED BY <1>3, <2>2, <2>3, <2>4, <2>5, <2>6 DEF SaveStep
<1>4. ASSUME NEW r \in Requests, Fail(r) PROVE Effects'
  BY <1>4, RefusedEffect DEF Fail
<1>5. CASE Delete
  BY <1>5, DeleteEffect
<1>6. CASE UNCHANGED vars
  BY <1>6 DEF vars, Effects
<1> QED BY <1>1, <1>2, <1>3, <1>4, <1>5, <1>6 DEF Next

-----------------------------------------------------------------------------
\* What a handler that nobody disturbed has read for its version.
Snapped(q) ==
    q.alone /\ <<"insert">> \in q.left =>
        /\ <<"chapters">> \notin q.left => q.snap.chapters = q.goal.chapters
        /\ <<"contents">> \notin q.left => q.snap.copies = q.goal.copies
        /\ <<"access">> \notin q.left =>
             /\ q.snap.schools = DOMAIN q.goal.access
             /\ q.snap.grades = GradesOf(q.goal.access)

Snaps == \A r \in Requests : req[r] # Idle => Snapped(req[r])

\* The other handlers, as one of them makes a call.
LEMMA OthersSnapped ==
  ASSUME TypeOK, Snaps, NEW r \in Requests, req[r] # Idle, NEW call,
         NEW q \in Handling, NEW w \in BOOLEAN, Goes(r, call, q, w) \/ Refused(r),
         \/ /\ q.left = req[r].left /\ q.snap = req[r].snap /\ q.goal = req[r].goal
            /\ q.alone = req[r].alone
            /\ call \notin {<<"chapters">>, <<"contents">>, <<"access">>}
         \/ req'[r] # Idle => Snapped(req'[r])
  PROVE  Snaps'
<1>1. CASE Refused(r)
  BY <1>1, RefusedMoves DEF Snaps
<1>2. CASE Goes(r, call, q, w)
  <2>0. Goes(r, call, q, TRUE) \/ Goes(r, call, q, FALSE)
    BY <1>2, Zenon
  <2>1. Moved(r, call, q)
    BY ONLY <2>0, TypeOK, r \in Requests, req[r] # Idle, q \in Handling, GoesOn, ZenonT(60)
  <2>2. ASSUME NEW o \in Requests \ {r}, req'[o] # Idle
        PROVE  Snapped(req'[o])
    BY <2>1, <2>2 DEF Moved, Same, Snaps, Snapped
  <2>3. ASSUME req'[r] # Idle,
               /\ q.left = req[r].left /\ q.snap = req[r].snap /\ q.goal = req[r].goal
               /\ q.alone = req[r].alone
               /\ call \notin {<<"chapters">>, <<"contents">>, <<"access">>}
        PROVE  Snapped(req'[r])
    BY <2>1, <2>3, ZenonT(60) DEF Moved, Snaps, Snapped
  <2>4. req'[r] # Idle => Snapped(req'[r])
    BY <2>3
  <2> QED BY <2>2, <2>4 DEF Snaps
<1> QED BY <1>1, <1>2

LEMMA ReadWhole ==
  ASSUME TypeOK, Effects, NEW r \in Requests, NEW call, At(r, call), req[r].alone,
         call \in {<<"chapters">>, <<"contents">>, <<"access">>}
  PROVE  course = req[r].goal
<1>1. req[r] # Idle /\ req[r] \in Handling /\ course \in Course
  BY CallAtWork DEF TypeOK
<1>2. \A d \in req[r].left : d[1] \notin Writing
  <2>1. Rank[call[1]] \in {8, 9, 10}
    BY PhaseOrder
  <2>2. \A p \in Writing : Rank[p] \in 1..7
    BY PhaseOrder DEF Writing
  <2> QED BY <2>1, <2>2 DEF At
<1>3. Made(req[r], course)
  BY <1>1 DEF Effects, EffectOf
<1> QED BY <1>1, <1>2, <1>3, MadeWhole

LEMMA ReadSnapped ==
  ASSUME Inv, Effects, Snaps, NEW r \in Requests,
         ReadChapters(r) \/ ReadContents(r) \/ ReadAccess(r)
  PROVE  Snaps'
<1> DEFINE p == req[r]
<1>0. /\ TypeOK /\ p # Idle /\ p \in Handling
      /\ course.access \in Access /\ course.copies \in [Places -> Nat]
      /\ \A x \in Places : course.copies[x] > 0 => x[1] \in course.chapters
  BY CallAtWork, CourseParts DEF Inv, TypeOK, ReadChapters, ReadContents, ReadAccess
<1>1. ASSUME NEW call \in {<<"chapters">>, <<"contents">>, <<"access">>}, At(r, call),
             NEW q \in Handling, Goes(r, call, q, FALSE) \/ Refused(r), Alike(p, q),
             p.alone /\ course = p.goal /\ <<"insert">> \in p.left
               => \A m \in Handling :
                    m.left = p.left \ {call} /\ m.snap = q.snap /\ m.goal = p.goal
                      => Snapped(m)
      PROVE  Snaps'
  <2>1. CASE Goes(r, call, q, FALSE)
    <3>1. ASSUME req'[r] # Idle
          PROVE  Snapped(req'[r])
      <4>1. /\ req'[r].left = p.left \ {call} /\ req'[r].snap = q.snap
            /\ req'[r].goal = p.goal /\ req'[r].alone = p.alone
        <5>1. /\ q \in Handling /\ q.left = p.left
              /\ q.goal = p.goal /\ q.alone = p.alone
          BY <1>1 DEF Alike
        <5>2. Moved(r, call, q)
          BY ONLY <1>0, <2>1, <5>1, r \in Requests, GoesOn
        <5> QED BY <3>1, <5>1, <5>2 DEF Moved
      <4>2. req'[r] \in Handling
        <5>1. /\ Goes(r, call, q, FALSE) /\ q.left = p.left /\ q.rules = p.rules
              /\ GrantsRuled
          BY <1>1, <2>1 DEF Alike, Inv
        <5>2. req' \in [Requests -> Request]
          BY <1>0, <5>1, GoesType
        <5> QED BY <3>1, <5>2, RequestKinds
      <4>3. CASE p.alone /\ <<"insert">> \in p.left
        BY <1>0, <1>1, <4>1, <4>2, <4>3, ReadWhole
      <4>4. CASE ~(p.alone /\ <<"insert">> \in p.left)
        BY <4>1, <4>4 DEF Snapped
      <4> QED BY <4>3, <4>4
    <3> QED BY <1>0, <1>1, <2>1, <3>1, OthersSnapped
  <2>2. CASE Refused(r)
    BY <1>0, <2>2, RefusedMoves DEF Snaps
  <2> QED BY <1>1, <2>1, <2>2
<1>2. Snapped(p)
  BY <1>0 DEF Snaps
<1>3. CASE ReadChapters(r)
  <2> DEFINE q == [p EXCEPT !.snap.chapters = course.chapters]
  <2>1. At(r, <<"chapters">>) /\ (Goes(r, <<"chapters">>, q, FALSE) \/ Refused(r))
    BY <1>3 DEF ReadChapters
  <2>2. /\ q \in Handling /\ Alike(p, q) /\ q.snap.chapters = course.chapters
        /\ q.snap.copies = p.snap.copies /\ q.snap.schools = p.snap.schools
        /\ q.snap.grades = p.snap.grades
    BY <1>0, ReadParts
  <2> HIDE DEF q
  <2>3. ASSUME p.alone, course = p.goal, <<"insert">> \in p.left,
               NEW m \in Handling,
               m.left = p.left \ {<<"chapters">>}, m.snap = q.snap, m.goal = p.goal
        PROVE  Snapped(m)
    BY <1>2, <2>2, <2>3 DEF Snapped
  <2> QED BY <1>1, <2>1, <2>2, <2>3
<1>4. CASE ReadContents(r)
  <2> DEFINE n == Without(ChapterIds \ p.snap.chapters, course.copies)
             q == [p EXCEPT !.snap.copies = n]
  <2>1. At(r, <<"contents">>) /\ Goes(r, <<"contents">>, q, FALSE)
    BY <1>4 DEF ReadContents
  <2>2. /\ q \in Handling /\ Alike(p, q) /\ q.snap.chapters = p.snap.chapters
        /\ q.snap.copies = n /\ q.snap.schools = p.snap.schools
        /\ q.snap.grades = p.snap.grades
    BY <1>0, ReadParts
  <2>3. ASSUME p.alone, course = p.goal, <<"insert">> \in p.left
        PROVE  n = p.goal.copies
    <3>1. p.snap.chapters = course.chapters
      <4>1. <<"chapters">> \notin p.left
        BY <2>1, PhaseOrder DEF At
      <4> QED BY <1>2, <2>3, <4>1 DEF Snapped
    <3>2. ASSUME NEW x \in Places
          PROVE  n[x] = course.copies[x]
      <4>1. n[x] = IF x[1] \in ChapterIds \ p.snap.chapters THEN 0 ELSE course.copies[x]
        BY <1>0, WithoutType
      <4>2. x[1] \in ChapterIds /\ course.copies[x] \in Nat
        BY <1>0 DEF Places
      <4>3. x[1] \notin course.chapters => course.copies[x] = 0
        BY <1>0, <4>2
      <4> HIDE DEF n
      <4> QED BY <3>1, <4>1, <4>2, <4>3
    <3>3. n \in [Places -> Nat]
      BY <1>0, WithoutType
    <3> QED BY <1>0, <2>3, <3>2, <3>3, SMTT(60)
  <2> HIDE DEF q, n
  <2>4. ASSUME p.alone, course = p.goal, <<"insert">> \in p.left,
               NEW m \in Handling,
               m.left = p.left \ {<<"contents">>}, m.snap = q.snap, m.goal = p.goal
        PROVE  Snapped(m)
    BY <1>2, <2>2, <2>3, <2>4 DEF Snapped
  <2> QED BY <1>1, <2>1, <2>2, <2>4
<1>5. CASE ReadAccess(r)
  <2> DEFINE q == [p EXCEPT !.snap.schools = DOMAIN course.access,
                            !.snap.grades = GradesOf(course.access)]
  <2>1. At(r, <<"access">>) /\ Goes(r, <<"access">>, q, FALSE)
    BY <1>5 DEF ReadAccess
  <2>2. /\ q \in Handling /\ Alike(p, q) /\ q.snap.chapters = p.snap.chapters
        /\ q.snap.copies = p.snap.copies /\ q.snap.schools = DOMAIN course.access
        /\ q.snap.grades = GradesOf(course.access)
    BY <1>0, ReadParts
  <2> HIDE DEF q
  <2>3. ASSUME p.alone, course = p.goal, <<"insert">> \in p.left,
               NEW m \in Handling,
               m.left = p.left \ {<<"access">>}, m.snap = q.snap, m.goal = p.goal
        PROVE  Snapped(m)
    BY <1>2, <2>2, <2>3 DEF Snapped
  <2> QED BY <1>1, <2>1, <2>2, <2>3
<1> QED BY <1>3, <1>4, <1>5

LEMMA SnapsStep ==
  ASSUME Inv, Effects, Snaps, [Next]_vars
  PROVE  Snaps'
<1>0. TypeOK
  BY DEF Inv
<1>1. ASSUME NEW r \in Requests, StartStep(r) PROVE Snaps'
  <2>1. PICK q : Starts(r, q) /\ (<<"insert">> \in q.left => SaveCalls \subseteq q.left)
    BY <1>1, StartsRead
  <2>2. Snapped(q)
    BY <2>1 DEF Snapped, SaveCalls
  <2>3. req'[r] = q /\ \A o \in Requests \ {r} : req'[o] = req[o]
    BY <1>0, <2>1, StartsMoves
  <2> QED BY <2>2, <2>3 DEF Snaps
<1>2. ASSUME NEW r \in Requests, EditStep(r) \/ End(r) PROVE Snaps'
  <2>1. PICK call \in Calls, q \in Handling, w \in BOOLEAN : EditCall(r, call, q, w)
    BY <1>0, <1>2, EditCalls
  <2>2. call \notin {<<"chapters">>, <<"contents">>, <<"access">>}
    BY <2>1 DEF EditCall, Writing
  <2> QED BY <1>0, <2>1, <2>2, OthersSnapped DEF EditCall, Alike
<1>3. ASSUME NEW r \in Requests, ReadChapters(r) \/ ReadContents(r) \/ ReadAccess(r)
      PROVE  Snaps'
  BY <1>3, ReadSnapped
<1>4. ASSUME NEW r \in Requests, ReadNumber(r) PROVE Snaps'
  <2> DEFINE n == Highest + 1
             q == [req[r] EXCEPT !.number = n]
  <2>1. n \in Nat
    BY HighestType
  <2>2. /\ req[r] # Idle /\ req[r] \in Handling /\ Goes(r, <<"number">>, q, FALSE)
    BY <1>0, <1>4, CallAtWork DEF ReadNumber
  <2> HIDE DEF n
  <2>3. /\ q \in Handling /\ q.left = req[r].left /\ q.snap = req[r].snap
        /\ q.goal = req[r].goal /\ q.alone = req[r].alone
    BY <2>1, <2>2 DEF Handling
  <2>4. <<"number">> \notin {<<"chapters">>, <<"contents">>, <<"access">>}
    OBVIOUS
  <2> HIDE DEF q
  <2> QED BY <1>0, <2>2, <2>3, <2>4, OthersSnapped
<1>5. ASSUME NEW r \in Requests, Insert(r) PROVE Snaps'
  <2>1. /\ req[r] # Idle /\ req[r] \in Handling
        /\ Goes(r, <<"insert">>, req[r], FALSE) \/ Refused(r)
    BY <1>0, <1>5, CallAtWork DEF Insert
  <2>2. <<"insert">> \notin {<<"chapters">>, <<"contents">>, <<"access">>}
    OBVIOUS
  <2> QED BY <1>0, <2>1, <2>2, OthersSnapped
<1>6. ASSUME NEW r \in Requests, Fail(r) PROVE Snaps'
  BY <1>0, <1>6, RefusedMoves DEF Fail, Snaps
<1>7. CASE Delete
  <2> SUFFICES ASSUME NEW r \in Requests, req'[r] # Idle
               PROVE  Snapped(req'[r])
    BY DEF Snaps
  <2>1. req[r] # Idle /\ req'[r] = [req[r] EXCEPT !.alone = FALSE]
    BY <1>0, <1>7 DEF Delete, TypeOK
  <2>2. req[r] \in Handling
    BY <1>0, <2>1, AtWork
  <2>3. ~req'[r].alone
    BY <2>1, <2>2 DEF Handling
  <2> QED BY <2>3 DEF Snapped
<1>8. CASE UNCHANGED vars
  BY <1>8 DEF vars, Snaps
<1> QED BY <1>1, <1>2, <1>3, <1>4, <1>5, <1>6, <1>7, <1>8 DEF Next, SaveStep

\* A row is stored with what its handler has read.
LEMMA RowsStep ==
  ASSUME Inv, Snaps, VersionsRecordEdits, [Next]_vars
  PROVE  VersionsRecordEdits'
<1>0. TypeOK /\ versions \in Seq(Version)
  BY DEF Inv, TypeOK
<1>1. CASE versions' = versions
  BY <1>1 DEF VersionsRecordEdits
<1>2. CASE versions' = <<>>
  BY <1>2 DEF VersionsRecordEdits
<1>3. ASSUME NEW r \in Requests, Insert(r), versions' = Append(versions, Row(r))
      PROVE  VersionsRecordEdits'
  <2> DEFINE p == req[r]
  <2>1. /\ p # Idle /\ p \in Handling /\ <<"insert">> \in p.left
        /\ At(r, <<"insert">>)
    BY <1>0, <1>3, CallAtWork DEF Insert
  <2>2. /\ <<"chapters">> \notin p.left /\ <<"contents">> \notin p.left
        /\ <<"access">> \notin p.left
    BY <2>1, PhaseOrder DEF At
  <2>3. ASSUME p.alone
        PROVE  p.snap = [schools  |-> DOMAIN p.goal.access,
                         grades   |-> GradesOf(p.goal.access),
                         chapters |-> p.goal.chapters,
                         copies   |-> p.goal.copies]
    <3>1. /\ p.snap.chapters = p.goal.chapters /\ p.snap.copies = p.goal.copies
          /\ p.snap.schools = DOMAIN p.goal.access
          /\ p.snap.grades = GradesOf(p.goal.access)
      BY <2>1, <2>2, <2>3 DEF Snaps, Snapped
    <3>2. p.snap = [schools |-> p.snap.schools, grades |-> p.snap.grades,
                    chapters |-> p.snap.chapters, copies |-> p.snap.copies]
      BY <2>1 DEF Handling, Body
    <3> QED BY ONLY <3>1, <3>2
  <2>4. /\ Row(r).snap = p.snap /\ Row(r).goal = p.goal /\ Row(r).alone = p.alone
    BY DEF Row
  <2>5. Row(r) \in Version
    BY <2>1 DEF Row, Version, Handling
  <2>6. \A i \in DOMAIN versions' :
           (i \in DOMAIN versions /\ versions'[i] = versions[i]) \/ versions'[i] = Row(r)
    BY <1>0, <1>3, <2>5
  <2> QED BY <2>3, <2>4, <2>6 DEF VersionsRecordEdits
<1>4. \/ versions' = versions \/ versions' = <<>>
      \/ \E r \in Requests : Insert(r) /\ versions' = Append(versions, Row(r))
  <2>1. ASSUME NEW r \in Requests, StartStep(r) PROVE versions' = versions
    BY <2>1, StartsRead
  <2>2. ASSUME NEW r \in Requests, EditStep(r) \/ End(r) PROVE versions' = versions
    BY <1>0, <2>2, EditCalls DEF EditCall
  <2>3. ASSUME NEW r \in Requests, SaveStep(r) \/ Fail(r), ~Insert(r)
        PROVE  versions' = versions
    BY <2>3 DEF SaveStep, Fail, ReadChapters, ReadContents, ReadAccess, ReadNumber
  <2>4. ASSUME NEW r \in Requests, Insert(r)
        PROVE  versions' = versions \/ versions' = Append(versions, Row(r))
    BY <2>4 DEF Insert
  <2>5. CASE Delete
    BY <2>5 DEF Delete
  <2>6. CASE UNCHANGED vars
    BY <2>6 DEF vars
  <2> QED BY <2>1, <2>2, <2>3, <2>4, <2>5, <2>6 DEF Next
<1> QED BY <1>1, <1>2, <1>3, <1>4

EditsInv == NumbersInv /\ Effects /\ Snaps /\ VersionsRecordEdits

LEMMA EditsInvariant == Spec => []EditsInv
<1>1. Init => Effects /\ Snaps /\ VersionsRecordEdits
  BY DEF Init, Effects, Snaps, VersionsRecordEdits
<1>2. EditsInv /\ NumbersInv' /\ [Next]_vars => EditsInv'
  <2> SUFFICES ASSUME EditsInv, NumbersInv', [Next]_vars PROVE EditsInv'
    OBVIOUS
  <2>1. Inv /\ TypeOK /\ TypeOK' /\ Effects /\ Snaps /\ VersionsRecordEdits
    BY DEF EditsInv, NumbersInv, Inv
  <2>2. Effects'
    BY <2>1, EffectsStep
  <2>3. Snaps'
    BY <2>1, SnapsStep
  <2>4. VersionsRecordEdits'
    BY <2>1, RowsStep
  <2> QED BY <2>2, <2>3, <2>4 DEF EditsInv
<1>3. Init /\ NumbersInv => EditsInv
  BY <1>1 DEF EditsInv
<1> QED BY <1>2, <1>3, NumbersInvariant, PTL DEF Spec

\* An edit or a revert that no other handler's write overlapped leaves what it
\* was asked for, whatever the course was before.
THEOREM EditsDoTakeEffect == Spec => []EditsTakeEffect
<1>1. EditsInv => EditsTakeEffect
  <2> SUFFICES ASSUME EditsInv, NEW r \in Requests, req[r] # Idle, req[r].alone, Written(r)
               PROVE  course = req[r].goal
    BY DEF EditsTakeEffect
  <2>1. req[r] \in Handling /\ course \in Course
    BY AtWork DEF EditsInv, NumbersInv, Inv, TypeOK
  <2>2. Made(req[r], course)
    BY DEF EditsInv, Effects, EffectOf
  <2> QED BY <2>1, <2>2, MadeWhole DEF Written
<1> QED BY <1>1, EditsInvariant, PTL

\* A version stored by a handler that nobody disturbed holds the course the
\* handler was asked for.
THEOREM VersionsDoRecordEdits == Spec => []VersionsRecordEdits
<1>1. EditsInv => VersionsRecordEdits
  BY DEF EditsInv
<1> QED BY <1>1, EditsInvariant, PTL
=============================================================================
