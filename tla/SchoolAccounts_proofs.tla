----------------------- MODULE SchoolAccounts_proofs -----------------------
(***************************************************************************)
(* Schools, their accounts and their joining codes, proved for any number  *)
(* of schools, accounts, codes and handlers in flight.                     *)
(***************************************************************************)
EXTENDS SchoolAccounts, FiniteSetTheorems, SequenceTheorems, TLAPS

\* What a handler holds, by how far it is, when S, A and C are the rows there are
\* of schools, accounts and codes.
Knows(q, S, A, C) ==
    /\ q \in Handler
    /\ q.at = "idle" => q = Idle
    /\ q.school \in {0} \cup S /\ q.account \in {0} \cup A /\ q.code \in {0} \cup C
    /\ q.at \notin {"idle", "reread", "remove"} => q.school # 0
    /\ q.at = "signup" \/ q.at = "reread" => q.email \in Emails
    /\ q.account # 0 <=> q.at \in {"link", "profile", "count", "move", "remove"}
    /\ q.code # 0 => q.at \in {"reread", "signup", "link", "profile", "count"}
    /\ q.at = "reread" \/ q.counts => q.code # 0
    /\ q.at = "count" => q.counts
    /\ q.creates => q.code = 0 /\ q.at \in {"row", "grade", "code", "signup", "link", "profile"}
    /\ q.at = "move" => q.todo # {}
    /\ q.at = "row" => q.creates
    /\ q.at \in {"row", "grade", "code"} => q.offers >= 1

Typed ==
    /\ TypeOK
    /\ \A c \in DOMAIN codes : codes[c].school \in DOMAIN schools
    /\ \A r \in Requests : Knows(req[r], DOMAIN schools, DOMAIN accounts, DOMAIN codes)

\* A school being deleted: who is at it came late, or is about to be deleted too.
Emptying(q, sch, acc) ==
    q.at \in {"dropUsers", "dropSchool", "dropTenant"} =>
        /\ sch[q.school].deleting
        /\ \A a \in DOMAIN acc :
             ~acc[a].gone /\ acc[a].tenant = q.school =>
                acc[a].late \/ (q.at = "dropUsers" /\ a \in q.ids)

EmptyInv == (\A r \in Requests : Emptying(req[r], schools, accounts)) /\ DeletedSchoolsEmpty

\* How whole the account x is when its handler q is at work.
Serves(q, x) ==
    /\ q.at \in {"link", "profile", "count"} => x.tenant = q.school
    /\ q.at \in {"profile", "count"} => x.link = q.school
    /\ q.at = "count" => x.profile = q.school
    /\ q.at = "move" =>
        /\ ~q.failed
        /\ "link" \in q.todo \/ x.link = q.school
        /\ "tenant" \in q.todo \/ x.tenant = q.school

IsWhole(x) == x.tenant # 0 /\ x.link = x.tenant /\ x.profile = x.tenant

AccountKept(a) ==
    ~accounts[a].gone /\ ~accounts[a].excused =>
        /\ HandlersOf(a) = {} => IsWhole(accounts[a])
        /\ \A r \in HandlersOf(a) : Serves(req[r], accounts[a])
        /\ \A r, o \in HandlersOf(a) : r = o

\* What the user q of the code x has read of it and added to it.
Uses(q, x) ==
    /\ q.at \in {"reread", "signup", "link"} =>
        x.used + x.free = x.admitted /\ (x.limit # None => x.used < x.limit)
    /\ q.at \in {"signup", "link"} => q.used = x.used
    /\ q.at \in {"profile", "count"} =>
        x.admitted = x.free + (IF q.counts THEN q.used + 1 ELSE x.used)
    /\ q.at \in {"signup", "link", "profile", "count"} => (q.counts <=> Counts(x))

\* The code x admitted no more than it may.
Within(x) == x.limit # None => x.admitted <= x.limit + x.free

CodeKept(c) ==
    ~codes[c].gone /\ ~codes[c].excused =>
        /\ Within(codes[c])
        /\ UsersOf(c) = {} => codes[c].used + codes[c].free = codes[c].admitted
        /\ \A r \in UsersOf(c) : Uses(req[r], codes[c])
        /\ \A r, o \in UsersOf(c) : r = o

\* A grade's code of the school s that is there.
IsGradeCode(c, s) == codes[c].school = s /\ codes[c].ofGrade /\ ~codes[c].gone

GradeCodes(s) == {c \in DOMAIN codes : IsGradeCode(c, s)}

StructureKept(s) ==
    /\ schools[s].grades \/ GradeCodes(s) = {}
    /\ schools[s].doubled \/
        /\ \A r, o \in StructureHandlers(s) : r = o
        /\ Cardinality(GradeCodes(s)) <= schools[s].offers
        /\ \A r \in StructureHandlers(s) :
              Cardinality(GradeCodes(s)) + req[r].offers <= schools[s].offers

HasCode(s) == \E c \in DOMAIN codes : codes[c].school = s /\ codes[c].ofGrade

\* How far the creation of a school is that nothing has spoilt.
Creates(q, x, coded) ==
    /\ q.at # "row" => x.row
    /\ q.at \notin {"row", "grade"} => x.grades
    /\ q.at \in {"row", "grade", "code"} => (x.asked => q.email # None)
    /\ q.at \notin {"row", "grade", "code"} => coded
    /\ q.at = "profile" => x.appointed

CreationKept(s) ==
    ~schools[s].half /\ ~schools[s].deleting =>
        /\ \A r \in Requests : req[r].school = s /\ req[r].creates =>
              Creates(req[r], schools[s], HasCode(s))
        /\ (\A r \in Requests : ~(req[r].school = s /\ req[r].creates)) =>
              /\ schools[s].row /\ schools[s].grades /\ HasCode(s)
              /\ schools[s].asked => schools[s].appointed

\* The starts of a creation, and the calls that take no handler.
CreatesSchool(r, d) ==
    d \in Domains /\ \E email \in Emails \cup {None}, offers \in 1..MaxOffers, single \in BOOLEAN :
                        CreateSchool(r, d, email, offers, single)

AtOnceStep ==
    \/ \E s \in 1..MaxSchools, email \in Emails, role \in {"student", "school_admin"} :
         CreateAccount(s, email, role)
    \/ \E s \in 1..MaxSchools, email \in Emails : UpdateSchool(s, email)
    \/ \E s \in 1..MaxSchools, limit \in Limits, single \in BOOLEAN :
         CreateCode(s, limit, single)
    \/ \E c \in 1..MaxCodes : Regenerate(c)
    \/ \E c \in 1..MaxCodes, limit \in Limits, single, active \in BOOLEAN :
         EditCode(c, limit, single, active)

WholeInv == \A a \in DOMAIN accounts : AccountKept(a)
CodesInv == \A c \in DOMAIN codes : CodeKept(c)
SchoolsInv == \A s \in DOMAIN schools : StructureKept(s) /\ CreationKept(s)

Inv == Typed /\ EmptyInv /\ WholeInv /\ CodesInv /\ SchoolsInv

-----------------------------------------------------------------------------
(***************************************************************************)
(* Types.                                                                  *)
(***************************************************************************)
\* Rows that are rewritten in place.
LEMMA Rewritten ==
  ASSUME NEW S, NEW q \in Seq(S), NEW p \in [DOMAIN q -> S]
  PROVE  p \in Seq(S) /\ Len(p) = Len(q) /\ DOMAIN p = DOMAIN q
<1>1. Len(q) \in Nat /\ DOMAIN q = 1..Len(q)
  OBVIOUS
<1>2. p \in [1..Len(q) -> S]
  BY <1>1
<1> QED BY <1>1, <1>2

\* A row that is added.
LEMMA Added ==
  ASSUME NEW S, NEW q \in Seq(S), NEW v \in S
  PROVE  /\ Append(q, v) \in Seq(S) /\ Len(Append(q, v)) = Len(q) + 1
         /\ DOMAIN Append(q, v) = DOMAIN q \cup {Len(q) + 1}
         /\ Len(q) + 1 \notin DOMAIN q /\ Len(q) \in Nat
         /\ Append(q, v)[Len(q) + 1] = v
         /\ \A i \in DOMAIN q : Append(q, v)[i] = q[i]
BY AppendProperties

LEMMA Bounds ==
  /\ MaxSchools \in Nat /\ MaxAccounts \in Nat /\ MaxCodes \in Nat /\ MaxUses \in Nat
  /\ MaxWords \in Nat /\ MaxStarted \in Nat /\ MaxFaults \in Nat /\ None \notin Emails
  /\ MaxOffers \in Nat /\ MaxSchools >= 1 /\ MaxOffers >= 1
BY SchoolBounds

LEMMA IdleKnown == Idle \in Handler /\ \A S, A, C : Knows(Idle, S, A, C)
<1>1. Idle \in Handler
  BY Bounds DEF Idle, Handler, Phases, SchoolId
<1> QED BY <1>1 DEF Knows, Idle

LEMMA KnowsMore ==
  ASSUME NEW q, NEW S, NEW A, NEW C, Knows(q, S, A, C),
         NEW S2, NEW A2, NEW C2, S \subseteq S2, A \subseteq A2, C \subseteq C2
  PROVE  Knows(q, S2, A2, C2)
BY DEF Knows

\* Rows only grow in number, and a handler that goes on knows what it must.
LEMMA TypedKeeps ==
  ASSUME Typed,
         schools' \in Seq(School), Len(schools') <= MaxSchools,
         accounts' \in Seq(Account), Len(accounts') <= MaxAccounts,
         codes' \in Seq(Code), Len(codes') <= MaxCodes,
         DOMAIN schools \subseteq DOMAIN schools',
         DOMAIN accounts \subseteq DOMAIN accounts', DOMAIN codes \subseteq DOMAIN codes',
         \A c \in DOMAIN codes' : codes'[c].school \in DOMAIN schools',
         req' = [o \in Requests |-> req'[o]],
         \A o \in Requests : req'[o] = req[o] \/
            Knows(req'[o], DOMAIN schools', DOMAIN accounts', DOMAIN codes'),
         started' \in 0..MaxStarted, faults' \in 0..MaxFaults
  PROVE  Typed'
<1>1. \A o \in Requests : Knows(req'[o], DOMAIN schools', DOMAIN accounts', DOMAIN codes')
  BY KnowsMore DEF Typed
<1>2. req' \in [Requests -> Handler]
  BY <1>1 DEF Knows
<1> QED BY <1>1, <1>2 DEF Typed, TypeOK

\* What the rows are of, and what a handler that Becomes leaves.
LEMMA Types ==
  ASSUME Typed
  PROVE  /\ schools \in Seq(School) /\ DOMAIN schools = 1..Len(schools)
         /\ Len(schools) \in Nat /\ Len(schools) <= MaxSchools
         /\ accounts \in Seq(Account) /\ DOMAIN accounts = 1..Len(accounts)
         /\ Len(accounts) \in Nat /\ Len(accounts) <= MaxAccounts
         /\ codes \in Seq(Code) /\ DOMAIN codes = 1..Len(codes)
         /\ Len(codes) \in Nat /\ Len(codes) <= MaxCodes
         /\ req \in [Requests -> Handler]
         /\ started \in 0..MaxStarted /\ faults \in 0..MaxFaults
         /\ \A s \in DOMAIN schools : schools[s] \in School /\ s # 0 /\ s \in SchoolId
         /\ \A a \in DOMAIN accounts : accounts[a] \in Account /\ a # 0 /\ a \in 0..MaxAccounts
         /\ \A c \in DOMAIN codes : /\ codes[c] \in Code /\ c # 0 /\ c \in 0..MaxCodes
                                    /\ codes[c].school \in DOMAIN schools
         /\ \A r \in Requests : Knows(req[r], DOMAIN schools, DOMAIN accounts, DOMAIN codes)
<1>1. /\ schools \in Seq(School) /\ DOMAIN schools = 1..Len(schools)
      /\ Len(schools) \in Nat /\ Len(schools) <= MaxSchools
  BY DEF Typed, TypeOK
<1>2. /\ accounts \in Seq(Account) /\ DOMAIN accounts = 1..Len(accounts)
      /\ Len(accounts) \in Nat /\ Len(accounts) <= MaxAccounts
  BY DEF Typed, TypeOK
<1>3. /\ codes \in Seq(Code) /\ DOMAIN codes = 1..Len(codes)
      /\ Len(codes) \in Nat /\ Len(codes) <= MaxCodes
  BY DEF Typed, TypeOK
<1>4. \A s \in DOMAIN schools : schools[s] \in School /\ s # 0 /\ s \in SchoolId
  BY <1>1, Bounds DEF SchoolId
<1>5. \A a \in DOMAIN accounts : accounts[a] \in Account /\ a # 0 /\ a \in 0..MaxAccounts
  BY <1>2, Bounds
<1>6. \A c \in DOMAIN codes : codes[c] \in Code /\ c # 0 /\ c \in 0..MaxCodes
  BY <1>3, Bounds
<1> QED BY <1>1, <1>2, <1>3, <1>4, <1>5, <1>6 DEF Typed, TypeOK

LEMMA RowsTyped ==
  ASSUME Typed
  PROVE  /\ \A s \in DOMAIN schools : schools[s] \in School
         /\ \A a \in DOMAIN accounts : accounts[a] \in Account
         /\ \A c \in DOMAIN codes : codes[c] \in Code
BY Types

LEMMA Goes ==
  ASSUME Typed, NEW r \in Requests, NEW q, Becomes(r, q)
  PROVE  /\ req' = [o \in Requests |-> req'[o]] /\ req'[r] = q
         /\ \A o \in Requests : o # r => req'[o] = req[o]
BY DEF Typed, TypeOK, Becomes

LEMMA StartsGoes ==
  ASSUME Typed, NEW r \in Requests, NEW q, Starts(r, q)
  PROVE  /\ Becomes(r, q) /\ req[r] = Idle /\ req'[r] = q
         /\ \A o \in Requests : o # r => req'[o] = req[o]
         /\ started' \in 0..MaxStarted
BY Bounds DEF Typed, TypeOK, Starts, Becomes

LEMMA AtOnceGoes ==
  ASSUME Typed, AtOnce
  PROVE  started' \in 0..MaxStarted /\ req' = [o \in Requests |-> req'[o]] /\ req' = req
BY Bounds DEF Typed, TypeOK, AtOnce

\* The rows of a step keep their types.
SchoolsFine ==
    /\ schools' \in Seq(School) /\ Len(schools') <= MaxSchools
    /\ DOMAIN schools \subseteq DOMAIN schools'
AccountsFine ==
    /\ accounts' \in Seq(Account) /\ Len(accounts') <= MaxAccounts
    /\ DOMAIN accounts \subseteq DOMAIN accounts'
CodesFine ==
    /\ codes' \in Seq(Code) /\ Len(codes') <= MaxCodes
    /\ DOMAIN codes \subseteq DOMAIN codes'
    /\ \A c \in DOMAIN codes' : codes'[c].school \in DOMAIN schools

LEMMA SameFine ==
  ASSUME Typed
  PROVE  /\ schools' = schools => SchoolsFine
         /\ accounts' = accounts => AccountsFine
         /\ codes' = codes => CodesFine
BY Types DEF SchoolsFine, AccountsFine, CodesFine

LEMMA SetFine ==
  ASSUME Typed
  PROVE  /\ schools' \in [DOMAIN schools -> School] =>
              SchoolsFine /\ DOMAIN schools' = DOMAIN schools
         /\ accounts' \in [DOMAIN accounts -> Account] =>
              AccountsFine /\ DOMAIN accounts' = DOMAIN accounts
         /\ codes' \in [DOMAIN codes -> Code]
              /\ (\A c \in DOMAIN codes : codes'[c].school \in DOMAIN schools) =>
              CodesFine /\ DOMAIN codes' = DOMAIN codes
<1>1. ASSUME schools' \in [DOMAIN schools -> School]
      PROVE  SchoolsFine /\ DOMAIN schools' = DOMAIN schools
  BY <1>1, Types, Rewritten DEF SchoolsFine
<1>2. ASSUME accounts' \in [DOMAIN accounts -> Account]
      PROVE  AccountsFine /\ DOMAIN accounts' = DOMAIN accounts
  BY <1>2, Types, Rewritten DEF AccountsFine
<1>3. ASSUME codes' \in [DOMAIN codes -> Code],
             \A c \in DOMAIN codes : codes'[c].school \in DOMAIN schools
      PROVE  CodesFine /\ DOMAIN codes' = DOMAIN codes
  BY <1>3, Types, Rewritten DEF CodesFine
<1> QED BY <1>1, <1>2, <1>3

LEMMA StepTyped ==
  ASSUME Typed, SchoolsFine, AccountsFine, CodesFine,
         NEW r \in Requests, NEW q, Becomes(r, q),
         Knows(q, DOMAIN schools', DOMAIN accounts', DOMAIN codes'),
         started' \in 0..MaxStarted, faults' \in 0..MaxFaults
  PROVE  Typed'
<1>1. \A c \in DOMAIN codes' : codes'[c].school \in DOMAIN schools'
  BY DEF SchoolsFine, CodesFine
<1> QED
  BY <1>1, Goes, TypedKeeps DEF SchoolsFine, AccountsFine, CodesFine

LEMMA AtOnceTyped ==
  ASSUME Typed, SchoolsFine, AccountsFine, CodesFine, AtOnce, UNCHANGED faults
  PROVE  Typed'
<1>1. /\ \A c \in DOMAIN codes' : codes'[c].school \in DOMAIN schools'
      /\ faults' \in 0..MaxFaults
  BY Types DEF SchoolsFine, CodesFine
<1> QED
  BY <1>1, AtOnceGoes, TypedKeeps DEF SchoolsFine, AccountsFine, CodesFine

LEMMA RegisterTyped ==
  ASSUME Typed, NEW r \in Requests,
         \/ \E c \in 1..MaxCodes, email \in Emails : RegisterValidate(r, c, email)
         \/ RegisterReread(r) \/ RegisterCount(r)
  PROVE  Typed'
<1>1. ASSUME NEW c, NEW email \in Emails, RegisterValidate(r, c, email) PROVE Typed'
  <2> DEFINE q == [Idle EXCEPT !.at = "reread", !.code = c, !.email = email,
                               !.word = codes[c].word]
  <2>1. /\ c \in DOMAIN codes /\ Starts(r, q) /\ UNCHANGED <<schools, accounts, faults>>
        /\ codes' = [codes EXCEPT ![c].excused = @ \/ UsersOf(c) # {}]
    BY <1>1 DEF RegisterValidate
  <2>2. codes[c] \in Code /\ c # 0 /\ c \in 0..MaxCodes
    BY <2>1, Types
  <2>3. Knows(q, DOMAIN schools, DOMAIN accounts, DOMAIN codes)
    BY <2>1, <2>2, IdleKnown DEF Knows, Idle, Handler, Phases, Code
  <2> HIDE DEF q
  <2>4. codes' \in [DOMAIN codes -> Code]
        /\ \A d \in DOMAIN codes : codes'[d].school \in DOMAIN schools
    <3>1. PICK x \in BOOLEAN : x = (codes[c].excused \/ UsersOf(c) # {})
      OBVIOUS
    <3>2. codes' = [codes EXCEPT ![c].excused = x]
      BY <2>1, <3>1, Zenon
    <3>3. \A d \in DOMAIN codes : codes[d] \in Code /\ codes[d].school \in DOMAIN schools
      BY Types
    <3>4. \A d \in DOMAIN codes : codes'[d] \in Code /\ codes'[d].school = codes[d].school
      BY <3>2, <3>3 DEF Code
    <3>5. codes' = [d \in DOMAIN codes |-> codes'[d]]
      BY <3>2
    <3> QED BY <3>3, <3>4, <3>5
  <2> QED BY <2>1, <2>3, <2>4, SameFine, SetFine, StartsGoes, Types, StepTyped
<1>2. ASSUME RegisterReread(r) PROVE Typed'
  <2> DEFINE q == req[r]
             c == codes[q.code]
             n == [q EXCEPT !.at = "signup", !.school = c.school, !.used = c.used,
                            !.counts = Counts(c)]
  <2>1. /\ q.at = "reread" /\ UNCHANGED <<schools, accounts, codes, started, faults>>
        /\ Becomes(r, Idle) \/ Becomes(r, n)
    BY <1>2 DEF RegisterReread
  <2>2. Knows(q, DOMAIN schools, DOMAIN accounts, DOMAIN codes) /\ q \in Handler
    BY Types DEF Knows
  <2>3. c \in Code /\ q.code # 0 /\ c.school \in DOMAIN schools /\ c.school # 0
        /\ c.school \in SchoolId
    BY <2>1, <2>2, Types DEF Knows
  <2>4. Knows(n, DOMAIN schools, DOMAIN accounts, DOMAIN codes)
    <3>1. PICK x \in BOOLEAN : x = Counts(c)
      BY <2>3 DEF Counts, Code
    <3>2. n = [q EXCEPT !.at = "signup", !.school = c.school, !.used = c.used, !.counts = x]
      BY <3>1, Zenon
    <3> QED BY <2>1, <2>2, <2>3, <3>2 DEF Knows, Handler, Phases, Code
  <2> HIDE DEF n
  <2>5. PICK p \in {Idle, n} : Becomes(r, p)
    BY <2>1
  <2>6. Knows(p, DOMAIN schools, DOMAIN accounts, DOMAIN codes)
    BY <2>4, IdleKnown
  <2> QED BY <2>1, <2>5, <2>6, SameFine, Types, StepTyped
<1>3. ASSUME RegisterCount(r) PROVE Typed'
  <2> DEFINE q == req[r]
  <2>1. /\ q.at = "count" /\ UNCHANGED <<schools, accounts, started, faults>>
        /\ codes' = codes \/ codes' = [codes EXCEPT ![q.code].used = q.used + 1]
        /\ Becomes(r, Idle)
    BY <1>3 DEF RegisterCount
  <2>2. q.code \in DOMAIN codes /\ q.used \in Nat
    BY <2>1, Types DEF Knows, Handler
  <2>3. CodesFine
    <3>1. CASE codes' = codes
      BY <3>1, SameFine
    <3>2. CASE codes' = [codes EXCEPT ![q.code].used = q.used + 1]
      <4>1. codes[q.code] \in Code /\ q.used + 1 \in Nat
        BY <2>2, Types
      <4>2. PICK v : v = [codes[q.code] EXCEPT !.used = q.used + 1]
        OBVIOUS
      <4>3. v \in Code /\ v.school = codes[q.code].school
        BY <4>1, <4>2 DEF Code
      <4>4. codes' = [codes EXCEPT ![q.code] = v]
        BY <3>2, <4>2
      <4>5. codes' \in [DOMAIN codes -> Code]
            /\ \A d \in DOMAIN codes : codes'[d].school \in DOMAIN schools
        BY <2>2, <4>3, <4>4, Types
      <4> QED BY <4>5, SetFine
    <3> QED BY <2>1, <3>1, <3>2
  <2> QED BY <2>1, <2>3, SameFine, IdleKnown, Types, StepTyped
<1> QED BY <1>1, <1>2, <1>3

\* One row is rewritten.
LEMMA SetSchool ==
  ASSUME Typed, NEW s \in DOMAIN schools, NEW v, schools' = [schools EXCEPT ![s] = v]
  PROVE  /\ DOMAIN schools' = DOMAIN schools /\ schools'[s] = v
         /\ \A j \in DOMAIN schools : j # s => schools'[j] = schools[j]
         /\ v \in School => SchoolsFine
<1>1. v \in School => schools' \in [DOMAIN schools -> School]
  BY Types
<1> QED BY <1>1, SetFine

LEMMA SetAccount ==
  ASSUME Typed, NEW a \in DOMAIN accounts, NEW v, accounts' = [accounts EXCEPT ![a] = v]
  PROVE  /\ DOMAIN accounts' = DOMAIN accounts /\ accounts'[a] = v
         /\ \A j \in DOMAIN accounts : j # a => accounts'[j] = accounts[j]
         /\ v \in Account => AccountsFine
<1>1. v \in Account => accounts' \in [DOMAIN accounts -> Account]
  BY Types
<1> QED BY <1>1, SetFine

LEMMA SetCode ==
  ASSUME Typed, NEW c \in DOMAIN codes, NEW v, codes' = [codes EXCEPT ![c] = v]
  PROVE  /\ DOMAIN codes' = DOMAIN codes /\ codes'[c] = v
         /\ \A j \in DOMAIN codes : j # c => codes'[j] = codes[j]
         /\ v \in Code /\ v.school = codes[c].school => CodesFine
<1>1. v \in Code /\ v.school = codes[c].school =>
        /\ codes' \in [DOMAIN codes -> Code]
        /\ \A d \in DOMAIN codes : codes'[d].school \in DOMAIN schools
  BY Types
<1> QED BY <1>1, SetFine

\* One row is added.
LEMMA AddSchool ==
  ASSUME Typed, NEW v \in School, schools' = Append(schools, v), Len(schools) < MaxSchools
  PROVE  /\ SchoolsFine /\ DOMAIN schools' = DOMAIN schools \cup {Len(schools) + 1}
         /\ schools'[Len(schools) + 1] = v /\ Len(schools) + 1 \notin DOMAIN schools
         /\ Len(schools) + 1 \in 1..MaxSchools
         /\ \A s \in DOMAIN schools : schools'[s] = schools[s]
<1>1. /\ DOMAIN schools' = DOMAIN schools \cup {Len(schools) + 1} /\ schools' \in Seq(School)
      /\ schools'[Len(schools) + 1] = v /\ Len(schools) + 1 \notin DOMAIN schools
      /\ Len(schools') = Len(schools) + 1 /\ Len(schools) \in Nat
      /\ \A s \in DOMAIN schools : schools'[s] = schools[s]
  BY Types, Added
<1> QED BY <1>1, Bounds DEF SchoolsFine

LEMMA AddAccount ==
  ASSUME Typed, NEW v \in Account, accounts' = Append(accounts, v),
         Len(accounts) < MaxAccounts
  PROVE  /\ AccountsFine /\ DOMAIN accounts' = DOMAIN accounts \cup {Len(accounts) + 1}
         /\ accounts'[Len(accounts) + 1] = v /\ Len(accounts) + 1 \notin DOMAIN accounts
         /\ Len(accounts) + 1 \in 1..MaxAccounts
         /\ \A a \in DOMAIN accounts : accounts'[a] = accounts[a]
<1>1. /\ DOMAIN accounts' = DOMAIN accounts \cup {Len(accounts) + 1}
      /\ accounts' \in Seq(Account)
      /\ accounts'[Len(accounts) + 1] = v /\ Len(accounts) + 1 \notin DOMAIN accounts
      /\ Len(accounts') = Len(accounts) + 1 /\ Len(accounts) \in Nat
      /\ \A a \in DOMAIN accounts : accounts'[a] = accounts[a]
  BY Types, Added
<1> QED BY <1>1, Bounds DEF AccountsFine

LEMMA AddCode ==
  ASSUME Typed, NEW v \in Code, v.school \in DOMAIN schools, codes' = Append(codes, v),
         Len(codes) < MaxCodes
  PROVE  /\ CodesFine /\ DOMAIN codes' = DOMAIN codes \cup {Len(codes) + 1}
         /\ codes'[Len(codes) + 1] = v /\ Len(codes) + 1 \notin DOMAIN codes
         /\ \A c \in DOMAIN codes : codes'[c] = codes[c]
<1>1. /\ DOMAIN codes' = DOMAIN codes \cup {Len(codes) + 1} /\ codes' \in Seq(Code)
      /\ codes'[Len(codes) + 1] = v /\ Len(codes) + 1 \notin DOMAIN codes
      /\ Len(codes') = Len(codes) + 1 /\ Len(codes) \in Nat
      /\ \A c \in DOMAIN codes : codes'[c] = codes[c]
  BY Types, Added
<1>2. \A c \in DOMAIN codes' : codes'[c].school \in DOMAIN schools
  BY <1>1, Types
<1> QED BY <1>1, <1>2, Bounds DEF CodesFine

\* The rows that are added have their types.
LEMMA NewRows ==
  ASSUME Typed, NEW s \in DOMAIN schools
  PROVE  /\ \A email \in Emails, role \in {"student", "school_admin"} :
              NewAccount(email, role, s) \in Account
         /\ \A limit \in Limits, single \in BOOLEAN, ofGrade \in BOOLEAN :
              NewCode(s, limit, single, ofGrade) \in Code
<1>1. s \in 1..MaxSchools /\ s \in SchoolId /\ schools[s].deleting \in BOOLEAN
  BY Types, Bounds DEF School
<1> QED BY <1>1, Bounds DEF NewAccount, Account, NewCode, Code, SchoolId

\* What a handler has at hand.
LEMMA AtHand ==
  ASSUME Typed, NEW r \in Requests, NEW q, q = req[r], q.at # "idle"
  PROVE  /\ q \in Handler /\ Knows(q, DOMAIN schools, DOMAIN accounts, DOMAIN codes)
         /\ q.at \notin {"reread", "remove"} => q.school \in DOMAIN schools
         /\ q.at \in {"link", "profile", "count", "move", "remove"} =>
              q.account \in DOMAIN accounts
         /\ q.code # 0 => q.code \in DOMAIN codes
         /\ q.creates => q.school \in DOMAIN schools
BY Types DEF Knows

\* What admitting a student writes of a code.
LEMMA AdmittingRow ==
  ASSUME NEW x \in Code
  PROVE  /\ Admitting(x) \in Code /\ Admitting(x).school = x.school
         /\ Admitting(x).ofGrade = x.ofGrade /\ Admitting(x).gone = x.gone
<1>1. x.admitted + 1 \in Nat /\ x.free + 1 \in Nat
  BY DEF Code
<1>2. PICK f \in Nat : f = IF Counts(x) THEN x.free ELSE x.free + 1
  BY <1>1 DEF Code
<1>3. Admitting(x) = [x EXCEPT !.admitted = x.admitted + 1, !.free = f]
  BY <1>2 DEF Admitting
<1> QED BY <1>1, <1>2, <1>3 DEF Code

LEMMA SignupTyped ==
  ASSUME Typed, NEW r \in Requests, Signup(r) \/ Link(r) \/ WriteProfile(r)
  PROVE  Typed'
<1> DEFINE q == req[r]
<1>0. q.at # "idle"
  BY DEF Signup, Link, WriteProfile
<1>1. /\ q \in Handler /\ Knows(q, DOMAIN schools, DOMAIN accounts, DOMAIN codes)
      /\ q.school \in DOMAIN schools /\ schools[q.school] \in School
      /\ started' \in 0..MaxStarted /\ faults' \in 0..MaxFaults
      /\ q.creates \in BOOLEAN
  BY <1>0, AtHand, Types DEF Signup, Link, WriteProfile, Handler
<1>2. ASSUME NEW p, p \in {schools[q.school].half, schools[q.school].half \/ q.creates},
             schools' = [schools EXCEPT ![q.school].half = p]
      PROVE  SchoolsFine
  <2>1. PICK v : v = [schools[q.school] EXCEPT !.half = p]
    OBVIOUS
  <2>2. p \in BOOLEAN
    BY <1>1, <1>2 DEF School
  <2>3. v \in School
    BY <1>1, <2>1, <2>2 DEF School
  <2>4. schools' = [schools EXCEPT ![q.school] = v]
    BY <1>2, <2>1
  <2> QED BY <1>1, <2>3, <2>4, SetSchool
<1>3. CASE Signup(r)
  <2>1. q.at = "signup" /\ q.email \in Emails /\ UNCHANGED codes
    BY <1>1, <1>3 DEF Signup, Knows
  <2>2. CASE Becomes(r, Idle) /\ UNCHANGED accounts
             /\ schools' = [schools EXCEPT ![q.school].half = @ \/ q.creates]
    <3>1. SchoolsFine
      BY <1>2, <2>2
    <3> QED BY <1>1, <2>1, <2>2, <3>1, SameFine, IdleKnown, StepTyped
  <2>3. CASE ~(Becomes(r, Idle) /\ UNCHANGED accounts
             /\ schools' = [schools EXCEPT ![q.school].half = @ \/ q.creates])
    <3>1. PICK role \in {"student", "school_admin"} :
            /\ Len(accounts) < MaxAccounts /\ UNCHANGED schools
            /\ accounts' = Append(accounts, NewAccount(q.email, role, q.school))
            /\ Becomes(r, [q EXCEPT !.at = "link", !.account = Len(accounts) + 1])
      BY <1>3, <2>3 DEF Signup
    <3>2. /\ AccountsFine /\ Len(accounts) + 1 \in DOMAIN accounts'
          /\ Len(accounts) + 1 \in 1..MaxAccounts
      BY <1>1, <2>1, <3>1, NewRows, AddAccount
    <3> DEFINE n == [q EXCEPT !.at = "link", !.account = Len(accounts) + 1]
    <3>3. Knows(n, DOMAIN schools', DOMAIN accounts', DOMAIN codes')
      <4>1. /\ n \in Handler /\ n.at = "link" /\ n.account = Len(accounts) + 1
            /\ n.school = q.school /\ n.code = q.code /\ n.email = q.email
            /\ n.counts = q.counts /\ n.creates = q.creates
        <5>1. Len(accounts) + 1 \in 0..MaxAccounts
          BY <3>2, Bounds
        <5> QED BY <1>1, <5>1 DEF Handler, Phases
      <4> HIDE DEF n
      <4>2. Len(accounts) + 1 # 0
        BY <3>2, Bounds
      <4>3. Knows(q, DOMAIN schools', DOMAIN accounts', DOMAIN codes')
        BY <1>1, <2>1, <3>1, <3>2, KnowsMore DEF AccountsFine
      <4> QED BY <2>1, <3>2, <4>1, <4>2, <4>3 DEF Knows
    <3> HIDE DEF n
    <3> QED BY <1>1, <2>1, <3>1, <3>2, <3>3, SameFine, StepTyped DEF n
  <2> QED BY <2>2, <2>3
<1>4. CASE Link(r)
  <2> DEFINE n == [q EXCEPT !.at = "profile"]
  <2>1. q.at = "link" /\ q.account \in DOMAIN accounts /\ (Becomes(r, n) \/ Becomes(r, Idle))
    BY <1>1, <1>4, AtHand DEF Link
  <2>2. Knows(n, DOMAIN schools, DOMAIN accounts, DOMAIN codes)
    BY <1>1, <2>1 DEF Knows, Handler, Phases
  <2> HIDE DEF n
  <2>3. accounts[q.account] \in Account /\ q.school \in SchoolId
    BY <1>1, <2>1, Types DEF Handler
  <2>4. AccountsFine
    <3>1. PICK v : /\ v \in {[accounts[q.account] EXCEPT !.link = q.school],
                             [accounts[q.account] EXCEPT !.excused = TRUE]}
                   /\ accounts' = [accounts EXCEPT ![q.account] = v]
      BY <1>4 DEF Link
    <3>2. v \in Account
      BY <2>3, <3>1 DEF Account
    <3> QED BY <2>1, <3>1, <3>2, SetAccount
  <2>5. SchoolsFine
    <3>1. PICK v : /\ \/ v = [schools[q.school] EXCEPT !.appointed = @ \/ q.creates]
                      \/ v = [schools[q.school] EXCEPT !.half = @ \/ q.creates]
                   /\ schools' = [schools EXCEPT ![q.school] = v]
      BY <1>4 DEF Link
    <3>2. v \in School
      <4>1. PICK x, y : x = (schools[q.school].appointed \/ q.creates)
                        /\ y = (schools[q.school].half \/ q.creates)
        OBVIOUS
      <4>2. x \in BOOLEAN /\ y \in BOOLEAN
        BY <1>1, <4>1 DEF School
      <4>3. \/ v = [schools[q.school] EXCEPT !.appointed = x]
            \/ v = [schools[q.school] EXCEPT !.half = y]
        BY <3>1, <4>1, Zenon
      <4> QED BY <1>1, <4>2, <4>3 DEF School
    <3> QED BY <1>1, <3>1, <3>2, SetSchool
  <2>6. CodesFine
    <3>1. CASE codes' = codes
      BY <3>1, SameFine
    <3>2. CASE codes' # codes
      <4>1. q.code # 0 /\ codes' = [codes EXCEPT ![q.code] = Admitting(@)]
        BY <1>4, <3>2 DEF Link
      <4>2. q.code \in DOMAIN codes
        BY <1>1, <4>1 DEF Knows
      <4>3. PICK v : v = Admitting(codes[q.code])
        OBVIOUS
      <4>4. v \in Code /\ v.school = codes[q.code].school
        BY <4>2, <4>3, Types, AdmittingRow
      <4>5. codes' = [codes EXCEPT ![q.code] = v]
        BY <4>1, <4>2, <4>3, Types
      <4> QED BY <4>2, <4>4, <4>5, SetCode
    <3> QED BY <3>1, <3>2
  <2>7. PICK p \in {n, Idle} : Becomes(r, p)
    BY <2>1
  <2>8. Knows(p, DOMAIN schools', DOMAIN accounts', DOMAIN codes')
    BY <2>2, <2>4, <2>5, <2>6, IdleKnown, KnowsMore DEF SchoolsFine, AccountsFine, CodesFine
  <2> QED BY <1>1, <2>4, <2>5, <2>6, <2>7, <2>8, StepTyped
<1>5. CASE WriteProfile(r)
  <2> DEFINE n == [q EXCEPT !.at = "count"]
  <2>1. /\ q.at = "profile" /\ q.account \in DOMAIN accounts /\ UNCHANGED schools
        /\ (q.counts /\ Becomes(r, n)) \/ Becomes(r, Idle)
    BY <1>1, <1>5, AtHand DEF WriteProfile
  <2>2. q.counts => Knows(n, DOMAIN schools, DOMAIN accounts, DOMAIN codes)
    BY <1>1, <2>1 DEF Knows, Handler, Phases
  <2> HIDE DEF n
  <2>3. accounts[q.account] \in Account /\ q.school \in SchoolId
    BY <1>1, <2>1, Types DEF Handler
  <2>4. AccountsFine
    <3>1. CASE accounts' = accounts
      BY <3>1, SameFine
    <3>2. CASE accounts' # accounts
      <4>1. PICK v : /\ v = [accounts[q.account] EXCEPT !.profile = q.school]
                     /\ accounts' = [accounts EXCEPT ![q.account] = v]
        BY <1>5, <3>2 DEF WriteProfile
      <4>2. v \in Account
        BY <2>3, <4>1 DEF Account
      <4>3. q.account \in DOMAIN accounts /\ accounts' = [accounts EXCEPT ![q.account] = v]
        BY <2>1, <4>1
      <4> QED BY <4>2, <4>3, SetAccount
    <3> QED BY <3>1, <3>2
  <2>5. CodesFine
    <3>1. CASE codes' = codes
      BY <3>1, SameFine
    <3>2. CASE codes' # codes
      <4>1. q.code # 0 /\ codes' = [codes EXCEPT ![q.code].excused = TRUE]
        BY <1>5, <3>2 DEF WriteProfile
      <4>2. q.code \in DOMAIN codes
        BY <1>1, <4>1 DEF Knows
      <4>3. PICK v : v = [codes[q.code] EXCEPT !.excused = TRUE]
        OBVIOUS
      <4>4. v \in Code /\ v.school = codes[q.code].school
        BY <4>2, <4>3, RowsTyped DEF Code
      <4>5. codes' = [codes EXCEPT ![q.code] = v]
        BY <4>1, <4>2, <4>3
      <4> QED BY <4>2, <4>4, <4>5, SetCode
    <3> QED BY <3>1, <3>2
  <2>6. PICK p : Becomes(r, p) /\ Knows(p, DOMAIN schools, DOMAIN accounts, DOMAIN codes)
    BY <2>1, <2>2, IdleKnown
  <2>7. Knows(p, DOMAIN schools', DOMAIN accounts', DOMAIN codes')
    BY <2>1, <2>4, <2>5, <2>6, KnowsMore DEF AccountsFine, CodesFine
  <2> QED BY <1>1, <2>1, <2>4, <2>5, <2>6, <2>7, SameFine, StepTyped
<1> QED BY <1>3, <1>4, <1>5

\* A flag of a school that is raised.
LEMMA FlagFine ==
  ASSUME Typed, NEW s \in DOMAIN schools, NEW x,
         x \in BOOLEAN,
         \/ schools' = [schools EXCEPT ![s].half = x]
         \/ schools' = [schools EXCEPT ![s].doubled = x]
         \/ schools' = [schools EXCEPT ![s].deleting = x]
         \/ schools' = [schools EXCEPT ![s].row = x]
         \/ schools' = [schools EXCEPT ![s].grades = x]
         \/ schools' = [schools EXCEPT ![s].tenant = x]
         \/ schools' = [schools EXCEPT ![s].row = x, ![s].grades = x]
  PROVE  SchoolsFine /\ DOMAIN schools' = DOMAIN schools
<1>1. schools[s] \in School
  BY Types
<1>2. PICK v : /\ \/ v = [schools[s] EXCEPT !.half = x]
                  \/ v = [schools[s] EXCEPT !.doubled = x]
                  \/ v = [schools[s] EXCEPT !.deleting = x]
                  \/ v = [schools[s] EXCEPT !.row = x]
                  \/ v = [schools[s] EXCEPT !.grades = x]
                  \/ v = [schools[s] EXCEPT !.tenant = x]
                  \/ v = [schools[s] EXCEPT !.row = x, !.grades = x]
               /\ schools' = [schools EXCEPT ![s] = v]
  OBVIOUS
<1>3. v \in School
  BY <1>1, <1>2 DEF School
<1> QED BY <1>2, <1>3, SetSchool

\* The school that is created.
NextSchool == Len(schools) + 1

LEMMA Created ==
  ASSUME Typed, NEW r \in Requests,
         \E d : CreatesSchool(r, d)
  PROVE  /\ SchoolsFine /\ DOMAIN schools' = DOMAIN schools \cup {NextSchool}
         /\ NextSchool \notin DOMAIN schools /\ NextSchool \in 1..MaxSchools
         /\ \A s \in DOMAIN schools : schools'[s] = schools[s]
         /\ schools'[NextSchool].tenant /\ ~schools'[NextSchool].row /\ ~schools'[NextSchool].grades
         /\ schools'[NextSchool].asked => req'[r].email # None
         /\ schools'[NextSchool].offers = req'[r].offers /\ req'[r].offers \in 1..MaxOffers
         /\ ~schools'[NextSchool].deleting /\ ~schools'[NextSchool].doubled
         /\ UNCHANGED <<accounts, codes>> /\ req[r] = Idle
         /\ Becomes(r, req'[r]) /\ req'[r] \in Handler
         /\ req'[r].at = "row" /\ req'[r].school = NextSchool
         /\ req'[r].creates /\ req'[r].account = 0 /\ req'[r].code = 0 /\ ~req'[r].counts
         /\ \A o \in Requests : o # r => req'[o] = req[o]
<1>0. PICK d \in Domains, email \in Emails \cup {None}, offers \in 1..MaxOffers,
           single \in BOOLEAN : CreateSchool(r, d, email, offers, single)
  BY DEF CreatesSchool
<1> DEFINE q == [Idle EXCEPT !.at = "row", !.school = NextSchool, !.email = email,
                             !.creates = TRUE, !.offers = offers, !.single = single]
<1>1. /\ Len(schools) < MaxSchools /\ UNCHANGED <<accounts, codes>> /\ Starts(r, q)
  BY <1>0 DEF CreateSchool, NextSchool
<1>2. PICK asked \in BOOLEAN : asked = (email # None)
  OBVIOUS
<1> DEFINE v == [domain |-> d, tenant |-> TRUE, row |-> FALSE,
                 grades |-> FALSE, asked |-> asked, appointed |-> FALSE,
                 offers |-> offers, deleting |-> FALSE, half |-> FALSE, doubled |-> FALSE]
<1>3. /\ v \in School /\ v.tenant /\ ~v.row /\ ~v.grades /\ (v.asked => email # None)
      /\ ~v.deleting /\ ~v.doubled /\ v.offers = offers
  BY <1>2 DEF School
<1>4. schools' = Append(schools, v)
  BY <1>0, <1>2, Zenon DEF CreateSchool
<1> HIDE DEF v
<1>5. /\ SchoolsFine /\ DOMAIN schools' = DOMAIN schools \cup {NextSchool}
      /\ schools'[NextSchool] = v
      /\ NextSchool \notin DOMAIN schools /\ NextSchool \in 1..MaxSchools
      /\ \A s \in DOMAIN schools : schools'[s] = schools[s]
  BY <1>1, <1>3, <1>4, AddSchool DEF NextSchool
<1>6. NextSchool \in SchoolId
  BY <1>5, Bounds DEF SchoolId
<1>7. /\ q.at = "row" /\ q.school = NextSchool /\ q.email = email /\ q.creates /\ q.account = 0
      /\ q.code = 0 /\ ~q.counts /\ q.offers = offers
  BY DEF Idle
<1>8. q \in Handler
  <2>1. offers \in 0..MaxOffers
    BY Bounds
  <2> QED BY <1>6, <2>1, IdleKnown DEF Handler, Phases, Idle
<1> HIDE DEF q
<1>9. /\ Becomes(r, q) /\ req[r] = Idle /\ req'[r] = q
      /\ \A o \in Requests : o # r => req'[o] = req[o]
  BY <1>1, StartsGoes
<1> QED BY <1>1, <1>3, <1>5, <1>7, <1>8, <1>9

LEMMA StructureTyped ==
  ASSUME Typed, NEW r \in Requests,
         \/ \E d : CreatesSchool(r, d)
         \/ \E s \in 1..MaxSchools : InitStructure(r, s) \/ DeleteSchool(r, s)
         \/ SchoolRow(r) \/ CreateGrade(r) \/ CreateGradeCode(r)
  PROVE  Typed'
<1>0. started' \in 0..MaxStarted /\ faults' \in 0..MaxFaults
  BY StartsGoes, Types DEF CreatesSchool, CreateSchool, InitStructure, DeleteSchool,
                           SchoolRow, CreateGrade, CreateGradeCode
<1>1. ASSUME \E d : CreatesSchool(r, d)
      PROVE  Typed'
  <2>1. PICK n, q : n = NextSchool /\ q = req'[r]
    OBVIOUS
  <2>2. /\ SchoolsFine /\ n \in DOMAIN schools' /\ n \in 1..MaxSchools
        /\ Becomes(r, q) /\ UNCHANGED <<accounts, codes>>
    BY <1>1, <2>1, Created
  <2>3. Knows(q, DOMAIN schools', DOMAIN accounts', DOMAIN codes')
    <3>1. n # 0
      BY <2>2
    <3>2. /\ q \in Handler /\ q.at = "row" /\ q.school = n
          /\ q.account = 0 /\ q.code = 0 /\ ~q.counts /\ q.creates
          /\ q.offers \in 1..MaxOffers
      BY <1>1, <2>1, Created
    <3> QED BY <2>2, <3>1, <3>2, Bounds DEF Knows
  <2>4. faults' = faults
    BY <1>1 DEF CreatesSchool, CreateSchool
  <2> QED BY <1>0, <2>2, <2>3, <2>4, SameFine, StepTyped
<1>2. ASSUME NEW s \in 1..MaxSchools, InitStructure(r, s) \/ DeleteSchool(r, s) PROVE Typed'
  <2>1. s \in DOMAIN schools /\ UNCHANGED <<accounts, codes>>
    BY <1>2 DEF InitStructure, DeleteSchool
  <2>2. SchoolsFine /\ DOMAIN schools' = DOMAIN schools
    <3>1. CASE InitStructure(r, s)
      <4>1. PICK x : x = (schools[s].doubled \/ StructureHandlers(s) # {})
        OBVIOUS
      <4>2. x \in BOOLEAN
        BY <2>1, <4>1, Types DEF School
      <4>3. schools' = [schools EXCEPT ![s].doubled = x]
        BY <3>1, <4>1, Zenon DEF InitStructure
      <4> QED BY <2>1, <4>2, <4>3, FlagFine
    <3>2. CASE DeleteSchool(r, s)
      BY <2>1, <3>2, FlagFine DEF DeleteSchool
    <3> QED BY <1>2, <3>1, <3>2
  <2>3. PICK q : /\ Becomes(r, q)
                 /\ \/ q = [Idle EXCEPT !.at = "grade", !.school = s, !.offers = 1, !.single = TRUE]
                    \/ q = [Idle EXCEPT !.at = "dropUsers", !.school = s,
                            !.ids = {a \in DOMAIN accounts : Live(a) /\ accounts[a].tenant = s}]
    BY <1>2, StartsGoes DEF InitStructure, DeleteSchool
  <2>4. Knows(q, DOMAIN schools', DOMAIN accounts', DOMAIN codes')
    <3>1. s # 0 /\ s \in SchoolId
      BY <2>1, Types
    <3>2. \A a \in DOMAIN accounts : a \in 1..MaxAccounts
      BY Types, Bounds
    <3>3. PICK ids : /\ ids = {a \in DOMAIN accounts : Live(a) /\ accounts[a].tenant = s}
                     /\ ids \in SUBSET (1..MaxAccounts)
      BY <3>2
    <3>4. CASE q = [Idle EXCEPT !.at = "grade", !.school = s, !.offers = 1, !.single = TRUE]
      <4>1. 1 \in 0..MaxOffers
        BY Bounds
      <4>2. /\ q \in Handler /\ q.at = "grade" /\ q.school = s /\ q.account = 0
            /\ q.code = 0 /\ q.counts = FALSE /\ q.creates = FALSE /\ q.offers = 1
        BY <3>1, <3>4, <4>1, IdleKnown DEF Idle, Handler, Phases
      <4> QED BY <2>1, <2>2, <3>1, <4>2 DEF Knows
    <3>5. CASE q = [Idle EXCEPT !.at = "dropUsers", !.school = s, !.ids = ids]
      <4>1. /\ q \in Handler /\ q.at = "dropUsers" /\ q.school = s /\ q.account = 0
            /\ q.code = 0 /\ q.counts = FALSE /\ q.creates = FALSE
        BY <3>1, <3>3, <3>5, IdleKnown DEF Idle, Handler, Phases
      <4> QED BY <2>1, <2>2, <3>1, <4>1 DEF Knows
    <3> QED BY <2>3, <3>3, <3>4, <3>5
  <2> QED BY <1>0, <2>1, <2>2, <2>3, <2>4, SameFine, StepTyped
<1>3. ASSUME SchoolRow(r) \/ CreateGrade(r) \/ CreateGradeCode(r) PROVE Typed'
  <2> DEFINE q == req[r]
  <2>1. /\ q.at \in {"row", "grade", "code"} /\ q \in Handler
        /\ Knows(q, DOMAIN schools, DOMAIN accounts, DOMAIN codes)
        /\ q.school \in DOMAIN schools /\ UNCHANGED accounts
    BY <1>3, AtHand DEF SchoolRow, CreateGrade, CreateGradeCode
  <2>2. SchoolsFine /\ DOMAIN schools' = DOMAIN schools
    <3>1. CASE schools' = schools
      BY <3>1, SameFine
    <3>2. CASE schools' # schools
      <4>1. PICK x : x = (schools[q.school].half \/ q.creates)
        OBVIOUS
      <4>2. x \in BOOLEAN
        BY <2>1, <4>1, Types DEF School, Handler
      <4>3. \/ schools' = [schools EXCEPT ![q.school].half = x]
            \/ schools' = [schools EXCEPT ![q.school].row = TRUE]
            \/ schools' = [schools EXCEPT ![q.school].grades = TRUE]
        BY <1>3, <3>2, <4>1, Zenon DEF SchoolRow, CreateGrade, CreateGradeCode
      <4> QED BY <2>1, <4>2, <4>3, FlagFine
    <3> QED BY <3>1, <3>2
  <2>3. CodesFine
    <3>1. CASE codes' = codes
      BY <3>1, SameFine
    <3>2. CASE codes' # codes
      <4>1. /\ Len(codes) < MaxCodes
            /\ codes' = Append(codes, NewCode(q.school, None, q.single, TRUE))
        BY <1>3, <3>2 DEF SchoolRow, CreateGrade, CreateGradeCode
      <4>0. None \in Limits /\ q.single \in BOOLEAN
        BY <2>1 DEF Limits, Handler
      <4>2. NewCode(q.school, None, q.single, TRUE) \in Code
        BY <2>1, <4>0, NewRows
      <4>3. NewCode(q.school, None, q.single, TRUE).school \in DOMAIN schools
        BY <2>1 DEF NewCode
      <4> QED BY <4>1, <4>2, <4>3, AddCode
    <3> QED BY <3>1, <3>2
  <2>7. PICK n : n = q.offers - 1
    OBVIOUS
  <2>4. PICK p : /\ Becomes(r, p)
                 /\ \/ p = Idle
                    \/ p = [q EXCEPT !.at = "grade"] /\ q.at = "row"
                    \/ p = [q EXCEPT !.at = "grade", !.offers = n] /\ q.offers > 1
                    \/ p = [q EXCEPT !.at = "code"] /\ q.at = "grade"
                    \/ p = [q EXCEPT !.at = "signup"] /\ q.email # None
    <3>1. CASE SchoolRow(r)
      BY <3>1 DEF SchoolRow, Moves
    <3>2. CASE CreateGrade(r)
      <4>1. /\ q.at = "grade"
            /\ Becomes(r, Idle) \/ Becomes(r, [q EXCEPT !.at = "code"])
        BY <3>2 DEF CreateGrade
      <4>2. CASE Becomes(r, Idle)
        BY <4>2
      <4>3. CASE Becomes(r, [q EXCEPT !.at = "code"])
        BY <4>1, <4>3
      <4> QED BY <4>1, <4>2, <4>3
    <3>3. CASE CreateGradeCode(r)
      <4>1. \/ Becomes(r, Idle)
            \/ Becomes(r, [q EXCEPT !.at = "grade", !.offers = n]) /\ q.offers > 1
            \/ Becomes(r, [q EXCEPT !.at = "signup"]) /\ q.email # None
        <5>1. \/ Becomes(r, Idle)
              \/ Becomes(r, [q EXCEPT !.at = "grade", !.offers = @ - 1]) /\ q.offers > 1
              \/ Becomes(r, [q EXCEPT !.at = "signup"]) /\ q.email # None
          BY <3>3 DEF CreateGradeCode
        <5>2. [q EXCEPT !.at = "grade", !.offers = @ - 1] =
              [q EXCEPT !.at = "grade", !.offers = n]
          BY <2>1, <2>7 DEF Handler
        <5> QED BY <5>1, <5>2
      <4>2. CASE Becomes(r, Idle)
        BY <4>2
      <4>3. CASE Becomes(r, [q EXCEPT !.at = "grade", !.offers = n]) /\ q.offers > 1
        BY <4>3
      <4>4. CASE Becomes(r, [q EXCEPT !.at = "signup"]) /\ q.email # None
        BY <4>4
      <4> QED BY <4>1, <4>2, <4>3, <4>4
    <3> QED BY <1>3, <3>1, <3>2, <3>3
  <2>5. Knows(p, DOMAIN schools, DOMAIN accounts, DOMAIN codes)
    <3>1. CASE p = Idle
      BY <3>1, IdleKnown
    <3>2. CASE p # Idle
      <4>1. /\ p \in Handler /\ p.at \in {"grade", "code", "signup"} /\ p.school = q.school
            /\ p.account = q.account /\ p.code = q.code /\ p.email = q.email
            /\ p.counts = q.counts /\ p.creates = q.creates
            /\ p.at = "signup" => q.email # None
            /\ p.at # "signup" => p.offers >= 1
        <5>1. CASE p = [q EXCEPT !.at = "grade", !.offers = n] /\ q.offers > 1
          <6>1. n \in 0..MaxOffers /\ n >= 1
            BY <2>1, <2>7, <5>1, Bounds DEF Handler
          <6> QED BY <2>1, <5>1, <6>1 DEF Handler, Phases
        <5>2. CASE \/ p = [q EXCEPT !.at = "grade"] /\ q.at = "row"
                   \/ p = [q EXCEPT !.at = "code"] /\ q.at = "grade"
                   \/ p = [q EXCEPT !.at = "signup"] /\ q.email # None
          <6>1. q.offers >= 1
            BY <2>1 DEF Knows
          <6> QED BY <2>1, <5>2, <6>1 DEF Handler, Phases
        <5> QED BY <2>4, <3>2, <5>1, <5>2
      <4>2. p.at = "signup" => p.email \in Emails
        BY <2>1, <4>1 DEF Handler
      <4> QED BY <2>1, <4>1, <4>2 DEF Knows
    <3> QED BY <3>1, <3>2
  <2>6. Knows(p, DOMAIN schools', DOMAIN accounts', DOMAIN codes')
    BY <2>1, <2>2, <2>3, <2>5, KnowsMore DEF CodesFine
  <2> QED BY <1>0, <2>1, <2>2, <2>3, <2>4, <2>6, SameFine, StepTyped
<1> QED BY <1>1, <1>2, <1>3

LEMMA ResolvesTyped ==
  ASSUME Typed, NEW s, Resolves(s)
  PROVE  /\ s \in DOMAIN schools /\ s # 0 /\ s \in SchoolId /\ SchoolsFine
         /\ DOMAIN schools' = DOMAIN schools
         /\ schools' = [schools EXCEPT ![s].row = TRUE]
BY FlagFine, Types DEF Resolves

\* Two fields of an account that is there.
LEMMA AccountFine ==
  ASSUME Typed, NEW a \in DOMAIN accounts, NEW x \in BOOLEAN, NEW s \in SchoolId,
         NEW email \in Emails, NEW late \in BOOLEAN,
         \/ accounts' = [accounts EXCEPT ![a].excused = x]
         \/ accounts' = [accounts EXCEPT ![a].gone = x]
         \/ accounts' = [accounts EXCEPT ![a].link = s]
         \/ accounts' = [accounts EXCEPT ![a].link = s, ![a].excused = x]
         \/ accounts' = [accounts EXCEPT ![a].email = email, ![a].excused = x]
         \/ accounts' = [accounts EXCEPT ![a].email = email]
         \/ accounts' = [accounts EXCEPT ![a].tenant = s, ![a].late = late]
  PROVE  AccountsFine /\ DOMAIN accounts' = DOMAIN accounts
<1>1. accounts[a] \in Account
  BY Types
<1>2. PICK v : /\ \/ v = [accounts[a] EXCEPT !.excused = x]
                  \/ v = [accounts[a] EXCEPT !.gone = x]
                  \/ v = [accounts[a] EXCEPT !.link = s]
                  \/ v = [accounts[a] EXCEPT !.link = s, !.excused = x]
                  \/ v = [accounts[a] EXCEPT !.email = email, !.excused = x]
                  \/ v = [accounts[a] EXCEPT !.email = email]
                  \/ v = [accounts[a] EXCEPT !.tenant = s, !.late = late]
               /\ accounts' = [accounts EXCEPT ![a] = v]
  OBVIOUS
<1>3. v \in Account
  BY <1>1, <1>2 DEF Account
<1> QED BY <1>2, <1>3, SetAccount

\* An update of a school alone, and of the e-mail of an administrator it has.
LEMMA Updated ==
  ASSUME Typed, NEW s, NEW email \in Emails, UpdateSchool(s, email)
  PROVE  /\ AtOnce /\ UNCHANGED <<codes, faults>>
         /\ SchoolsFine /\ AccountsFine
         /\ s \in DOMAIN schools /\ schools' = [schools EXCEPT ![s].row = TRUE]
         /\ DOMAIN schools' = DOMAIN schools /\ DOMAIN accounts' = DOMAIN accounts
         /\ \A a \in DOMAIN accounts :
              /\ accounts'[a].tenant = accounts[a].tenant
              /\ accounts'[a].link = accounts[a].link
              /\ accounts'[a].profile = accounts[a].profile
              /\ accounts'[a].late = accounts[a].late
              /\ accounts'[a].gone = accounts[a].gone
              /\ accounts'[a].excused = accounts[a].excused
<1>1. /\ AtOnce /\ UNCHANGED <<codes, faults>> /\ Resolves(s)
      /\ \/ UNCHANGED accounts
         \/ \E a \in AdminsOf(s) : accounts' = [accounts EXCEPT ![a].email = email]
  BY DEF UpdateSchool
<1>2. CASE UNCHANGED accounts
  BY <1>1, <1>2, SameFine, ResolvesTyped
<1>3. ASSUME NEW a \in AdminsOf(s), accounts' = [accounts EXCEPT ![a].email = email]
      PROVE  /\ AccountsFine /\ DOMAIN accounts' = DOMAIN accounts
             /\ \A x \in DOMAIN accounts :
                  /\ accounts'[x].tenant = accounts[x].tenant
                  /\ accounts'[x].link = accounts[x].link
                  /\ accounts'[x].profile = accounts[x].profile
                  /\ accounts'[x].late = accounts[x].late
                  /\ accounts'[x].gone = accounts[x].gone
                  /\ accounts'[x].excused = accounts[x].excused
  <2>1. a \in DOMAIN accounts /\ accounts[a] \in Account
    BY <1>3, Types DEF AdminsOf
  <2>2. AccountsFine /\ DOMAIN accounts' = DOMAIN accounts
    <3>1. 0 \in SchoolId /\ TRUE \in BOOLEAN
      BY Bounds DEF SchoolId
    <3> QED BY <1>3, <2>1, <3>1, AccountFine
  <2>3. PICK v : v = [accounts[a] EXCEPT !.email = email]
    OBVIOUS
  <2>4. /\ accounts'[a] = v
        /\ \A x \in DOMAIN accounts : x # a => accounts'[x] = accounts[x]
    BY <1>3, <2>1, <2>3, Types
  <2>5. /\ v.tenant = accounts[a].tenant /\ v.link = accounts[a].link
        /\ v.profile = accounts[a].profile /\ v.late = accounts[a].late
        /\ v.gone = accounts[a].gone /\ v.excused = accounts[a].excused
    BY <2>1, <2>3 DEF Account
  <2> QED BY <2>2, <2>4, <2>5
<1> QED BY <1>1, <1>2, <1>3, ResolvesTyped

\* The account of a handler that starts at it: overlapping another excuses it.
LEMMA Overlapped ==
  ASSUME Typed, NEW a \in DOMAIN accounts
  PROVE  \E x \in BOOLEAN : x = (accounts[a].excused \/ HandlersOf(a) # {})
BY Types DEF Account

LEMMA AdminTyped ==
  ASSUME Typed, NEW r \in Requests, NEW s, NEW a, NEW email \in Emails,
         \/ UpdateSchoolAppoint(r, s, email) \/ UpdateSchoolAdmin(r, s, email)
         \/ CreateAdmin(r, s, email) \/ MoveAdmin(r, a, s) \/ RemoveAdmin(r, a)
  PROVE  Typed'
<1>0. /\ started' \in 0..MaxStarted /\ faults' \in 0..MaxFaults
      /\ codes' = codes /\ 0 \in SchoolId
  <2>1. UNCHANGED faults /\ UNCHANGED codes
    BY DEF UpdateSchoolAppoint, UpdateSchoolAdmin, CreateAdmin, MoveAdmin, RemoveAdmin
  <2>2. started' \in 0..MaxStarted
    BY StartsGoes DEF UpdateSchoolAppoint, UpdateSchoolAdmin, CreateAdmin, MoveAdmin,
                      RemoveAdmin
  <2> QED BY <2>1, <2>2, Types, Bounds DEF SchoolId
<1>1. CASE UpdateSchoolAppoint(r, s, email) \/ CreateAdmin(r, s, email)
  <2> DEFINE q == [Idle EXCEPT !.at = "signup", !.school = s, !.email = email]
  <2>1. Resolves(s) /\ Becomes(r, q) /\ UNCHANGED accounts
    BY <1>1, StartsGoes DEF UpdateSchoolAppoint, CreateAdmin
  <2>2. Knows(q, DOMAIN schools', DOMAIN accounts', DOMAIN codes')
    BY <2>1, ResolvesTyped, IdleKnown DEF Knows, Idle, Handler, Phases
  <2> HIDE DEF q
  <2> QED BY <1>0, <2>1, <2>2, ResolvesTyped, SameFine, StepTyped
<1>2. CASE UpdateSchoolAdmin(r, s, email) \/ MoveAdmin(r, a, s)
  <2>1. PICK b, q :
          /\ b \in DOMAIN accounts
          /\ Resolves(s) /\ Becomes(r, q)
          /\ \/ q = [Idle EXCEPT !.at = "profile", !.school = s, !.account = b]
             \/ q = [Idle EXCEPT !.at = "move", !.account = b, !.school = s,
                                 !.todo = {"link", "tenant"}]
          /\ \/ accounts' = [accounts EXCEPT ![b].email = email,
                                             ![b].excused = @ \/ HandlersOf(b) # {}]
             \/ accounts' = [accounts EXCEPT ![b].excused = @ \/ HandlersOf(b) # {}]
    <3>1. CASE UpdateSchoolAdmin(r, s, email)
      <4>1. PICK b \in AdminsOf(s) :
              /\ accounts' = [accounts EXCEPT ![b].email = email,
                                              ![b].excused = @ \/ HandlersOf(b) # {}]
              /\ Starts(r, [Idle EXCEPT !.at = "profile", !.school = s, !.account = b])
        BY <3>1 DEF UpdateSchoolAdmin
      <4>2. b \in DOMAIN accounts /\ Resolves(s)
        BY <3>1 DEF AdminsOf, UpdateSchoolAdmin
      <4> QED BY <4>1, <4>2, StartsGoes
    <3>2. CASE MoveAdmin(r, a, s)
      <4>1. /\ a \in DOMAIN accounts /\ Resolves(s)
            /\ accounts' = [accounts EXCEPT ![a].excused = @ \/ HandlersOf(a) # {}]
            /\ Starts(r, [Idle EXCEPT !.at = "move", !.account = a, !.school = s,
                                      !.todo = {"link", "tenant"}])
        BY <3>2 DEF MoveAdmin
      <4>2. Becomes(r, [Idle EXCEPT !.at = "move", !.account = a, !.school = s,
                                    !.todo = {"link", "tenant"}])
        BY <4>1, StartsGoes
      <4> QED BY <4>1, <4>2, Zenon
    <3> QED BY <1>2, <3>1, <3>2
  <2>2. AccountsFine /\ DOMAIN accounts' = DOMAIN accounts
    <3>1. PICK x \in BOOLEAN : x = (accounts[b].excused \/ HandlersOf(b) # {})
      BY Overlapped
    <3>2. \/ accounts' = [accounts EXCEPT ![b].email = email, ![b].excused = x]
          \/ accounts' = [accounts EXCEPT ![b].excused = x]
      BY <2>1, <3>1, Zenon
    <3> QED BY <1>0, <2>1, <3>2, AccountFine
  <2>3. Knows(q, DOMAIN schools', DOMAIN accounts', DOMAIN codes')
    <3>1. /\ b \in 0..MaxAccounts /\ b # 0 /\ s \in SchoolId /\ s # 0
          /\ s \in DOMAIN schools /\ DOMAIN schools' = DOMAIN schools
      BY <2>1, Types, ResolvesTyped
    <3>2. /\ q \in Handler /\ q.at \in {"profile", "move"} /\ q.account = b /\ q.school = s
          /\ q.code = 0 /\ q.counts = FALSE /\ q.creates = FALSE
          /\ q.at = "move" => q.todo # {}
      <4>1. CASE q = [Idle EXCEPT !.at = "profile", !.school = s, !.account = b]
        BY <3>1, <4>1, IdleKnown DEF Idle, Handler, Phases
      <4>2. CASE q = [Idle EXCEPT !.at = "move", !.account = b, !.school = s,
                                  !.todo = {"link", "tenant"}]
        BY <3>1, <4>2, IdleKnown DEF Idle, Handler, Phases
      <4> QED BY <2>1, <4>1, <4>2
    <3> QED BY <2>1, <2>2, <3>1, <3>2 DEF Knows
  <2> QED BY <1>0, <2>1, <2>2, <2>3, ResolvesTyped, SameFine, StepTyped
<1>3. CASE RemoveAdmin(r, a)
  <2> DEFINE q == [Idle EXCEPT !.at = "remove", !.account = a]
  <2>1. /\ a \in DOMAIN accounts /\ Becomes(r, q) /\ UNCHANGED schools
        /\ accounts' = [accounts EXCEPT ![a].link = 0,
                                        ![a].excused = @ \/ HandlersOf(a) # {}]
    BY <1>3, StartsGoes DEF RemoveAdmin
  <2>2. AccountsFine /\ DOMAIN accounts' = DOMAIN accounts
    <3>1. PICK x \in BOOLEAN : x = (accounts[a].excused \/ HandlersOf(a) # {})
      BY <2>1, Overlapped
    <3>2. accounts' = [accounts EXCEPT ![a].link = 0, ![a].excused = x]
      BY <2>1, <3>1, Zenon
    <3> QED BY <1>0, <2>1, <3>2, AccountFine
  <2>3. Knows(q, DOMAIN schools', DOMAIN accounts', DOMAIN codes')
    <3>1. a \in 0..MaxAccounts /\ a # 0 /\ a \in DOMAIN accounts'
      BY <2>1, <2>2, Types
    <3>2. /\ q \in Handler /\ q.at = "remove" /\ q.account = a /\ q.school = 0
          /\ q.code = 0 /\ q.counts = FALSE /\ q.creates = FALSE
      BY <3>1, IdleKnown DEF Idle, Handler, Phases
    <3> HIDE DEF q
    <3> QED BY <3>1, <3>2 DEF Knows
  <2> HIDE DEF q
  <2> QED BY <1>0, <2>1, <2>2, <2>3, SameFine, StepTyped
<1> QED BY <1>1, <1>2, <1>3

LEMMA DropTyped ==
  ASSUME Typed, NEW r \in Requests,
         DropUsers(r) \/ DropSchool(r) \/ DropTenant(r) \/ RemoveUser(r)
  PROVE  Typed'
<1> DEFINE q == req[r]
<1>0. /\ started' \in 0..MaxStarted /\ faults' \in 0..MaxFaults /\ 0 \in SchoolId
      /\ q.at \in {"dropUsers", "dropSchool", "dropTenant", "remove"}
  <2>1. UNCHANGED <<started, faults>>
    BY DEF DropUsers, DropSchool, DropTenant, RemoveUser
  <2>2. q.at \in {"dropUsers", "dropSchool", "dropTenant", "remove"}
    BY DEF DropUsers, DropSchool, DropTenant, RemoveUser
  <2> QED BY <2>1, <2>2, Types, Bounds DEF SchoolId
<1>1. /\ q \in Handler /\ Knows(q, DOMAIN schools, DOMAIN accounts, DOMAIN codes)
      /\ q.at # "remove" => q.school \in DOMAIN schools
      /\ q.at = "remove" => q.account \in DOMAIN accounts
  BY <1>0, AtHand
<1>2. SchoolsFine /\ DOMAIN schools' = DOMAIN schools
  <2>1. CASE DropUsers(r) \/ RemoveUser(r)
    BY <2>1, SameFine DEF DropUsers, RemoveUser
  <2>2. CASE DropSchool(r) \/ DropTenant(r)
    BY <1>1, <2>2, FlagFine DEF DropSchool, DropTenant
  <2> QED BY <2>1, <2>2
<1>3. AccountsFine /\ DOMAIN accounts' = DOMAIN accounts
  <2>1. CASE DropUsers(r)
    <3>1. accounts' = [a \in DOMAIN accounts |->
                         [accounts[a] EXCEPT !.gone = @ \/ a \in q.ids]]
      BY <2>1 DEF DropUsers
    <3>2. ASSUME NEW a \in DOMAIN accounts
          PROVE  [accounts[a] EXCEPT !.gone = @ \/ a \in q.ids] \in Account
      <4>1. PICK x \in BOOLEAN : x = (accounts[a].gone \/ a \in q.ids)
        BY Types DEF Account
      <4>2. [accounts[a] EXCEPT !.gone = @ \/ a \in q.ids] = [accounts[a] EXCEPT !.gone = x]
        BY <4>1, Zenon
      <4>3. [accounts[a] EXCEPT !.gone = x] \in Account
        BY Types DEF Account
      <4> QED BY <4>2, <4>3
    <3>3. accounts' \in [DOMAIN accounts -> Account]
      BY <3>1, <3>2, Zenon
    <3> QED BY <3>3, SetFine
  <2>2. CASE DropSchool(r) \/ DropTenant(r)
    <3>1. \A a \in DOMAIN accounts :
            /\ [accounts[a] EXCEPT !.link = 0, !.excused = TRUE] \in Account
            /\ [accounts[a] EXCEPT !.tenant = 0, !.excused = TRUE] \in Account
      BY <1>0, Types DEF Account
    <3>2. accounts' \in [DOMAIN accounts -> Account]
      <4>1. CASE DropSchool(r)
        BY <3>1, <4>1, Types DEF DropSchool
      <4>2. CASE DropTenant(r)
        BY <3>1, <4>2, Types DEF DropTenant
      <4> QED BY <2>2, <4>1, <4>2
    <3> QED BY <3>2, SetFine
  <2>3. CASE RemoveUser(r)
    <3>1. PICK v : v = [accounts[q.account] EXCEPT !.gone = TRUE]
      OBVIOUS
    <3>2. q.account \in DOMAIN accounts /\ v \in Account
      <4>1. q.account \in DOMAIN accounts
        BY <1>1, <2>3 DEF RemoveUser
      <4> QED BY <3>1, <4>1, RowsTyped DEF Account
    <3>3. accounts' = [accounts EXCEPT ![q.account] = v]
      BY <2>3, <3>1, <3>2 DEF RemoveUser
    <3> QED BY <3>2, <3>3, SetAccount
  <2> QED BY <2>1, <2>2, <2>3
<1>4. CodesFine /\ DOMAIN codes' = DOMAIN codes
  <2>1. CASE codes' = codes
    BY <2>1, SameFine
  <2>2. CASE codes' # codes
    <3>1. codes' = [c \in DOMAIN codes |->
                      [codes[c] EXCEPT !.gone = @ \/ codes[c].school = q.school]]
      BY <2>2 DEF DropUsers, DropSchool, DropTenant, RemoveUser
    <3>2. ASSUME NEW c \in DOMAIN codes
          PROVE  /\ [codes[c] EXCEPT !.gone = @ \/ codes[c].school = q.school] \in Code
                 /\ [codes[c] EXCEPT !.gone = @ \/ codes[c].school = q.school].school
                      = codes[c].school
      <4>1. PICK x \in BOOLEAN : x = (codes[c].gone \/ codes[c].school = q.school)
        BY Types DEF Code
      <4>2. [codes[c] EXCEPT !.gone = @ \/ codes[c].school = q.school] =
            [codes[c] EXCEPT !.gone = x]
        BY <4>1, Zenon
      <4>3. [codes[c] EXCEPT !.gone = x] \in Code
            /\ [codes[c] EXCEPT !.gone = x].school = codes[c].school
        BY Types DEF Code
      <4> QED BY <4>2, <4>3
    <3>3. codes' \in [DOMAIN codes -> Code]
      BY <3>1, <3>2, Zenon
    <3>4. \A c \in DOMAIN codes : codes'[c].school \in DOMAIN schools
      BY <3>1, <3>2, Types
    <3> QED BY <3>3, <3>4, SetFine
  <2> QED BY <2>1, <2>2
<1>5. PICK p : /\ Becomes(r, p)
               /\ p = Idle \/ (q.at # "remove" /\ (p = [q EXCEPT !.at = "dropSchool"]
                                \/ p = [q EXCEPT !.at = "dropTenant"]))
  BY DEF DropUsers, DropSchool, DropTenant, RemoveUser, Moves
<1>6. Knows(p, DOMAIN schools', DOMAIN accounts', DOMAIN codes')
  <2>1. CASE p = Idle
    BY <2>1, IdleKnown
  <2>2. CASE p # Idle
    <3>1. /\ p \in Handler /\ p.at \in {"dropSchool", "dropTenant"} /\ p.school = q.school
          /\ p.account = q.account /\ p.code = q.code /\ p.counts = q.counts
          /\ p.creates = q.creates /\ q.at # "remove"
      BY <1>1, <1>5, <2>2 DEF Handler, Phases
    <3> QED BY <1>0, <1>1, <1>2, <1>3, <1>4, <3>1 DEF Knows
  <2> QED BY <2>1, <2>2
<1> QED BY <1>0, <1>2, <1>3, <1>4, <1>5, <1>6, StepTyped

LEMMA MoveTyped ==
  ASSUME Typed, NEW r \in Requests, NEW w \in {"link", "tenant"}, MoveWrite(r, w)
  PROVE  Typed'
<1> DEFINE q == req[r]
           s == schools[q.school]
<1>1. /\ q.at = "move" /\ UNCHANGED <<schools, codes, started, faults>>
  BY DEF MoveWrite
<1>2. /\ q \in Handler /\ Knows(q, DOMAIN schools, DOMAIN accounts, DOMAIN codes)
      /\ q.school \in DOMAIN schools /\ q.account \in DOMAIN accounts
      /\ q.school \in SchoolId /\ s.deleting \in BOOLEAN
      /\ started' \in 0..MaxStarted /\ faults' \in 0..MaxFaults
  BY <1>1, AtHand, Types DEF School
<1>3. /\ \/ accounts' = [accounts EXCEPT ![q.account].excused = TRUE]
         \/ accounts' = [accounts EXCEPT ![q.account].link = q.school]
         \/ accounts' = [accounts EXCEPT ![q.account].tenant = q.school,
                                         ![q.account].late = s.deleting]
  BY DEF MoveWrite
<1>4. AccountsFine
  <2>1. accounts[q.account].email \in Emails
    BY <1>2, Types DEF Account
  <2> HIDE DEF q, s
  <2> QED BY <1>2, <1>3, <2>1, AccountFine
<1>5. PICK done \in BOOLEAN : done <=> /\ Live(q.account)
                                       /\ IF w = "link" THEN s.row /\ accounts[q.account].link # 0
                                          ELSE s.tenant
  OBVIOUS
<1>6. PICK p : /\ Becomes(r, p)
               /\ \/ p = [q EXCEPT !.todo = q.todo \ {w}, !.failed = ~done] /\ q.todo \ {w} # {}
                  \/ p = [q EXCEPT !.todo = {}, !.at = "profile"]
                  \/ p = Idle
  BY <1>5 DEF MoveWrite
<1>7. Knows(p, DOMAIN schools, DOMAIN accounts, DOMAIN codes)
  <2>1. CASE p = Idle
    BY <2>1, IdleKnown
  <2>2. CASE p = [q EXCEPT !.todo = {}, !.at = "profile"]
    BY <1>1, <1>2, <2>2 DEF Knows, Handler, Phases
  <2>3. CASE p = [q EXCEPT !.todo = q.todo \ {w}, !.failed = ~done] /\ q.todo \ {w} # {}
    <3>1. PICK x \in BOOLEAN : x = ~done
      OBVIOUS
    <3>2. p = [q EXCEPT !.todo = q.todo \ {w}, !.failed = x]
      BY <2>3, <3>1, Zenon
    <3>3. /\ p \in Handler /\ p.at = "move" /\ p.school = q.school
          /\ p.account = q.account /\ p.code = q.code /\ p.counts = q.counts
          /\ p.creates = q.creates /\ p.todo # {}
      <4>1. PICK rest : rest = q.todo \ {w}
        OBVIOUS
      <4>2. rest \in SUBSET {"link", "tenant"} /\ rest # {}
        BY <1>2, <2>3, <4>1 DEF Handler
      <4>3. p = [q EXCEPT !.todo = rest, !.failed = x]
        BY <3>2, <4>1, Zenon
      <4> HIDE DEF q
      <4> QED BY <1>1, <1>2, <4>2, <4>3 DEF Handler
    <3> QED BY <1>1, <1>2, <3>3 DEF Knows
  <2> QED BY <1>6, <2>1, <2>2, <2>3
<1>8. Knows(p, DOMAIN schools', DOMAIN accounts', DOMAIN codes')
  BY <1>1, <1>4, <1>7, KnowsMore DEF AccountsFine
<1> HIDE DEF q
<1> QED BY <1>1, <1>2, <1>4, <1>6, <1>8, SameFine, StepTyped

LEMMA AtOnceEndsTyped ==
  ASSUME Typed, AtOnceStep
  PROVE  Typed'
<1>1. ASSUME NEW s \in 1..MaxSchools, NEW email \in Emails,
             NEW role \in {"student", "school_admin"}, CreateAccount(s, email, role)
      PROVE  Typed'
  <2>1. PICK x : /\ x = NewAccount(email, role, s)
                 /\ accounts' = Append(accounts, [x EXCEPT !.excused = TRUE])
    BY <1>1 DEF CreateAccount
  <2>2. /\ s \in DOMAIN schools /\ Len(accounts) < MaxAccounts /\ AtOnce
        /\ UNCHANGED <<schools, codes, faults>>
    BY <1>1 DEF CreateAccount
  <2>3. [x EXCEPT !.excused = TRUE] \in Account
    <3>1. x \in Account
      BY <2>1, <2>2, NewRows
    <3> QED BY <3>1 DEF Account
  <2>4. AccountsFine
    BY <2>1, <2>2, <2>3, AddAccount
  <2> QED BY <2>2, <2>4, SameFine, AtOnceTyped
<1>2. ASSUME NEW s \in 1..MaxSchools, NEW limit \in Limits, NEW single \in BOOLEAN,
             CreateCode(s, limit, single)
      PROVE  Typed'
  <2>1. /\ s \in DOMAIN schools /\ Len(codes) < MaxCodes /\ AtOnce
        /\ codes' = Append(codes, NewCode(s, limit, single, FALSE))
        /\ UNCHANGED <<schools, accounts, faults>>
    BY <1>2 DEF CreateCode
  <2>2. NewCode(s, limit, single, FALSE) \in Code
    BY <2>1, NewRows
  <2>3. NewCode(s, limit, single, FALSE).school \in DOMAIN schools
    BY <2>1 DEF NewCode
  <2>4. CodesFine
    BY <2>1, <2>2, <2>3, AddCode
  <2> QED BY <2>1, <2>4, SameFine, AtOnceTyped
<1>3. ASSUME NEW c \in 1..MaxCodes, Regenerate(c) PROVE Typed'
  <2>1. /\ c \in DOMAIN codes /\ codes[c].word < MaxWords /\ AtOnce
        /\ UNCHANGED <<schools, accounts, faults>>
    BY <1>3 DEF Regenerate
  <2>2. PICK x \in BOOLEAN : x = (UsersOf(c) # {})
    OBVIOUS
  <2>3. PICK v : v = [codes[c] EXCEPT !.word = @ + 1, !.used = 0, !.admitted = 0, !.free = 0,
                                !.excused = x]
    OBVIOUS
  <2>4. codes' = [codes EXCEPT ![c].word = @ + 1, ![c].used = 0, ![c].admitted = 0,
                               ![c].free = 0, ![c].excused = x]
    BY <1>3, <2>2, Zenon DEF Regenerate
  <2>5. codes' = [codes EXCEPT ![c] = v]
    BY <2>1, <2>3, <2>4, Types
  <2>6. v \in Code /\ v.school = codes[c].school
    <3>1. codes[c] \in Code
      BY <2>1, Types
    <3>2. codes[c].word + 1 \in 0..MaxWords
      BY <2>1, <3>1, Bounds DEF Code
    <3> QED BY <2>3, <3>1, <3>2 DEF Code
  <2>7. CodesFine
    BY <2>1, <2>5, <2>6, SetCode
  <2> QED BY <2>1, <2>7, SameFine, AtOnceTyped
<1>4. ASSUME NEW c \in 1..MaxCodes, NEW limit \in Limits, NEW single \in BOOLEAN,
             NEW active \in BOOLEAN, EditCode(c, limit, single, active)
      PROVE  Typed'
  <2>1. /\ c \in DOMAIN codes /\ AtOnce /\ UNCHANGED <<schools, accounts, faults>>
    BY <1>4 DEF EditCode
  <2>2. PICK x : x = (\/ codes[c].excused \/ UsersOf(c) # {}
                      \/ limit # None /\ codes[c].used > limit)
    OBVIOUS
  <2>3. x \in BOOLEAN /\ codes[c] \in Code
    BY <2>1, <2>2, Types DEF Code
  <2>4. PICK v : v = [codes[c] EXCEPT !.limit = limit, !.single = single, !.active = active,
                                !.excused = x]
    OBVIOUS
  <2>5. codes' = [codes EXCEPT ![c].limit = limit, ![c].single = single, ![c].active = active, ![c].excused = x]
    BY <1>4, <2>2, Zenon DEF EditCode
  <2>6. codes' = [codes EXCEPT ![c] = v]
    BY <2>1, <2>4, <2>5, Types
  <2>7. v \in Code /\ v.school = codes[c].school
    BY <2>3, <2>4 DEF Code
  <2>8. CodesFine
    BY <2>1, <2>6, <2>7, SetCode
  <2> QED BY <2>1, <2>8, SameFine, AtOnceTyped
<1>5. ASSUME NEW s \in 1..MaxSchools, NEW email \in Emails, UpdateSchool(s, email)
      PROVE  Typed'
  BY <1>5, Updated, SameFine, AtOnceTyped
<1> QED BY <1>1, <1>2, <1>3, <1>4, <1>5 DEF AtOnceStep

LEMMA FailTyped ==
  ASSUME Typed, NEW r \in Requests, Fail(r)
  PROVE  Typed'
<1> DEFINE q == req[r]
<1>1. /\ q.at # "idle" /\ Becomes(r, Idle) /\ faults' = faults + 1 /\ faults < MaxFaults
      /\ UNCHANGED started
  BY DEF Fail
<1>2. /\ Knows(q, DOMAIN schools, DOMAIN accounts, DOMAIN codes)
      /\ started' \in 0..MaxStarted /\ faults' \in 0..MaxFaults
  BY <1>1, AtHand, Types, Bounds
<1>3. AccountsFine
  <2>1. CASE q.account = 0
    BY <2>1, SameFine DEF Fail
  <2>2. CASE q.account # 0
    <3>1. q.account \in DOMAIN accounts
      BY <1>2, <2>2 DEF Knows
    <3>2. PICK v : v = [accounts[q.account] EXCEPT !.excused = TRUE]
      OBVIOUS
    <3>3. v \in Account
      BY <3>1, <3>2, RowsTyped DEF Account
    <3>4. accounts' = [accounts EXCEPT ![q.account] = v]
      BY <2>2, <3>1, <3>2 DEF Fail
    <3> QED BY <3>1, <3>3, <3>4, SetAccount
  <2> QED BY <2>1, <2>2
<1>4. CodesFine
  <2>1. CASE q.code = 0
    BY <2>1, SameFine DEF Fail
  <2>2. CASE q.code # 0
    <3>1. q.code \in DOMAIN codes
      BY <1>2, <2>2 DEF Knows
    <3>2. PICK v : v = [codes[q.code] EXCEPT !.excused = TRUE]
      OBVIOUS
    <3>3. v \in Code /\ v.school = codes[q.code].school
      BY <3>1, <3>2, RowsTyped DEF Code
    <3>4. codes' = [codes EXCEPT ![q.code] = v]
      BY <2>2, <3>1, <3>2 DEF Fail
    <3> QED BY <3>1, <3>3, <3>4, SetCode
  <2> QED BY <2>1, <2>2
<1>5. SchoolsFine
  <2>1. CASE ~q.creates
    BY <2>1, SameFine DEF Fail
  <2>2. CASE q.creates
    <3>1. q.school \in DOMAIN schools
      BY <1>1, <2>2, AtHand
    <3>2. schools' = [schools EXCEPT ![q.school].half = TRUE]
      BY <2>2 DEF Fail
    <3> QED BY <3>1, <3>2, FlagFine
  <2> QED BY <2>1, <2>2
<1> QED BY <1>1, <1>2, <1>3, <1>4, <1>5, IdleKnown, StepTyped

\* The school there is to begin with.
LEMMA InitSchool ==
  ASSUME Init
  PROVE  /\ schools \in Seq(School) /\ Len(schools) = 1 /\ DOMAIN schools = {1}
         /\ schools[1] \in School /\ schools[1].offers = 1 /\ schools[1].half
<1>1. PICK d \in Domains :
        schools = <<[domain |-> d, tenant |-> TRUE, row |-> TRUE, grades |-> FALSE,
                     asked |-> FALSE, appointed |-> FALSE, offers |-> 1,
                     deleting |-> FALSE, half |-> TRUE, doubled |-> FALSE]>>
  BY DEF Init
<1> DEFINE v == [domain |-> d, tenant |-> TRUE, row |-> TRUE, grades |-> FALSE,
                 asked |-> FALSE, appointed |-> FALSE, offers |-> 1,
                 deleting |-> FALSE, half |-> TRUE, doubled |-> FALSE]
<1>2. v \in School /\ v.offers = 1 /\ v.half
  BY Bounds DEF School
<1>3. schools = <<v>>
  BY <1>1
<1> HIDE DEF v
<1>4. schools \in Seq(School) /\ Len(schools) = 1 /\ DOMAIN schools = {1} /\ schools[1] = v
  BY <1>2, <1>3
<1> QED BY <1>2, <1>4

\* The one administrator that may be there to begin with.
LEMMA InitAccounts ==
  ASSUME Init
  PROVE  /\ accounts \in Seq(Account) /\ Len(accounts) <= MaxAccounts
         /\ \A a \in DOMAIN accounts : accounts[a].tenant = 1 /\ IsWhole(accounts[a])
<1>1. CASE accounts = <<>>
  BY <1>1, Bounds
<1>2. ASSUME accounts # <<>> PROVE accounts \in Seq(Account) /\ Len(accounts) <= MaxAccounts
        /\ \A a \in DOMAIN accounts : accounts[a].tenant = 1 /\ IsWhole(accounts[a])
  <2>1. MaxAccounts # 0 /\ \E email \in Emails :
          accounts = <<[NewAccount(email, "school_admin", 1) EXCEPT !.link = 1, !.profile = 1]>>
    BY <1>2 DEF Init
  <2>2. PICK email \in Emails :
          accounts = <<[NewAccount(email, "school_admin", 1) EXCEPT !.link = 1, !.profile = 1]>>
    BY <2>1
  <2> DEFINE x == NewAccount(email, "school_admin", 1)
             v == [x EXCEPT !.link = 1, !.profile = 1]
  <2>3. schools[1].deleting \in BOOLEAN
    BY InitSchool DEF School
  <2>4. x \in Account /\ x.tenant = 1
    BY <2>3, Bounds DEF NewAccount, Account, SchoolId
  <2>5. accounts = <<v>>
    BY <2>2
  <2> HIDE DEF x
  <2>6. v \in Account /\ v.tenant = 1 /\ v.link = 1 /\ v.profile = 1
    BY <2>4, Bounds DEF Account, SchoolId
  <2> HIDE DEF v
  <2>7. IsWhole(v) /\ MaxAccounts >= 1
    BY <2>1, <2>6, Bounds DEF IsWhole
  <2>8. accounts \in Seq(Account) /\ Len(accounts) = 1 /\ DOMAIN accounts = {1} /\ accounts[1] = v
    BY <2>5, <2>6
  <2> QED BY <2>6, <2>7, <2>8
<1> QED BY <1>1, <1>2

\* The one code that may be there to begin with.
LEMMA InitCode ==
  ASSUME Init
  PROVE  /\ codes \in Seq(Code) /\ Len(codes) <= MaxCodes
         /\ \A c \in DOMAIN codes :
              /\ codes[c].school = 1 /\ ~codes[c].ofGrade
              /\ codes[c].used = 0 /\ codes[c].admitted = 0 /\ codes[c].free = 0
<1>1. CASE codes = <<>>
  BY <1>1, Bounds
<1>2. ASSUME codes # <<>>
      PROVE  /\ codes \in Seq(Code) /\ Len(codes) <= MaxCodes
             /\ \A c \in DOMAIN codes :
                  /\ codes[c].school = 1 /\ ~codes[c].ofGrade
                  /\ codes[c].used = 0 /\ codes[c].admitted = 0 /\ codes[c].free = 0
  <2>1. MaxCodes # 0 /\ \E limit \in Limits, single \in BOOLEAN :
          codes = <<NewCode(1, limit, single, FALSE)>>
    BY <1>2 DEF Init
  <2>2. PICK limit \in Limits, single \in BOOLEAN :
          codes = <<NewCode(1, limit, single, FALSE)>>
    BY <2>1
  <2> DEFINE v == NewCode(1, limit, single, FALSE)
  <2>3. /\ v \in Code /\ v.school = 1 /\ ~v.ofGrade
        /\ v.used = 0 /\ v.admitted = 0 /\ v.free = 0
    BY Bounds DEF NewCode, Code
  <2>4. codes = <<v>>
    BY <2>2
  <2> HIDE DEF v
  <2>5. codes \in Seq(Code) /\ Len(codes) = 1 /\ DOMAIN codes = {1} /\ codes[1] = v
    BY <2>3, <2>4
  <2>6. MaxCodes >= 1
    BY <2>1, Bounds
  <2> QED BY <2>3, <2>5, <2>6
<1> QED BY <1>1, <1>2

LEMMA InitTyped ==
  ASSUME Init
  PROVE  Typed
<1>1. schools \in Seq(School) /\ Len(schools) <= MaxSchools
  BY InitSchool, Bounds
<1>2. /\ accounts \in Seq(Account) /\ Len(accounts) <= MaxAccounts
      /\ codes \in Seq(Code) /\ Len(codes) <= MaxCodes
      /\ \A c \in DOMAIN codes : codes[c].school \in DOMAIN schools
  BY InitSchool, InitAccounts, InitCode
<1>3. req \in [Requests -> Handler] /\ \A r \in Requests : req[r] = Idle
  BY IdleKnown DEF Init
<1>4. started = 0 /\ faults = 0
  BY DEF Init
<1>5. started \in 0..MaxStarted /\ faults \in 0..MaxFaults
  BY <1>4, Bounds
<1> QED BY <1>1, <1>2, <1>3, <1>5, IdleKnown DEF Typed, TypeOK

-----------------------------------------------------------------------------
(***************************************************************************)
(* What becomes of the handler of a step.                                  *)
(***************************************************************************)
OthersStay(r) == \A o \in Requests : o # r => req'[o] = req[o]

StartsAs(r, at, s, a, c) ==
    /\ req[r] = Idle /\ OthersStay(r)
    /\ req'[r].at = at /\ req'[r].school = s /\ req'[r].account = a /\ req'[r].code = c
    /\ ~req'[r].counts

GoesOnAt(r, at) ==
    /\ OthersStay(r)
    /\ req'[r].at = at
    /\ LET q == req[r] p == req'[r] IN
       /\ p.school = q.school /\ p.account = q.account /\ p.code = q.code
       /\ p.email = q.email /\ p.used = q.used /\ p.counts = q.counts
       /\ p.creates = q.creates

\* With the structure it has to make.
KeepsOffers(r) == req'[r].offers = req[r].offers

Ends(r) == OthersStay(r) /\ req'[r] = Idle

LEMMA StartsDigest ==
  ASSUME Typed, NEW r \in Requests, NEW s, NEW a, NEW c, NEW email
  PROVE  /\ RegisterValidate(r, c, email) =>
              StartsAs(r, "reread", 0, 0, c) /\ ~req'[r].creates
         /\ InitStructure(r, s) =>
              /\ StartsAs(r, "grade", s, 0, 0) /\ ~req'[r].creates /\ req'[r].email = None
              /\ req'[r].offers = 1
         /\ UpdateSchoolAppoint(r, s, email) \/ CreateAdmin(r, s, email) =>
              StartsAs(r, "signup", s, 0, 0) /\ ~req'[r].creates
         /\ DeleteSchool(r, s) =>
              /\ StartsAs(r, "dropUsers", s, 0, 0) /\ ~req'[r].creates
              /\ req'[r].ids = {x \in DOMAIN accounts : Live(x) /\ accounts[x].tenant = s}
         /\ RemoveAdmin(r, a) => StartsAs(r, "remove", 0, a, 0) /\ ~req'[r].creates
         /\ MoveAdmin(r, a, s) =>
              /\ StartsAs(r, "move", s, a, 0) /\ ~req'[r].creates
              /\ req'[r].todo = {"link", "tenant"} /\ ~req'[r].failed
<1>1. ASSUME NEW q, Starts(r, q)
      PROVE  /\ req'[r] = q /\ req[r] = Idle /\ OthersStay(r)
  BY <1>1, StartsGoes DEF OthersStay
<1>2. ASSUME RegisterValidate(r, c, email)
      PROVE  StartsAs(r, "reread", 0, 0, c) /\ ~req'[r].creates
  <2> DEFINE q == [Idle EXCEPT !.at = "reread", !.code = c, !.email = email,
                               !.word = codes[c].word]
  <2>1. Starts(r, q)
    BY <1>2 DEF RegisterValidate
  <2>2. /\ q.at = "reread" /\ q.school = 0 /\ q.account = 0 /\ q.code = c
        /\ ~q.counts /\ ~q.creates
    BY DEF Idle
  <2> HIDE DEF q
  <2> QED BY <1>1, <2>1, <2>2 DEF StartsAs
<1>3. ASSUME InitStructure(r, s)
      PROVE  /\ StartsAs(r, "grade", s, 0, 0) /\ ~req'[r].creates /\ req'[r].email = None
             /\ req'[r].offers = 1
  <2> DEFINE q == [Idle EXCEPT !.at = "grade", !.school = s, !.offers = 1, !.single = TRUE]
  <2>1. Starts(r, q)
    BY <1>3 DEF InitStructure
  <2>2. /\ q.at = "grade" /\ q.school = s /\ q.account = 0 /\ q.code = 0
        /\ ~q.counts /\ ~q.creates /\ q.email = None /\ q.offers = 1
    BY DEF Idle
  <2> HIDE DEF q
  <2> QED BY <1>1, <2>1, <2>2 DEF StartsAs
<1>4. ASSUME UpdateSchoolAppoint(r, s, email) \/ CreateAdmin(r, s, email)
      PROVE  StartsAs(r, "signup", s, 0, 0) /\ ~req'[r].creates
  <2> DEFINE q == [Idle EXCEPT !.at = "signup", !.school = s, !.email = email]
  <2>1. Starts(r, q)
    BY <1>4 DEF UpdateSchoolAppoint, CreateAdmin
  <2>2. /\ q.at = "signup" /\ q.school = s /\ q.account = 0 /\ q.code = 0
        /\ ~q.counts /\ ~q.creates
    BY DEF Idle
  <2> HIDE DEF q
  <2> QED BY <1>1, <2>1, <2>2 DEF StartsAs
<1>5. ASSUME DeleteSchool(r, s)
      PROVE  /\ StartsAs(r, "dropUsers", s, 0, 0) /\ ~req'[r].creates
             /\ req'[r].ids = {x \in DOMAIN accounts : Live(x) /\ accounts[x].tenant = s}
  <2>1. PICK ids : ids = {x \in DOMAIN accounts : Live(x) /\ accounts[x].tenant = s}
    OBVIOUS
  <2> DEFINE q == [Idle EXCEPT !.at = "dropUsers", !.school = s, !.ids = ids]
  <2>2. Starts(r, q)
    BY <1>5, <2>1 DEF DeleteSchool
  <2>3. /\ q.at = "dropUsers" /\ q.school = s /\ q.account = 0 /\ q.code = 0
        /\ ~q.counts /\ ~q.creates /\ q.ids = ids
    BY DEF Idle
  <2> HIDE DEF q
  <2> QED BY <1>1, <2>1, <2>2, <2>3 DEF StartsAs
<1>6. ASSUME RemoveAdmin(r, a)
      PROVE  StartsAs(r, "remove", 0, a, 0) /\ ~req'[r].creates
  <2> DEFINE q == [Idle EXCEPT !.at = "remove", !.account = a]
  <2>1. Starts(r, q)
    BY <1>6 DEF RemoveAdmin
  <2>2. /\ q.at = "remove" /\ q.school = 0 /\ q.account = a /\ q.code = 0
        /\ ~q.counts /\ ~q.creates
    BY DEF Idle
  <2> HIDE DEF q
  <2> QED BY <1>1, <2>1, <2>2 DEF StartsAs
<1>7. ASSUME MoveAdmin(r, a, s)
      PROVE  /\ StartsAs(r, "move", s, a, 0) /\ ~req'[r].creates
             /\ req'[r].todo = {"link", "tenant"} /\ ~req'[r].failed
  <2> DEFINE q == [Idle EXCEPT !.at = "move", !.account = a, !.school = s,
                               !.todo = {"link", "tenant"}]
  <2>1. Starts(r, q)
    BY <1>7 DEF MoveAdmin
  <2>2. /\ q.at = "move" /\ q.school = s /\ q.account = a /\ q.code = 0
        /\ ~q.counts /\ ~q.creates /\ q.todo = {"link", "tenant"} /\ ~q.failed
    BY DEF Idle
  <2> HIDE DEF q
  <2> QED BY <1>1, <2>1, <2>2 DEF StartsAs
<1> QED BY <1>2, <1>3, <1>4, <1>5, <1>6, <1>7

LEMMA UpdateDigest ==
  ASSUME Typed, NEW r \in Requests, NEW s, NEW email, UpdateSchoolAdmin(r, s, email)
  PROVE  \E a \in AdminsOf(s) :
            /\ accounts' = [accounts EXCEPT ![a].email = email,
                                            ![a].excused = @ \/ HandlersOf(a) # {}]
            /\ StartsAs(r, "profile", s, a, 0) /\ ~req'[r].creates
<1>1. PICK a \in AdminsOf(s) :
        /\ accounts' = [accounts EXCEPT ![a].email = email,
                                        ![a].excused = @ \/ HandlersOf(a) # {}]
        /\ Starts(r, [Idle EXCEPT !.at = "profile", !.school = s, !.account = a])
  BY DEF UpdateSchoolAdmin
<1> DEFINE q == [Idle EXCEPT !.at = "profile", !.school = s, !.account = a]
<1>2. /\ q.at = "profile" /\ q.school = s /\ q.account = a /\ q.code = 0
      /\ ~q.counts /\ ~q.creates
  BY DEF Idle
<1>3. Starts(r, q)
  BY <1>1
<1> HIDE DEF q
<1>4. StartsAs(r, "profile", s, a, 0) /\ ~req'[r].creates
  BY <1>2, <1>3, StartsGoes DEF StartsAs, OthersStay
<1> QED BY <1>1, <1>4

\* The same of a handler under way.
LEMMA GoesDigest ==
  ASSUME Typed, NEW r \in Requests
  PROVE  /\ Becomes(r, Idle) => Ends(r)
         /\ \A at : Becomes(r, [req[r] EXCEPT !.at = at]) => GoesOnAt(r, at) /\ KeepsOffers(r)
<1>1. req \in [Requests -> Handler] /\ req[r] \in Handler
  BY Types
<1>2. ASSUME Becomes(r, Idle) PROVE Ends(r)
  BY <1>1, <1>2 DEF Becomes, Ends, OthersStay
<1>3. ASSUME NEW at, Becomes(r, [req[r] EXCEPT !.at = at])
      PROVE  GoesOnAt(r, at) /\ KeepsOffers(r)
  BY <1>1, <1>3 DEF Becomes, GoesOnAt, KeepsOffers, OthersStay, Handler
<1> QED BY <1>2, <1>3

\* A code is made for a section: the grade may be named again, or was not.
CodeEnds(r) ==
    LET q == req[r] s == schools[q.school] IN
    \/ /\ s.row /\ s.grades /\ q.offers > 1
       /\ GoesOnAt(r, "grade") /\ req'[r].offers = q.offers - 1
    \/ /\ s.row /\ s.grades /\ ~(q.offers > 1) /\ q.email # None
       /\ GoesOnAt(r, "signup")
    \/ /\ s.row /\ s.grades /\ ~(q.offers > 1) /\ q.email = None
       /\ Ends(r)
    \/ ~(s.row /\ s.grades) /\ Ends(r)

LEMMA StepDigest ==
  ASSUME Typed, NEW r \in Requests
  PROVE  LET q == req[r] s == schools[q.school] IN
         /\ RegisterCount(r) => q.at = "count" /\ Ends(r)
         /\ SchoolRow(r) => q.at = "row" /\ GoesOnAt(r, "grade") /\ KeepsOffers(r)
         /\ CreateGrade(r) => /\ q.at = "grade"
                              /\ IF s.row THEN GoesOnAt(r, "code") /\ KeepsOffers(r)
                                 ELSE Ends(r)
         /\ CreateGradeCode(r) => q.at = "code" /\ CodeEnds(r)
         /\ Link(r) => /\ q.at = "link"
                       /\ IF Live(q.account) /\ s.row THEN GoesOnAt(r, "profile") ELSE Ends(r)
         /\ WriteProfile(r) =>
              /\ q.at = "profile"
              /\ IF Live(q.account) /\ q.counts THEN GoesOnAt(r, "count") ELSE Ends(r)
         /\ DropUsers(r) => q.at = "dropUsers" /\ GoesOnAt(r, "dropSchool")
         /\ DropSchool(r) => q.at = "dropSchool" /\ GoesOnAt(r, "dropTenant")
         /\ DropTenant(r) => q.at = "dropTenant" /\ Ends(r)
         /\ RemoveUser(r) => q.at = "remove" /\ Ends(r)
         /\ Fail(r) => q.at # "idle" /\ Ends(r)
<1> DEFINE q == req[r]
           s == schools[q.school]
<1>1. RegisterCount(r) \/ DropTenant(r) \/ RemoveUser(r) \/ Fail(r) => Ends(r)
  BY GoesDigest DEF RegisterCount, DropTenant, RemoveUser, Fail
<1>2. SchoolRow(r) => q.at = "row" /\ GoesOnAt(r, "grade") /\ KeepsOffers(r)
  BY GoesDigest DEF SchoolRow, Moves
<1>3. CreateGrade(r) => /\ q.at = "grade"
                        /\ IF s.row THEN GoesOnAt(r, "code") /\ KeepsOffers(r)
                           ELSE Ends(r)
  BY GoesDigest DEF CreateGrade
<1>4. CreateGradeCode(r) => q.at = "code" /\ CodeEnds(r)
  <2> SUFFICES ASSUME CreateGradeCode(r) PROVE q.at = "code" /\ CodeEnds(r)
    OBVIOUS
  <2>1. q.at = "code"
    BY DEF CreateGradeCode
  <2>2. CASE s.row /\ s.grades /\ q.offers > 1
    <3>1. PICK n : n = q.offers - 1
      OBVIOUS
    <3>2. Becomes(r, [q EXCEPT !.at = "grade", !.offers = n])
      <4>1. q \in Handler
        BY Types
      <4>2. Becomes(r, [q EXCEPT !.at = "grade", !.offers = @ - 1])
        BY <2>2 DEF CreateGradeCode
      <4> QED BY <3>1, <4>1, <4>2 DEF Handler
    <3>3. req \in [Requests -> Handler]
      BY Types
    <3>4. GoesOnAt(r, "grade") /\ req'[r].offers = n
      BY <3>2, <3>3 DEF Becomes, GoesOnAt, OthersStay, Handler
    <3> QED BY <2>1, <2>2, <3>1, <3>4 DEF CodeEnds
  <2>3. CASE s.row /\ s.grades /\ ~(q.offers > 1)
    BY <2>3, GoesDigest DEF CreateGradeCode, CodeEnds
  <2>4. CASE ~(s.row /\ s.grades)
    BY <2>4, GoesDigest DEF CreateGradeCode, CodeEnds
  <2> QED BY <2>1, <2>2, <2>3, <2>4
<1>5. Link(r) => /\ q.at = "link"
                 /\ IF Live(q.account) /\ s.row THEN GoesOnAt(r, "profile") ELSE Ends(r)
  BY GoesDigest DEF Link
<1>6. WriteProfile(r) =>
        /\ q.at = "profile"
        /\ IF Live(q.account) /\ q.counts THEN GoesOnAt(r, "count") ELSE Ends(r)
  BY GoesDigest DEF WriteProfile
<1>7. /\ DropUsers(r) => q.at = "dropUsers" /\ GoesOnAt(r, "dropSchool")
      /\ DropSchool(r) => q.at = "dropSchool" /\ GoesOnAt(r, "dropTenant")
  BY GoesDigest DEF DropUsers, DropSchool, Moves
<1>8. /\ RegisterCount(r) => q.at = "count"
      /\ DropTenant(r) => q.at = "dropTenant"
      /\ RemoveUser(r) => q.at = "remove"
      /\ Fail(r) => q.at # "idle"
  BY DEF RegisterCount, DropTenant, RemoveUser, Fail
<1> QED BY <1>1, <1>2, <1>3, <1>4, <1>5, <1>6, <1>7, <1>8

\* The account a sign-up stores, and what its refusal leaves.
SignedUp(r, email, role, s) ==
    /\ accounts' = Append(accounts, NewAccount(email, role, s))
    /\ Len(accounts) < MaxAccounts
    /\ schools[s].tenant
    /\ LET p == req'[r] q == req[r] IN
       /\ p.at = "link" /\ p.account = Len(accounts) + 1
       /\ p.school = q.school /\ p.code = q.code /\ p.email = q.email /\ p.used = q.used
       /\ p.counts = q.counts /\ p.creates = q.creates
    /\ UNCHANGED schools

LEMMA SignupDigest ==
  ASSUME Typed, NEW r \in Requests, Signup(r)
  PROVE  LET q == req[r] IN
         /\ q.at = "signup" /\ OthersStay(r) /\ UNCHANGED codes /\ q.email \in Emails
         /\ q.school \in DOMAIN schools /\ q.account = 0
         /\ \/ \E role \in {"student", "school_admin"} : SignedUp(r, q.email, role, q.school)
            \/ /\ Ends(r) /\ UNCHANGED accounts
               /\ schools' = [schools EXCEPT ![q.school].half = @ \/ q.creates]
<1> DEFINE q == req[r]
           n == [q EXCEPT !.at = "link", !.account = Len(accounts) + 1]
<1>1. q.at = "signup" /\ UNCHANGED codes
  BY DEF Signup
<1>2. /\ q \in Handler /\ q.email \in Emails /\ q.school \in DOMAIN schools
      /\ q.account = 0 /\ req \in [Requests -> Handler]
  BY <1>1, AtHand, Types DEF Knows
<1>3. CASE /\ Becomes(r, Idle) /\ UNCHANGED accounts
           /\ schools' = [schools EXCEPT ![q.school].half = @ \/ q.creates]
  <2>1. Ends(r)
    BY <1>3, GoesDigest
  <2> QED BY <1>1, <1>2, <1>3, <2>1 DEF Ends
<1>4. CASE ~(/\ Becomes(r, Idle) /\ UNCHANGED accounts
             /\ schools' = [schools EXCEPT ![q.school].half = @ \/ q.creates])
  <2>1. PICK role \in {"student", "school_admin"} :
          /\ Len(accounts) < MaxAccounts /\ UNCHANGED schools /\ schools[q.school].tenant
          /\ accounts' = Append(accounts, NewAccount(q.email, role, q.school))
          /\ Becomes(r, n)
    BY <1>4 DEF Signup
  <2>2. /\ n.at = "link" /\ n.account = Len(accounts) + 1
        /\ n.school = q.school /\ n.code = q.code /\ n.email = q.email /\ n.used = q.used
        /\ n.counts = q.counts /\ n.creates = q.creates
    BY <1>2 DEF Handler
  <2> HIDE DEF n
  <2>3. req'[r] = n /\ OthersStay(r)
    BY <2>1, Goes DEF OthersStay
  <2>4. SignedUp(r, q.email, role, q.school)
    BY <2>1, <2>2, <2>3 DEF SignedUp
  <2> QED BY <1>1, <1>2, <2>3, <2>4
<1> QED BY <1>3, <1>4

\* The account that is signed up.
LEMMA SignedUpRow ==
  ASSUME Typed, NEW r \in Requests, NEW email \in Emails,
         NEW role \in {"student", "school_admin"}, NEW s \in DOMAIN schools,
         SignedUp(r, email, role, s)
  PROVE  LET n == Len(accounts) + 1 IN
         /\ DOMAIN accounts' = DOMAIN accounts \cup {n} /\ n \notin DOMAIN accounts
         /\ \A a \in DOMAIN accounts : accounts'[a] = accounts[a]
         /\ accounts'[n].tenant = s /\ accounts'[n].link = 0 /\ accounts'[n].profile = 0
         /\ ~accounts'[n].gone /\ ~accounts'[n].excused
         /\ accounts'[n].late = schools[s].deleting
<1>1. NewAccount(email, role, s) \in Account
  BY NewRows
<1>2. /\ DOMAIN accounts' = DOMAIN accounts \cup {Len(accounts) + 1}
      /\ Len(accounts) + 1 \notin DOMAIN accounts
      /\ \A a \in DOMAIN accounts : accounts'[a] = accounts[a]
      /\ accounts'[Len(accounts) + 1] = NewAccount(email, role, s)
  BY <1>1, AddAccount DEF SignedUp
<1> QED BY <1>2 DEF NewAccount

LEMMA RereadDigest ==
  ASSUME Typed, NEW r \in Requests, RegisterReread(r)
  PROVE  /\ req[r].at = "reread" /\ req[r].code \in DOMAIN codes /\ OthersStay(r)
         /\ LET p == req'[r]
                c == codes[req[r].code]
            IN \/ Ends(r)
               \/ /\ p.at = "signup" /\ p.school = c.school /\ p.used = c.used
                  /\ p.counts = Counts(c)
                  /\ p.account = 0 /\ p.code = req[r].code /\ ~p.creates
<1> DEFINE q == req[r]
           c == codes[q.code]
           n == [q EXCEPT !.at = "signup", !.school = c.school, !.used = c.used,
                          !.counts = Counts(c)]
<1>1. /\ q.at = "reread" /\ (Becomes(r, Idle) \/ Becomes(r, n))
  BY DEF RegisterReread
<1>2. /\ q \in Handler /\ q.code \in DOMAIN codes /\ q.account = 0 /\ ~q.creates
      /\ req \in [Requests -> Handler]
  BY <1>1, Types DEF Knows
<1>3. CASE Becomes(r, Idle)
  BY <1>1, <1>2, <1>3, GoesDigest DEF Ends
<1>4. CASE Becomes(r, n)
  <2>1. /\ n.at = "signup" /\ n.school = c.school /\ n.used = c.used
        /\ n.counts = Counts(c)
        /\ n.account = 0 /\ n.code = q.code /\ ~n.creates
    BY <1>2 DEF Handler
  <2> HIDE DEF n
  <2>2. req'[r] = n /\ OthersStay(r)
    BY <1>4, Goes DEF OthersStay
  <2> QED BY <1>1, <1>2, <2>1, <2>2
<1> QED BY <1>1, <1>3, <1>4

\* What a write of a move does to its account and leaves to do.
Written(q, w) ==
    Live(q.account) /\ IF w = "link" THEN schools[q.school].row /\ accounts[q.account].link # 0
                       ELSE schools[q.school].tenant

LEMMA MoveDigest ==
  ASSUME Typed, NEW r \in Requests, NEW w \in {"link", "tenant"}, MoveWrite(r, w)
  PROVE  LET q == req[r] p == req'[r] IN
         /\ q.at = "move" /\ w \in q.todo /\ OthersStay(r) /\ UNCHANGED <<schools, codes>>
         /\ q.account \in DOMAIN accounts /\ q.school \in DOMAIN schools
         /\ q.code = 0 /\ ~q.creates
         /\ \/ p = Idle /\ (~Written(q, w) \/ q.failed)
            \/ /\ p.school = q.school /\ p.account = q.account /\ p.code = 0 /\ ~p.creates
               /\ \/ /\ p.at = "move" /\ p.todo = q.todo \ {w} /\ p.todo # {}
                     /\ p.failed <=> ~Written(q, w)
                  \/ /\ p.at = "profile" /\ q.todo \ {w} = {} /\ Written(q, w) /\ ~q.failed
                     /\ ~p.counts
<1> DEFINE q == req[r]
           go == [q EXCEPT !.todo = q.todo \ {w}, !.failed = ~Written(q, w)]
           end == [q EXCEPT !.todo = {}, !.at = "profile"]
<1>1. /\ q.at = "move" /\ w \in q.todo /\ UNCHANGED <<schools, codes>>
  BY DEF MoveWrite
<1>2. /\ q \in Handler /\ q.account \in DOMAIN accounts /\ q.school \in DOMAIN schools
      /\ q.code = 0 /\ ~q.creates /\ ~q.counts
  BY <1>1, AtHand, Types DEF Knows
<1>4. \/ Becomes(r, go) /\ q.todo \ {w} # {}
      \/ Becomes(r, end) /\ q.todo \ {w} = {} /\ Written(q, w) /\ ~q.failed
      \/ Becomes(r, Idle) /\ (~Written(q, w) \/ q.failed)
  BY DEF MoveWrite, Written
<1>5. /\ go.at = "move" /\ go.todo = q.todo \ {w} /\ go.failed = ~Written(q, w)
      /\ go.school = q.school /\ go.account = q.account /\ go.code = 0 /\ ~go.creates
  BY <1>1, <1>2 DEF Handler
<1>6. /\ end.at = "profile" /\ end.school = q.school /\ end.account = q.account
      /\ end.code = 0 /\ ~end.creates /\ ~end.counts
  BY <1>2 DEF Handler
<1> HIDE DEF go, end
<1>7. OthersStay(r) /\ \A p : Becomes(r, p) => req'[r] = p
  BY <1>4, Goes DEF OthersStay
<1> QED BY <1>1, <1>2, <1>4, <1>5, <1>6, <1>7

LEMMA MoveRow ==
  ASSUME Typed, NEW r \in Requests, NEW w \in {"link", "tenant"}, MoveWrite(r, w)
  PROVE  LET q == req[r] IN
         accounts' =
           IF ~Written(q, w) THEN [accounts EXCEPT ![q.account].excused = TRUE]
           ELSE IF w = "link" THEN [accounts EXCEPT ![q.account].link = q.school]
           ELSE [accounts EXCEPT ![q.account].tenant = q.school,
                                 ![q.account].late = schools[q.school].deleting]
BY DEF MoveWrite, Written

-----------------------------------------------------------------------------
(***************************************************************************)
(* Deleting a school leaves nobody in it.                                  *)
(***************************************************************************)
Dropping == {"dropUsers", "dropSchool", "dropTenant"}

\* Schools go on being deleted, and nobody comes to one who is not late.
DeletingKept ==
    \A s \in DOMAIN schools : schools[s].deleting => schools'[s].deleting

ComesWell(a) ==
    \/ accounts'[a].gone \/ accounts'[a].late
    \/ /\ a \in DOMAIN accounts
       /\ ~accounts[a].gone /\ ~accounts[a].late
       /\ accounts'[a].tenant = accounts[a].tenant
    \/ /\ accounts'[a].tenant \in DOMAIN schools
       /\ ~schools[accounts'[a].tenant].deleting

LEMMA EmptyKeeps ==
  ASSUME Typed, EmptyInv, DeletingKept,
         \A a \in DOMAIN accounts' : ComesWell(a),
         NEW r \in Requests, OthersStay(r),
         Emptying(req'[r], schools', accounts')
  PROVE  EmptyInv'
<1>1. ASSUME NEW o \in Requests PROVE Emptying(req'[o], schools', accounts')
  <2>1. CASE o = r
    BY <2>1
  <2>2. CASE o # r
    <3>1. req'[o] = req[o]
      BY <2>2 DEF OthersStay
    <3>2. CASE req[o].at \in Dropping
      <4>1. req[o].school \in DOMAIN schools
        BY <3>2, AtHand DEF Dropping
      <4>2. Emptying(req[o], schools, accounts)
        BY DEF EmptyInv
      <4> QED BY <3>1, <3>2, <4>1, <4>2 DEF Emptying, DeletingKept, ComesWell, Dropping
    <3>3. CASE req[o].at \notin Dropping
      BY <3>1, <3>3 DEF Emptying, Dropping
    <3> QED BY <3>2, <3>3
  <2> QED BY <2>1, <2>2
<1>2. 0 \notin DOMAIN schools
  BY Types
<1>3. DeletedSchoolsEmpty'
  BY <1>2 DEF EmptyInv, DeletedSchoolsEmpty, Live, ComesWell
<1> QED BY <1>1, <1>3 DEF EmptyInv

\* The accounts that are there stay in their schools.
LEMMA StayWell ==
  ASSUME Typed, DOMAIN accounts' = DOMAIN accounts,
         \A a \in DOMAIN accounts :
            /\ accounts'[a].tenant = accounts[a].tenant
            /\ accounts'[a].late = accounts[a].late
            /\ accounts[a].gone => accounts'[a].gone
  PROVE  \A a \in DOMAIN accounts' : ComesWell(a)
BY Types DEF ComesWell, Account

LEMMA EmptyAtOnce ==
  ASSUME Typed, EmptyInv, DeletingKept, UNCHANGED req,
         \A a \in DOMAIN accounts' : ComesWell(a)
  PROVE  EmptyInv'
<1>1. ASSUME NEW o \in Requests PROVE Emptying(req'[o], schools', accounts')
  <2>1. CASE req[o].at \in Dropping
    <3>1. req[o].school \in DOMAIN schools
      BY <2>1, AtHand DEF Dropping
    <3>2. Emptying(req[o], schools, accounts)
      BY DEF EmptyInv
    <3> QED BY <2>1, <3>1, <3>2 DEF Emptying, DeletingKept, ComesWell, Dropping
  <2>2. CASE req[o].at \notin Dropping
    BY <2>2 DEF Emptying, Dropping
  <2> QED BY <2>1, <2>2
<1>2. 0 \notin DOMAIN schools
  BY Types
<1>3. DeletedSchoolsEmpty'
  BY <1>2 DEF EmptyInv, DeletedSchoolsEmpty, Live, ComesWell
<1> QED BY <1>1, <1>3 DEF EmptyInv

\* A change of another flag.
LEMMA FlagKept ==
  ASSUME Typed, NEW s, NEW x,
         \/ schools' = [schools EXCEPT ![s].half = x]
         \/ schools' = [schools EXCEPT ![s].appointed = x]
         \/ schools' = [schools EXCEPT ![s].doubled = x]
         \/ schools' = [schools EXCEPT ![s].row = x]
         \/ schools' = [schools EXCEPT ![s].grades = x]
         \/ schools' = [schools EXCEPT ![s].tenant = x]
         \/ schools' = [schools EXCEPT ![s].row = x, ![s].grades = x]
  PROVE  DeletingKept
<1>1. CASE s \notin DOMAIN schools
  BY <1>1, Types DEF DeletingKept
<1>2. CASE s \in DOMAIN schools
  <2>1. PICK v : /\ \/ v = [schools[s] EXCEPT !.half = x]
                    \/ v = [schools[s] EXCEPT !.appointed = x]
                    \/ v = [schools[s] EXCEPT !.doubled = x]
                    \/ v = [schools[s] EXCEPT !.row = x]
                    \/ v = [schools[s] EXCEPT !.grades = x]
                    \/ v = [schools[s] EXCEPT !.tenant = x]
                    \/ v = [schools[s] EXCEPT !.row = x, !.grades = x]
                 /\ schools' = [schools EXCEPT ![s] = v]
    OBVIOUS
  <2>2. v.deleting = schools[s].deleting
    BY <1>2, <2>1, Types DEF School
  <2> QED BY <1>2, <2>1, <2>2, SetSchool DEF DeletingKept
<1> QED BY <1>1, <1>2

\* A step of registration, of school creation, or of creating an administrator.
LEMMA QuietEmpty ==
  ASSUME Typed, EmptyInv, NEW r \in Requests,
         \/ \E c \in 1..MaxCodes, email \in Emails : RegisterValidate(r, c, email)
         \/ RegisterReread(r) \/ RegisterCount(r)
         \/ \E d : CreatesSchool(r, d)
         \/ \E s \in 1..MaxSchools : InitStructure(r, s)
         \/ \E s \in 1..MaxSchools, email \in Emails :
              UpdateSchoolAppoint(r, s, email) \/ CreateAdmin(r, s, email)
         \/ SchoolRow(r) \/ CreateGrade(r) \/ CreateGradeCode(r)
  PROVE  EmptyInv'
<1>1. accounts' = accounts
  BY DEF RegisterValidate, RegisterReread, RegisterCount, CreatesSchool, CreateSchool, InitStructure,
         UpdateSchoolAppoint, CreateAdmin, SchoolRow, CreateGrade, CreateGradeCode
<1>2. \A a \in DOMAIN accounts' : ComesWell(a)
  BY <1>1, StayWell
<1>3. DeletingKept
  <2>1. CASE schools' = schools
    BY <2>1 DEF DeletingKept
  <2>2. CASE \E d : CreatesSchool(r, d)
    BY <2>2, Created DEF DeletingKept
  <2>3. CASE \E s \in 1..MaxSchools : InitStructure(r, s)
    BY <2>3, FlagKept DEF InitStructure
  <2>4. CASE \E s \in 1..MaxSchools, email \in Emails :
               UpdateSchoolAppoint(r, s, email) \/ CreateAdmin(r, s, email)
    BY <2>4, FlagKept DEF UpdateSchoolAppoint, CreateAdmin, Resolves
  <2>5. CASE SchoolRow(r) \/ CreateGrade(r) \/ CreateGradeCode(r)
    BY <2>1, <2>5, FlagKept DEF SchoolRow, CreateGrade, CreateGradeCode
  <2>6. CASE \/ \E c \in 1..MaxCodes, email \in Emails : RegisterValidate(r, c, email)
             \/ RegisterReread(r) \/ RegisterCount(r)
    BY <2>1, <2>6 DEF RegisterValidate, RegisterReread, RegisterCount
  <2> QED BY <2>2, <2>3, <2>4, <2>5, <2>6
<1>4. req'[r].at \notin Dropping /\ OthersStay(r)
  <2>1. CASE \/ \E c \in 1..MaxCodes, email \in Emails : RegisterValidate(r, c, email)
             \/ \E s \in 1..MaxSchools : InitStructure(r, s)
             \/ \E s \in 1..MaxSchools, email \in Emails :
                  UpdateSchoolAppoint(r, s, email) \/ CreateAdmin(r, s, email)
    BY <2>1, StartsDigest DEF StartsAs, Dropping
  <2>2. CASE \E d : CreatesSchool(r, d)
    BY <2>2, Created DEF Dropping, OthersStay
  <2>3. CASE RegisterReread(r)
    BY <2>3, RereadDigest DEF Ends, Idle, Dropping
  <2>4. CASE RegisterCount(r) \/ SchoolRow(r) \/ CreateGrade(r) \/ CreateGradeCode(r)
    BY <2>4, StepDigest DEF CodeEnds, GoesOnAt, Ends, Idle, Dropping
  <2> QED BY <2>1, <2>2, <2>3, <2>4
<1>5. Emptying(req'[r], schools', accounts')
  BY <1>4 DEF Emptying, Dropping
<1> QED BY <1>2, <1>3, <1>4, <1>5, EmptyKeeps

LEMMA SignupEmpty ==
  ASSUME Typed, EmptyInv, NEW r \in Requests, Signup(r) \/ Link(r) \/ WriteProfile(r)
  PROVE  EmptyInv'
<1> DEFINE q == req[r]
<1>1. q.at \in {"signup", "link", "profile"} /\ req'[r].at \notin Dropping /\ OthersStay(r)
  <2>1. CASE Signup(r)
    <3>1. q.at = "signup" /\ OthersStay(r)
      BY <2>1, SignupDigest
    <3>2. req'[r].at = "link" \/ req'[r] = Idle
      BY <2>1, SignupDigest DEF Ends, SignedUp
    <3> QED BY <3>1, <3>2 DEF Idle, Dropping
  <2>2. CASE Link(r) \/ WriteProfile(r)
    BY <2>2, StepDigest DEF GoesOnAt, Ends, Idle, Dropping
  <2> QED BY <2>1, <2>2
<1>2. Emptying(req'[r], schools', accounts')
  BY <1>1 DEF Emptying, Dropping
<1>3. DeletingKept
  <2>1. CASE schools' = schools
    BY <2>1 DEF DeletingKept
  <2>2. CASE schools' # schools
    <3>1. \/ schools' = [schools EXCEPT ![q.school].half = @ \/ q.creates]
          \/ schools' = [schools EXCEPT ![q.school].appointed = @ \/ q.creates]
      BY <2>2 DEF Signup, Link, WriteProfile
    <3> QED BY <3>1, FlagKept
  <2> QED BY <2>1, <2>2
<1>4. \A a \in DOMAIN accounts' : ComesWell(a)
  <2>1. CASE Signup(r)
    <3>1. CASE accounts' = accounts
      BY <3>1, StayWell
    <3>2. CASE accounts' # accounts
      <4>1. PICK role \in {"student", "school_admin"} :
              SignedUp(r, q.email, role, q.school)
        BY <2>1, <3>2, SignupDigest
      <4>2. q.school \in DOMAIN schools /\ q.email \in Emails
        BY <2>1, SignupDigest
      <4>3. \A a \in DOMAIN accounts : ~accounts[a].late \/ accounts[a].late
        OBVIOUS
      <4> QED BY <4>1, <4>2, SignedUpRow DEF ComesWell
    <3> QED BY <3>1, <3>2
  <2>2. CASE Link(r) \/ WriteProfile(r)
    <3>1. q.account \in DOMAIN accounts
      BY <2>2, AtHand DEF Link, WriteProfile
    <3>2. PICK v : /\ \/ v = accounts[q.account]
                      \/ v = [accounts[q.account] EXCEPT !.link = q.school]
                      \/ v = [accounts[q.account] EXCEPT !.profile = q.school]
                      \/ v = [accounts[q.account] EXCEPT !.excused = TRUE]
                   /\ accounts' = [accounts EXCEPT ![q.account] = v]
      <4>1. \/ accounts' = accounts
            \/ accounts' = [accounts EXCEPT ![q.account].link = q.school]
            \/ accounts' = [accounts EXCEPT ![q.account].profile = q.school]
            \/ accounts' = [accounts EXCEPT ![q.account].excused = TRUE]
        BY <2>2 DEF Link, WriteProfile
      <4>2. accounts = [accounts EXCEPT ![q.account] = accounts[q.account]]
        BY <3>1, Types
      <4> QED BY <3>1, <4>1, <4>2
    <3>3. accounts[q.account] \in Account
      BY <3>1, Types
    <3>4. /\ v.tenant = accounts[q.account].tenant /\ v.late = accounts[q.account].late
          /\ v.gone = accounts[q.account].gone
      BY <3>2, <3>3 DEF Account
    <3> QED BY <3>1, <3>2, <3>4, SetAccount, StayWell
  <2> QED BY <2>1, <2>2
<1> QED BY <1>1, <1>2, <1>3, <1>4, EmptyKeeps

\* Administrators are changed, moved and removed, and calls fail.
LEMMA AdminEmpty ==
  ASSUME Typed, EmptyInv, NEW r \in Requests,
         \/ \E s \in 1..MaxSchools, email \in Emails : UpdateSchoolAdmin(r, s, email)
         \/ \E a \in 1..MaxAccounts, s \in 1..MaxSchools : MoveAdmin(r, a, s)
         \/ \E a \in 1..MaxAccounts : RemoveAdmin(r, a)
         \/ RemoveUser(r) \/ Fail(r)
  PROVE  EmptyInv'
<1> DEFINE q == req[r]
<1>1. req'[r].at \notin Dropping /\ OthersStay(r)
  <2>1. CASE \E s \in 1..MaxSchools, email \in Emails : UpdateSchoolAdmin(r, s, email)
    BY <2>1, UpdateDigest DEF StartsAs, Dropping
  <2>2. CASE \/ \E a \in 1..MaxAccounts, s \in 1..MaxSchools : MoveAdmin(r, a, s)
             \/ \E a \in 1..MaxAccounts : RemoveAdmin(r, a)
    BY <2>2, StartsDigest DEF StartsAs, Dropping
  <2>3. CASE RemoveUser(r) \/ Fail(r)
    BY <2>3, StepDigest DEF Ends, Idle, Dropping
  <2> QED BY <2>1, <2>2, <2>3
<1>2. Emptying(req'[r], schools', accounts')
  BY <1>1 DEF Emptying, Dropping
<1>3. DeletingKept
  <2>1. CASE schools' = schools
    BY <2>1 DEF DeletingKept
  <2>2. CASE schools' # schools
    BY <2>2, FlagKept DEF UpdateSchoolAdmin, MoveAdmin, RemoveAdmin, RemoveUser, Fail, Resolves
  <2> QED BY <2>1, <2>2
<1>4. \A a \in DOMAIN accounts' : ComesWell(a)
  <2>1. CASE accounts' = accounts
    BY <2>1, StayWell
  <2>2. CASE accounts' # accounts
    <3>1. PICK a, email, x :
            /\ a \in DOMAIN accounts
            /\ \/ accounts' = [accounts EXCEPT ![a].email = email, ![a].excused = x]
               \/ accounts' = [accounts EXCEPT ![a].excused = x]
               \/ accounts' = [accounts EXCEPT ![a].link = 0, ![a].excused = x]
               \/ accounts' = [accounts EXCEPT ![a].gone = TRUE]
      <4>1. CASE \E s \in 1..MaxSchools, email \in Emails : UpdateSchoolAdmin(r, s, email)
        <5>1. PICK s, email : UpdateSchoolAdmin(r, s, email)
          BY <4>1
        <5>2. PICK a \in AdminsOf(s) :
                accounts' = [accounts EXCEPT ![a].email = email,
                                             ![a].excused = @ \/ HandlersOf(a) # {}]
          BY <5>1, Zenon DEF UpdateSchoolAdmin
        <5>3. PICK x : x = (accounts[a].excused \/ HandlersOf(a) # {})
          OBVIOUS
        <5>4. accounts' = [accounts EXCEPT ![a].email = email, ![a].excused = x]
          BY <5>2, <5>3, Zenon
        <5> QED BY <5>4 DEF AdminsOf
      <4>2. CASE \E a \in 1..MaxAccounts, s \in 1..MaxSchools : MoveAdmin(r, a, s)
        <5>1. PICK a \in DOMAIN accounts :
                accounts' = [accounts EXCEPT ![a].excused = @ \/ HandlersOf(a) # {}]
          BY <4>2 DEF MoveAdmin
        <5>2. PICK x : x = (accounts[a].excused \/ HandlersOf(a) # {})
          OBVIOUS
        <5>3. accounts' = [accounts EXCEPT ![a].excused = x]
          BY <5>1, <5>2, Zenon
        <5> QED BY <5>3
      <4>3. CASE \E a \in 1..MaxAccounts : RemoveAdmin(r, a)
        <5>1. PICK a \in DOMAIN accounts :
                accounts' = [accounts EXCEPT ![a].link = 0,
                                             ![a].excused = @ \/ HandlersOf(a) # {}]
          BY <4>3 DEF RemoveAdmin
        <5>2. PICK x : x = (accounts[a].excused \/ HandlersOf(a) # {})
          OBVIOUS
        <5>3. accounts' = [accounts EXCEPT ![a].link = 0, ![a].excused = x]
          BY <5>1, <5>2, Zenon
        <5> QED BY <5>3
      <4>4. CASE RemoveUser(r)
        BY <4>4, AtHand DEF RemoveUser
      <4>5. CASE Fail(r)
        BY <2>2, <4>5, Types DEF Fail, Knows
      <4> QED BY <4>1, <4>2, <4>3, <4>4, <4>5
    <3>2. PICK v : /\ \/ v = [accounts[a] EXCEPT !.email = email, !.excused = x]
                      \/ v = [accounts[a] EXCEPT !.excused = x]
                      \/ v = [accounts[a] EXCEPT !.link = 0, !.excused = x]
                      \/ v = [accounts[a] EXCEPT !.gone = TRUE]
                   /\ accounts' = [accounts EXCEPT ![a] = v]
      BY <3>1
    <3>3. a \in DOMAIN accounts /\ accounts[a] \in Account
      BY <3>1, Types
    <3>4. /\ v.tenant = accounts[a].tenant /\ v.late = accounts[a].late
          /\ accounts[a].gone => v.gone
      BY <3>2, <3>3 DEF Account
    <3> QED BY <3>2, <3>3, <3>4, SetAccount, StayWell
  <2> QED BY <2>1, <2>2
<1> QED BY <1>1, <1>2, <1>3, <1>4, EmptyKeeps

LEMMA MoveEmpty ==
  ASSUME Typed, EmptyInv, NEW r \in Requests, NEW w \in {"link", "tenant"}, MoveWrite(r, w)
  PROVE  EmptyInv'
<1> DEFINE q == req[r]
<1>1. /\ q.at = "move" /\ OthersStay(r) /\ UNCHANGED schools
      /\ q.account \in DOMAIN accounts /\ q.school \in DOMAIN schools
      /\ req'[r].at \notin Dropping
  <2>1. /\ q.at = "move" /\ OthersStay(r) /\ UNCHANGED schools
        /\ q.account \in DOMAIN accounts /\ q.school \in DOMAIN schools
    BY MoveDigest
  <2>2. req'[r] = Idle \/ req'[r].at \in {"move", "profile"}
    BY MoveDigest
  <2> QED BY <2>1, <2>2 DEF Idle, Dropping
<1>2. Emptying(req'[r], schools', accounts')
  BY <1>1 DEF Emptying, Dropping
<1>3. DeletingKept
  BY <1>1 DEF DeletingKept
<1>4. accounts[q.account] \in Account
  BY <1>1, Types
<1>5. \A a \in DOMAIN accounts' : ComesWell(a)
  <2>1. CASE \/ accounts' = [accounts EXCEPT ![q.account].excused = TRUE]
             \/ accounts' = [accounts EXCEPT ![q.account].link = q.school]
    <3>1. PICK v : /\ \/ v = [accounts[q.account] EXCEPT !.excused = TRUE]
                      \/ v = [accounts[q.account] EXCEPT !.link = q.school]
                   /\ accounts' = [accounts EXCEPT ![q.account] = v]
      BY <2>1
    <3>2. /\ v.tenant = accounts[q.account].tenant /\ v.late = accounts[q.account].late
          /\ v.gone = accounts[q.account].gone
      BY <1>4, <3>1 DEF Account
    <3> QED BY <1>1, <3>1, <3>2, SetAccount, StayWell
  <2>2. CASE accounts' = [accounts EXCEPT ![q.account].tenant = q.school,
                                          ![q.account].late = schools[q.school].deleting]
    <3>1. PICK v : /\ v = [accounts[q.account] EXCEPT !.tenant = q.school,
                                                      !.late = schools[q.school].deleting]
                   /\ accounts' = [accounts EXCEPT ![q.account] = v]
      BY <2>2
    <3>2. v.tenant = q.school /\ v.late = schools[q.school].deleting
      BY <1>4, <3>1 DEF Account
    <3>3. /\ DOMAIN accounts' = DOMAIN accounts /\ accounts'[q.account] = v
          /\ \A a \in DOMAIN accounts : a # q.account => accounts'[a] = accounts[a]
      BY <1>1, <3>1, SetAccount
    <3>4. ComesWell(q.account)
      BY <1>1, <3>2, <3>3 DEF ComesWell
    <3>5. \A a \in DOMAIN accounts : a # q.account => ComesWell(a)
      BY <3>3, Types DEF ComesWell, Account
    <3> QED BY <3>3, <3>4, <3>5
  <2> QED BY <2>1, <2>2, MoveRow
<1> QED BY <1>1, <1>2, <1>3, <1>5, EmptyKeeps

LEMMA DropEmpty ==
  ASSUME Typed, EmptyInv, NEW r \in Requests,
         \/ \E s \in 1..MaxSchools : DeleteSchool(r, s)
         \/ DropUsers(r) \/ DropSchool(r) \/ DropTenant(r)
  PROVE  EmptyInv'
<1> DEFINE q == req[r]
<1>1. ASSUME NEW s \in 1..MaxSchools, DeleteSchool(r, s) PROVE EmptyInv'
  <2>1. /\ s \in DOMAIN schools /\ UNCHANGED accounts
        /\ schools' = [schools EXCEPT ![s].deleting = TRUE]
    BY <1>1 DEF DeleteSchool
  <2>2. /\ OthersStay(r) /\ req'[r].school = s /\ req'[r].at = "dropUsers"
        /\ req'[r].ids = {x \in DOMAIN accounts : Live(x) /\ accounts[x].tenant = s}
    BY <1>1, StartsDigest DEF StartsAs
  <2>3. \A j \in DOMAIN schools : schools'[j].deleting <=> (j = s \/ schools[j].deleting)
    BY <2>1, Types DEF School
  <2>4. DeletingKept
    BY <2>3 DEF DeletingKept
  <2>5. Emptying(req'[r], schools', accounts')
    BY <2>1, <2>2, <2>3 DEF Emptying, Live
  <2> QED BY <2>1, <2>2, <2>4, <2>5, StayWell, EmptyKeeps
<1>2. CASE DropUsers(r)
  <2>1. /\ q.at = "dropUsers" /\ GoesOnAt(r, "dropSchool") /\ UNCHANGED schools
        /\ accounts' = [a \in DOMAIN accounts |->
                          [accounts[a] EXCEPT !.gone = @ \/ a \in q.ids]]
    BY <1>2, StepDigest DEF DropUsers
  <2>2. ASSUME NEW a \in DOMAIN accounts
        PROVE  /\ accounts'[a].tenant = accounts[a].tenant
               /\ accounts'[a].late = accounts[a].late
               /\ accounts'[a].gone <=> accounts[a].gone \/ a \in q.ids
    <3>1. accounts'[a] = [accounts[a] EXCEPT !.gone = @ \/ a \in q.ids]
      BY <2>1
    <3> QED BY <3>1, Types DEF Account
  <2>3. DOMAIN accounts' = DOMAIN accounts
    BY <2>1
  <2>4. Emptying(q, schools, accounts)
    BY DEF EmptyInv
  <2>5. Emptying(req'[r], schools', accounts')
    <3>1. req'[r].at = "dropSchool" /\ req'[r].school = q.school
      BY <2>1 DEF GoesOnAt
    <3>2. schools'[q.school].deleting
      BY <2>1, <2>4 DEF Emptying
    <3>3. ASSUME NEW a \in DOMAIN accounts', ~accounts'[a].gone,
                 accounts'[a].tenant = q.school
          PROVE  accounts'[a].late
      BY <2>1, <2>2, <2>3, <2>4, <3>3 DEF Emptying
    <3> QED BY <3>1, <3>2, <3>3 DEF Emptying
  <2>6. DeletingKept
    BY <2>1 DEF DeletingKept
  <2> QED BY <2>1, <2>2, <2>3, <2>5, <2>6, StayWell, EmptyKeeps DEF GoesOnAt
<1>3. CASE DropSchool(r)
  <2>1. /\ q.at = "dropSchool" /\ GoesOnAt(r, "dropTenant")
        /\ schools' = [schools EXCEPT ![q.school].row = FALSE, ![q.school].grades = FALSE]
        /\ accounts' = [a \in DOMAIN accounts |->
                          IF accounts[a].link = q.school
                          THEN [accounts[a] EXCEPT !.link = 0, !.excused = TRUE]
                          ELSE accounts[a]]
    BY <1>3, StepDigest DEF DropSchool
  <2>2. ASSUME NEW a \in DOMAIN accounts
        PROVE  /\ accounts'[a].tenant = accounts[a].tenant
               /\ accounts'[a].late = accounts[a].late
               /\ accounts'[a].gone = accounts[a].gone
    BY <2>1, Types DEF Account
  <2>3. DOMAIN accounts' = DOMAIN accounts
    BY <2>1
  <2>4. Emptying(q, schools, accounts) /\ q.school \in DOMAIN schools
    BY <2>1, AtHand DEF EmptyInv
  <2>5. DeletingKept
    BY <2>1, FlagKept
  <2>6. Emptying(req'[r], schools', accounts')
    <3>1. req'[r].at = "dropTenant" /\ req'[r].school = q.school
      BY <2>1 DEF GoesOnAt
    <3>2. schools'[q.school].deleting
      BY <2>1, <2>4, <2>5 DEF Emptying, DeletingKept
    <3>3. ASSUME NEW a \in DOMAIN accounts', ~accounts'[a].gone,
                 accounts'[a].tenant = q.school
          PROVE  accounts'[a].late
      BY <2>1, <2>2, <2>3, <2>4, <3>3 DEF Emptying
    <3> QED BY <3>1, <3>2, <3>3 DEF Emptying
  <2> QED BY <2>1, <2>2, <2>3, <2>5, <2>6, StayWell, EmptyKeeps DEF GoesOnAt
<1>4. CASE DropTenant(r)
  <2>1. /\ q.at = "dropTenant" /\ Ends(r)
        /\ schools' = [schools EXCEPT ![q.school].tenant = FALSE]
        /\ accounts' = [a \in DOMAIN accounts |->
                          IF accounts[a].tenant = q.school
                          THEN [accounts[a] EXCEPT !.tenant = 0, !.excused = TRUE]
                          ELSE accounts[a]]
    BY <1>4, StepDigest DEF DropTenant
  <2>2. Emptying(q, schools, accounts)
    BY DEF EmptyInv
  <2>3. DeletingKept
    BY <2>1, FlagKept
  <2>4. ASSUME NEW a \in DOMAIN accounts' PROVE ComesWell(a)
    <3>1. a \in DOMAIN accounts /\ accounts[a] \in Account
      BY <2>1, Types
    <3>2. CASE accounts[a].tenant = q.school
      <4>1. accounts'[a] = [accounts[a] EXCEPT !.tenant = 0, !.excused = TRUE]
        BY <2>1, <3>1, <3>2
      <4>2. accounts'[a].gone = accounts[a].gone /\ accounts'[a].late = accounts[a].late
        BY <3>1, <4>1 DEF Account
      <4> QED BY <2>1, <2>2, <3>1, <3>2, <4>2 DEF ComesWell, Emptying
    <3>3. CASE accounts[a].tenant # q.school
      <4>1. accounts'[a] = accounts[a]
        BY <2>1, <3>1, <3>3
      <4> QED BY <3>1, <4>1 DEF ComesWell, Account
    <3> QED BY <3>2, <3>3
  <2>5. Emptying(req'[r], schools', accounts')
    <3>0. req'[r] = Idle
      BY <2>1 DEF Ends
    <3>1. req'[r].at = "idle"
      BY ONLY <3>0 DEF Idle
    <3> QED BY <3>1 DEF Emptying
  <2> QED BY <2>1, <2>3, <2>4, <2>5, EmptyKeeps DEF Ends
<1> QED BY <1>1, <1>2, <1>3, <1>4

LEMMA AtOnceEmpty ==
  ASSUME Typed, EmptyInv, AtOnceStep
  PROVE  EmptyInv'
<1>1. UNCHANGED req /\ DeletingKept
  <2>1. CASE \E s \in 1..MaxSchools, email \in Emails : UpdateSchool(s, email)
    BY <2>1, Updated, FlagKept DEF AtOnce
  <2>2. CASE ~\E s \in 1..MaxSchools, email \in Emails : UpdateSchool(s, email)
    BY <2>2 DEF AtOnceStep, CreateAccount, CreateCode, Regenerate, EditCode, AtOnce,
                DeletingKept
  <2> QED BY <2>1, <2>2
<1>2. CASE UNCHANGED accounts
  BY <1>1, <1>2, StayWell, EmptyAtOnce
<1>4. ASSUME NEW s \in 1..MaxSchools, NEW email \in Emails, UpdateSchool(s, email)
      PROVE  EmptyInv'
  <2>1. \A a \in DOMAIN accounts' : ComesWell(a)
    BY <1>4, Updated, StayWell
  <2> QED BY <1>1, <2>1, EmptyAtOnce
<1>3. ASSUME NEW s \in 1..MaxSchools, NEW email \in Emails,
             NEW role \in {"student", "school_admin"}, CreateAccount(s, email, role)
      PROVE  EmptyInv'
  <2>1. PICK v : /\ v = [NewAccount(email, role, s) EXCEPT !.excused = TRUE]
                 /\ accounts' = Append(accounts, v)
    BY <1>3 DEF CreateAccount
  <2>2. s \in DOMAIN schools /\ Len(accounts) < MaxAccounts
    BY <1>3 DEF CreateAccount
  <2>3. v \in Account /\ v.tenant = s /\ v.late = schools[s].deleting
    <3>1. NewAccount(email, role, s) \in Account
      BY <2>2, NewRows
    <3> QED BY <2>1, <3>1 DEF NewAccount, Account
  <2>4. /\ DOMAIN accounts' = DOMAIN accounts \cup {Len(accounts) + 1}
        /\ accounts'[Len(accounts) + 1] = v
        /\ \A a \in DOMAIN accounts : accounts'[a] = accounts[a]
    BY <2>1, <2>2, <2>3, AddAccount
  <2>5. \A a \in DOMAIN accounts' : ComesWell(a)
    BY <2>2, <2>3, <2>4, Types DEF ComesWell, Account
  <2> QED BY <1>1, <2>5, EmptyAtOnce
<1> QED BY <1>2, <1>3, <1>4 DEF AtOnceStep, CreateCode, Regenerate, EditCode

LEMMA InitEmpty ==
  ASSUME Init
  PROVE  EmptyInv
<1>1. \A r \in Requests : req[r].at = "idle"
  BY DEF Init, Idle
<1> QED BY <1>1, InitAccounts DEF EmptyInv, Emptying, DeletedSchoolsEmpty

-----------------------------------------------------------------------------
(***************************************************************************)
(* Accounts are whole.                                                     *)
(***************************************************************************)
\* An account that nothing is written to that matters.
QuietAccount(a) ==
    ~accounts'[a].gone /\ ~accounts'[a].excused =>
        /\ ~accounts[a].gone /\ ~accounts[a].excused
        /\ accounts'[a].tenant = accounts[a].tenant
        /\ accounts'[a].link = accounts[a].link
        /\ accounts'[a].profile = accounts[a].profile

\* A step of handlers of the account b, or of none.
LEMMA WholeKeeps ==
  ASSUME WholeInv, NEW b,
         \A o \in Requests : \/ req'[o] = req[o]
                             \/ req[o].account \in {0, b} /\ req'[o].account \in {0, b},
         0 \notin DOMAIN accounts,
         DOMAIN accounts' \subseteq DOMAIN accounts \cup {b},
         \A a \in DOMAIN accounts : a # b => QuietAccount(a),
         b \in DOMAIN accounts' => AccountKept(b)'
  PROVE  WholeInv'
<1>1. ASSUME NEW a \in DOMAIN accounts', a # b PROVE AccountKept(a)'
  <2>1. a \in DOMAIN accounts /\ a # 0 /\ AccountKept(a)
    BY <1>1 DEF WholeInv
  <2>2. \A o \in Requests : req[o].account = a \/ req'[o].account = a => req'[o] = req[o]
    BY <1>1, <2>1
  <2>3. HandlersOf(a)' = HandlersOf(a) /\ \A o \in HandlersOf(a) : req'[o] = req[o]
    BY <2>2 DEF HandlersOf
  <2> QED BY <1>1, <2>1, <2>3 DEF AccountKept, QuietAccount, IsWhole, Serves
<1> QED BY <1>1 DEF WholeInv

\* The handler of an account that is kept is alone with it, and goes on being.
LEMMA Alone ==
  ASSUME NEW b, NEW r \in Requests, OthersStay(r), AccountKept(b), req[r].account = b,
         ~accounts[b].gone, ~accounts[b].excused
  PROVE  Serves(req[r], accounts[b]) /\ HandlersOf(b)' \subseteq {r}
BY DEF OthersStay, AccountKept, HandlersOf

LEMMA Starting ==
  ASSUME NEW b, NEW r \in Requests, OthersStay(r), AccountKept(b), HandlersOf(b) = {},
         ~accounts[b].gone, ~accounts[b].excused
  PROVE  IsWhole(accounts[b]) /\ HandlersOf(b)' \subseteq {r}
BY DEF OthersStay, AccountKept, HandlersOf

LEMMA AloneKept ==
  ASSUME NEW b, NEW r \in Requests,
         ~accounts'[b].gone /\ ~accounts'[b].excused =>
            /\ HandlersOf(b)' \subseteq {r}
            /\ IF req'[r].account = b THEN Serves(req'[r], accounts'[b])
               ELSE IsWhole(accounts'[b])
  PROVE  AccountKept(b)'
BY DEF AccountKept, HandlersOf

\* Steps that are at no account.
LEMMA QuietWhole ==
  ASSUME Typed, WholeInv, NEW r \in Requests,
         \/ \E c \in 1..MaxCodes, email \in Emails : RegisterValidate(r, c, email)
         \/ RegisterReread(r)
         \/ \E d : CreatesSchool(r, d)
         \/ \E s \in 1..MaxSchools : InitStructure(r, s) \/ DeleteSchool(r, s)
         \/ \E s \in 1..MaxSchools, email \in Emails :
              UpdateSchoolAppoint(r, s, email) \/ CreateAdmin(r, s, email)
         \/ SchoolRow(r) \/ CreateGrade(r) \/ CreateGradeCode(r)
         \/ DropUsers(r) \/ DropSchool(r) \/ DropTenant(r)
  PROVE  WholeInv'
<1>1. req[r].account = 0 /\ req'[r].account = 0 /\ OthersStay(r)
  <2>0. Idle.account = 0
    BY DEF Idle
  <2>1. CASE \/ \E c \in 1..MaxCodes, email \in Emails : RegisterValidate(r, c, email)
             \/ \E s \in 1..MaxSchools : InitStructure(r, s) \/ DeleteSchool(r, s)
             \/ \E s \in 1..MaxSchools, email \in Emails :
                  UpdateSchoolAppoint(r, s, email) \/ CreateAdmin(r, s, email)
    BY <2>0, <2>1, StartsDigest DEF StartsAs
  <2>2. CASE \E d : CreatesSchool(r, d)
    BY <2>0, <2>2, Created DEF OthersStay
  <2>3. CASE RegisterReread(r)
    <3>1. req[r].account = 0
      BY <2>3, Types DEF RegisterReread, Knows
    <3> QED BY <2>0, <2>3, <3>1, RereadDigest DEF Ends
  <2>4. CASE \/ SchoolRow(r) \/ CreateGrade(r) \/ CreateGradeCode(r)
             \/ DropUsers(r) \/ DropSchool(r) \/ DropTenant(r)
    <3>1. /\ req[r].at \in {"row", "grade", "code", "dropUsers", "dropSchool", "dropTenant"}
          /\ Ends(r) \/ \E at : GoesOnAt(r, at)
      BY <2>4, StepDigest DEF CodeEnds
    <3>2. req[r].account = 0
      BY <3>1, Types DEF Knows
    <3> QED BY <2>0, <3>1, <3>2 DEF Ends, GoesOnAt
  <2> QED BY <2>1, <2>2, <2>3, <2>4
<1>2. DOMAIN accounts' = DOMAIN accounts /\ \A a \in DOMAIN accounts : QuietAccount(a)
  <2>1. CASE accounts' = accounts
    BY <2>1 DEF QuietAccount
  <2>2. CASE accounts' # accounts
    <3>1. DropUsers(r) \/ DropSchool(r) \/ DropTenant(r)
      BY <2>2, Created
         DEF RegisterValidate, RegisterReread, InitStructure, DeleteSchool,
             UpdateSchoolAppoint, CreateAdmin, SchoolRow, CreateGrade, CreateGradeCode
    <3>2. DOMAIN accounts' = DOMAIN accounts
      BY <3>1 DEF DropUsers, DropSchool, DropTenant
    <3>3. ASSUME NEW a \in DOMAIN accounts PROVE QuietAccount(a)
      <4>1. accounts[a] \in Account
        BY Types
      <4>2. CASE DropUsers(r)
        <5>1. accounts'[a] = [accounts[a] EXCEPT !.gone = @ \/ a \in req[r].ids]
          BY <4>2 DEF DropUsers
        <5> QED BY <4>1, <5>1 DEF QuietAccount, Account
      <4>3. CASE DropSchool(r) \/ DropTenant(r)
        <5>1. \/ accounts'[a] = accounts[a]
              \/ accounts'[a] = [accounts[a] EXCEPT !.link = 0, !.excused = TRUE]
              \/ accounts'[a] = [accounts[a] EXCEPT !.tenant = 0, !.excused = TRUE]
          BY <4>3 DEF DropSchool, DropTenant
        <5> QED BY <4>1, <5>1 DEF QuietAccount, Account
      <4> QED BY <3>1, <4>2, <4>3
    <3> QED BY <3>2, <3>3
  <2> QED BY <2>1, <2>2
<1>3. 0 \notin DOMAIN accounts
  BY Types
<1> QED BY <1>1, <1>2, <1>3, WholeKeeps DEF OthersStay

LEMMA AtOnceWhole ==
  ASSUME Typed, WholeInv, AtOnceStep
  PROVE  WholeInv'
<1>1. req' = req
  BY DEF AtOnceStep, CreateAccount, UpdateSchool, CreateCode, Regenerate, EditCode, AtOnce
<1>2. 0 \notin DOMAIN accounts
  BY Types
<1>5. ASSUME NEW s \in 1..MaxSchools, NEW email \in Emails, UpdateSchool(s, email)
      PROVE  WholeInv'
  <2>1. DOMAIN accounts' = DOMAIN accounts /\ \A a \in DOMAIN accounts : QuietAccount(a)
    BY <1>5, Updated DEF QuietAccount
  <2> QED BY <1>1, <1>2, <2>1, WholeKeeps
<1>3. CASE UNCHANGED accounts
  <2>1. \A a \in DOMAIN accounts : QuietAccount(a)
    BY <1>3 DEF QuietAccount
  <2> QED BY <1>1, <1>2, <1>3, <2>1, WholeKeeps
<1>4. ASSUME NEW s \in 1..MaxSchools, NEW email \in Emails,
             NEW role \in {"student", "school_admin"}, CreateAccount(s, email, role)
      PROVE  WholeInv'
  <2>1. PICK v : /\ v = [NewAccount(email, role, s) EXCEPT !.excused = TRUE]
                 /\ accounts' = Append(accounts, v)
    BY <1>4 DEF CreateAccount
  <2>2. s \in DOMAIN schools /\ Len(accounts) < MaxAccounts
    BY <1>4 DEF CreateAccount
  <2>3. v \in Account /\ v.excused
    <3>1. NewAccount(email, role, s) \in Account
      BY <2>2, NewRows
    <3> QED BY <2>1, <3>1 DEF NewAccount, Account
  <2>4. PICK n : n = Len(accounts) + 1
    OBVIOUS
  <2>5. /\ DOMAIN accounts' = DOMAIN accounts \cup {n} /\ accounts'[n] = v
        /\ \A a \in DOMAIN accounts : accounts'[a] = accounts[a]
    BY <2>1, <2>2, <2>3, <2>4, AddAccount
  <2>6. AccountKept(n)' /\ \A a \in DOMAIN accounts : QuietAccount(a)
    BY <2>3, <2>5 DEF AccountKept, QuietAccount
  <2> QED BY <1>1, <1>2, <2>5, <2>6, WholeKeeps
<1> QED BY <1>3, <1>4, <1>5 DEF AtOnceStep, CreateCode, Regenerate, EditCode

LEMMA InitWhole ==
  ASSUME Init
  PROVE  WholeInv
<1>1. \A r \in Requests : req[r].account = 0
  BY DEF Init, Idle
<1>2. \A a \in DOMAIN accounts : HandlersOf(a) = {}
  BY <1>1, InitAccounts DEF HandlersOf
<1> QED BY <1>2, InitAccounts DEF WholeInv, AccountKept

\* A step of the handler r at the account b.
LEMMA WholeStep ==
  ASSUME Typed, WholeInv, NEW r \in Requests, NEW b, OthersStay(r),
         req[r].account \in {0, b}, req'[r].account \in {0, b},
         DOMAIN accounts' \subseteq DOMAIN accounts \cup {b},
         \A a \in DOMAIN accounts : a # b => accounts'[a] = accounts[a],
         b \in DOMAIN accounts' => AccountKept(b)'
  PROVE  WholeInv'
<1>1. \A a \in DOMAIN accounts : a # b => QuietAccount(a)
  BY DEF QuietAccount
<1>2. 0 \notin DOMAIN accounts
  BY Types
<1> QED BY <1>1, <1>2, WholeKeeps DEF OthersStay

LEMMA SignupWhole ==
  ASSUME Typed, WholeInv, NEW r \in Requests, Signup(r)
  PROVE  WholeInv'
<1> DEFINE q == req[r]
<1>1. /\ OthersStay(r) /\ q.email \in Emails /\ q.school \in DOMAIN schools
      /\ q.account = 0 /\ q.at = "signup"
  BY SignupDigest
<1>2. CASE Ends(r) /\ UNCHANGED accounts
  <2>1. req'[r].account = 0
    BY <1>2 DEF Ends, Idle
  <2> QED BY <1>1, <1>2, <2>1, WholeStep, Types
<1>3. CASE ~(Ends(r) /\ UNCHANGED accounts)
  <2>1. PICK role \in {"student", "school_admin"} : SignedUp(r, q.email, role, q.school)
    BY <1>3, SignupDigest
  <2>2. PICK b : b = Len(accounts) + 1
    OBVIOUS
  <2>3. /\ DOMAIN accounts' = DOMAIN accounts \cup {b} /\ b \notin DOMAIN accounts
        /\ \A a \in DOMAIN accounts : accounts'[a] = accounts[a]
        /\ accounts'[b].tenant = q.school
    BY <1>1, <2>1, <2>2, SignedUpRow
  <2>4. /\ req'[r].at = "link" /\ req'[r].account = b /\ req'[r].school = q.school
    BY <2>1, <2>2 DEF SignedUp
  <2>5. HandlersOf(b)' \subseteq {r}
    <3>1. \A o \in Requests : req[o].account # b
      BY <2>2, <2>3, Types DEF Knows
    <3> QED BY <1>1, <3>1 DEF HandlersOf, OthersStay
  <2>6. Serves(req'[r], accounts'[b])
    BY <2>3, <2>4 DEF Serves
  <2>7. AccountKept(b)'
    BY <2>4, <2>5, <2>6, AloneKept
  <2> QED BY <1>1, <2>3, <2>4, <2>7, WholeStep
<1> QED BY <1>2, <1>3

LEMMA LinkWhole ==
  ASSUME Typed, WholeInv, NEW r \in Requests,
         Link(r) \/ WriteProfile(r) \/ RegisterCount(r)
  PROVE  WholeInv'
<1> DEFINE q == req[r]
<1>1. PICK b : b = q.account
  OBVIOUS
<1>2. /\ q.at \in {"link", "profile", "count"} /\ b \in DOMAIN accounts
      /\ q.school \in DOMAIN schools /\ q.school # 0
  <2>1. q.at \in {"link", "profile", "count"}
    BY StepDigest
  <2> QED BY <1>1, <2>1, AtHand, Types DEF Knows
<1>3. accounts[b] \in Account /\ AccountKept(b)
  BY <1>2, Types DEF WholeInv
<1>4. OthersStay(r) /\ req'[r].account \in {0, b}
  BY <1>1, StepDigest DEF Ends, GoesOnAt, Idle
<1>5. ~accounts[b].gone /\ ~accounts[b].excused =>
        Serves(q, accounts[b]) /\ HandlersOf(b)' \subseteq {r}
  BY <1>1, <1>3, <1>4, Alone
<1>6. CASE Link(r)
  <2>1. PICK v : /\ \/ /\ v = [accounts[b] EXCEPT !.link = q.school]
                       /\ GoesOnAt(r, "profile")
                    \/ v = [accounts[b] EXCEPT !.excused = TRUE]
                 /\ accounts' = [accounts EXCEPT ![b] = v]
    BY <1>1, <1>2, <1>6, StepDigest DEF Link
  <2>2. /\ DOMAIN accounts' = DOMAIN accounts /\ accounts'[b] = v
        /\ \A j \in DOMAIN accounts : j # b => accounts'[j] = accounts[j]
    BY <1>2, <2>1, SetAccount
  <2>3. AccountKept(b)'
    <3>1. CASE v = [accounts[b] EXCEPT !.excused = TRUE]
      BY <1>3, <2>2, <3>1, AloneKept DEF Account
    <3>2. CASE v = [accounts[b] EXCEPT !.link = q.school] /\ GoesOnAt(r, "profile")
      <4>1. /\ v.link = q.school /\ v.tenant = accounts[b].tenant
            /\ v.gone = accounts[b].gone /\ v.excused = accounts[b].excused
        BY <1>3, <3>2 DEF Account
      <4>2. /\ req'[r].at = "profile" /\ req'[r].account = b /\ req'[r].school = q.school
        BY <1>1, <3>2 DEF GoesOnAt
      <4>3. q.at = "link"
        BY <1>6 DEF Link
      <4>4. Serves(q, accounts[b]) => Serves(req'[r], accounts'[b])
        BY <2>2, <4>1, <4>2, <4>3 DEF Serves
      <4> QED BY <1>5, <2>2, <4>1, <4>2, <4>4, AloneKept
    <3> QED BY <2>1, <3>1, <3>2
  <2> QED BY <1>1, <1>4, <2>2, <2>3, WholeStep
<1>7. CASE WriteProfile(r)
  <2>1. CASE accounts[b].gone
    <3>1. accounts' = accounts
      BY <1>1, <1>7, <2>1 DEF WriteProfile, Live
    <3>2. AccountKept(b)'
      BY <2>1, <3>1 DEF AccountKept
    <3> QED BY <1>1, <1>4, <3>1, <3>2, WholeStep
  <2>2. CASE ~accounts[b].gone
    <3>1. PICK v : /\ v = [accounts[b] EXCEPT !.profile = q.school]
                   /\ accounts' = [accounts EXCEPT ![b] = v]
      BY <1>1, <1>2, <1>7, <2>2 DEF WriteProfile, Live
    <3>2. /\ DOMAIN accounts' = DOMAIN accounts /\ accounts'[b] = v
          /\ \A j \in DOMAIN accounts : j # b => accounts'[j] = accounts[j]
      BY <1>2, <3>1, SetAccount
    <3>3. /\ v.profile = q.school /\ v.tenant = accounts[b].tenant
          /\ v.link = accounts[b].link
          /\ v.gone = accounts[b].gone /\ v.excused = accounts[b].excused
      BY <1>3, <3>1 DEF Account
    <3>4. q.at = "profile"
      BY <1>7 DEF WriteProfile
    <3>5. Serves(q, accounts[b]) =>
            IF req'[r].account = b THEN Serves(req'[r], accounts'[b])
            ELSE IsWhole(accounts'[b])
      <4>1. CASE GoesOnAt(r, "count")
        <5>1. req'[r].at = "count" /\ req'[r].account = b /\ req'[r].school = q.school
          BY <1>1, <4>1 DEF GoesOnAt
        <5> QED BY <3>2, <3>3, <3>4, <5>1 DEF Serves
      <4>2. CASE Ends(r)
        <5>1. req'[r].account = 0 /\ b # 0
          BY <1>2, <4>2, Types DEF Ends, Idle
        <5> QED BY <1>2, <3>2, <3>3, <3>4, <5>1 DEF Serves, IsWhole
      <4> QED BY <1>7, <4>1, <4>2, StepDigest
    <3>6. AccountKept(b)'
      BY <1>5, <3>2, <3>3, <3>5, AloneKept
    <3> QED BY <1>1, <1>4, <3>2, <3>6, WholeStep
  <2> QED BY <2>1, <2>2
<1>8. CASE RegisterCount(r)
  <2>1. accounts' = accounts /\ q.at = "count" /\ Ends(r)
    BY <1>8, StepDigest DEF RegisterCount
  <2>2. req'[r].account = 0 /\ b # 0
    BY <1>2, <2>1, Types DEF Ends, Idle
  <2>3. Serves(q, accounts[b]) => IsWhole(accounts'[b])
    BY <1>2, <2>1 DEF Serves, IsWhole
  <2>4. AccountKept(b)'
    BY <1>5, <2>1, <2>2, <2>3, AloneKept
  <2> QED BY <1>1, <1>4, <2>1, <2>4, WholeStep
<1> QED BY <1>6, <1>7, <1>8

LEMMA AdminWhole ==
  ASSUME Typed, WholeInv, NEW r \in Requests, NEW s, NEW b, NEW email,
         \/ UpdateSchoolAdmin(r, s, email) \/ MoveAdmin(r, b, s) \/ RemoveAdmin(r, b)
  PROVE  WholeInv'
<1>1. ASSUME NEW a \in DOMAIN accounts, NEW x, x = (accounts[a].excused \/ HandlersOf(a) # {}),
             \/ /\ accounts' = [accounts EXCEPT ![a].email = email, ![a].excused = x]
                /\ StartsAs(r, "profile", s, a, 0) /\ accounts[a].link = s
             \/ /\ accounts' = [accounts EXCEPT ![a].excused = x]
                /\ StartsAs(r, "move", s, a, 0) /\ req'[r].todo = {"link", "tenant"}
                /\ ~req'[r].failed
             \/ /\ accounts' = [accounts EXCEPT ![a].link = 0, ![a].excused = x]
                /\ StartsAs(r, "remove", 0, a, 0)
      PROVE  WholeInv'
  <2>1. OthersStay(r) /\ req[r].account = 0 /\ req'[r].account = a
    BY <1>1 DEF StartsAs, Idle
  <2>2. PICK v : /\ \/ /\ v = [accounts[a] EXCEPT !.email = email, !.excused = x]
                       /\ req'[r].at = "profile" /\ req'[r].school = s /\ accounts[a].link = s
                    \/ /\ v = [accounts[a] EXCEPT !.excused = x]
                       /\ req'[r].at = "move" /\ req'[r].todo = {"link", "tenant"}
                       /\ ~req'[r].failed
                    \/ /\ v = [accounts[a] EXCEPT !.link = 0, !.excused = x]
                       /\ req'[r].at = "remove"
                 /\ accounts' = [accounts EXCEPT ![a] = v]
    BY <1>1 DEF StartsAs
  <2>3. /\ DOMAIN accounts' = DOMAIN accounts /\ accounts'[a] = v
        /\ \A j \in DOMAIN accounts : j # a => accounts'[j] = accounts[j]
    BY <2>2, SetAccount
  <2>4. accounts[a] \in Account /\ AccountKept(a)
    BY Types DEF WholeInv
  <2>5. /\ v.excused = x /\ v.gone = accounts[a].gone /\ v.tenant = accounts[a].tenant
        /\ req'[r].at # "remove" => v.link = accounts[a].link
    BY <2>2, <2>4 DEF Account
  <2>6. ASSUME ~v.gone, ~v.excused PROVE HandlersOf(a)' \subseteq {r} /\ IsWhole(accounts[a])
    <3>1. ~accounts[a].gone /\ ~accounts[a].excused /\ HandlersOf(a) = {}
      BY <1>1, <2>4, <2>5, <2>6 DEF Account
    <3> QED BY <2>1, <2>4, <3>1, Starting
  <2>7. IsWhole(accounts[a]) => Serves(req'[r], accounts'[a])
    BY <2>2, <2>3, <2>5 DEF IsWhole, Serves
  <2>8. AccountKept(a)'
    BY <2>1, <2>3, <2>6, <2>7, AloneKept
  <2> QED BY <2>1, <2>3, <2>8, WholeStep
<1>2. CASE UpdateSchoolAdmin(r, s, email)
  <2>1. PICK a \in AdminsOf(s) :
            /\ accounts' = [accounts EXCEPT ![a].email = email,
                                            ![a].excused = @ \/ HandlersOf(a) # {}]
            /\ StartsAs(r, "profile", s, a, 0) /\ ~req'[r].creates
    BY <1>2, UpdateDigest
  <2>2. PICK x : x = (accounts[a].excused \/ HandlersOf(a) # {})
    OBVIOUS
  <2>3. accounts' = [accounts EXCEPT ![a].email = email, ![a].excused = x]
    BY <2>1, <2>2, Zenon
  <2>4. a \in DOMAIN accounts /\ accounts[a].link = s
    BY DEF AdminsOf
  <2> QED BY <1>1, <2>1, <2>2, <2>3, <2>4
<1>3. CASE MoveAdmin(r, b, s)
  <2>1. PICK x : x = (accounts[b].excused \/ HandlersOf(b) # {})
    OBVIOUS
  <2>2. b \in DOMAIN accounts /\ accounts' = [accounts EXCEPT ![b].excused = x]
    BY <1>3, <2>1, Zenon DEF MoveAdmin
  <2>3. StartsAs(r, "move", s, b, 0) /\ req'[r].todo = {"link", "tenant"} /\ ~req'[r].failed
    BY <1>3, StartsDigest
  <2> QED BY <1>1, <2>1, <2>2, <2>3
<1>4. CASE RemoveAdmin(r, b)
  <2>1. PICK x : x = (accounts[b].excused \/ HandlersOf(b) # {})
    OBVIOUS
  <2>2. b \in DOMAIN accounts /\ accounts' = [accounts EXCEPT ![b].link = 0, ![b].excused = x]
    BY <1>4, <2>1, Zenon DEF RemoveAdmin
  <2>3. StartsAs(r, "remove", 0, b, 0)
    BY <1>4, StartsDigest
  <2> QED BY <1>1, <2>1, <2>2, <2>3
<1> QED BY <1>2, <1>3, <1>4

LEMMA MoveWhole ==
  ASSUME Typed, WholeInv, NEW r \in Requests, NEW w \in {"link", "tenant"}, MoveWrite(r, w)
  PROVE  WholeInv'
<1> DEFINE q == req[r]
           p == req'[r]
<1>1. PICK b : b = q.account
  OBVIOUS
<1>2. /\ q.at = "move" /\ w \in q.todo /\ OthersStay(r) /\ b \in DOMAIN accounts /\ b # 0
      /\ q.school \in DOMAIN schools /\ q.todo \subseteq {"link", "tenant"}
  <2>0. /\ q.at = "move" /\ w \in q.todo /\ OthersStay(r) /\ q.account \in DOMAIN accounts
        /\ q.school \in DOMAIN schools
    BY MoveDigest
  <2>1. /\ q.at = "move" /\ w \in q.todo /\ OthersStay(r) /\ b \in DOMAIN accounts
        /\ q.school \in DOMAIN schools
    BY <1>1, <2>0
  <2>2. b # 0
    BY <2>1, Types
  <2>3. q \in Handler
    BY Types
  <2> QED BY <2>1, <2>2, <2>3 DEF Handler
<1>3. accounts[b] \in Account /\ AccountKept(b) /\ p.account \in {0, b}
  <2>1. p.account \in {0, b}
    <3>1. p = Idle \/ p.account = b
      BY <1>1, MoveDigest
    <3> QED BY <3>1 DEF Idle
  <2> QED BY <1>2, <2>1, Types DEF WholeInv
<1>4. PICK v : /\ v = IF ~Written(q, w) THEN [accounts[b] EXCEPT !.excused = TRUE]
                      ELSE IF w = "link" THEN [accounts[b] EXCEPT !.link = q.school]
                      ELSE [accounts[b] EXCEPT !.tenant = q.school,
                                               !.late = schools[q.school].deleting]
               /\ accounts' = [accounts EXCEPT ![b] = v]
  <2>1. accounts' =
              IF ~Written(q, w) THEN [accounts EXCEPT ![b].excused = TRUE]
              ELSE IF w = "link" THEN [accounts EXCEPT ![b].link = q.school]
              ELSE [accounts EXCEPT ![b].tenant = q.school,
                                    ![b].late = schools[q.school].deleting]
    BY <1>1, MoveRow
  <2>2. CASE ~Written(q, w)
    BY <2>1, <2>2
  <2>3. CASE Written(q, w) /\ w = "link"
    BY <2>1, <2>3
  <2>4. CASE Written(q, w) /\ w # "link"
    BY <1>2, <2>1, <2>4
  <2> QED BY <2>2, <2>3, <2>4
<1>5. /\ DOMAIN accounts' = DOMAIN accounts /\ accounts'[b] = v
      /\ \A j \in DOMAIN accounts : j # b => accounts'[j] = accounts[j]
  BY <1>2, <1>4, SetAccount
<1>6. /\ ~Written(q, w) => v.excused
      /\ Written(q, w) => v.excused = accounts[b].excused /\ v.gone = accounts[b].gone
      /\ Written(q, w) /\ w = "link" => v.link = q.school /\ v.tenant = accounts[b].tenant
      /\ Written(q, w) /\ w = "tenant" => v.tenant = q.school /\ v.link = accounts[b].link
  BY <1>3, <1>4 DEF Account
<1>7. ~accounts[b].gone /\ ~accounts[b].excused =>
        Serves(q, accounts[b]) /\ HandlersOf(b)' \subseteq {r}
  BY <1>1, <1>2, <1>3, Alone
<1>8. ASSUME Written(q, w), Serves(q, accounts[b])
      PROVE  p.account = b /\ Serves(p, accounts'[b])
  <2>1. /\ ~q.failed
        /\ "link" \in q.todo \/ accounts[b].link = q.school
        /\ "tenant" \in q.todo \/ accounts[b].tenant = q.school
    BY <1>2, <1>8 DEF Serves
  <2>2. /\ p.school = q.school /\ p.account = b
        /\ \/ p.at = "move" /\ p.todo = q.todo \ {w} /\ ~p.failed
           \/ p.at = "profile" /\ q.todo \ {w} = {}
    <3>1. \/ ~Written(q, w) \/ q.failed
          \/ /\ p.school = q.school /\ p.account = q.account
             /\ \/ p.at = "move" /\ p.todo = q.todo \ {w} /\ (p.failed <=> ~Written(q, w))
                \/ p.at = "profile" /\ q.todo \ {w} = {}
      BY MoveDigest
    <3> QED BY <1>1, <1>8, <2>1, <3>1
  <2>3. CASE w = "link"
    BY <1>5, <1>6, <1>8, <2>1, <2>2, <2>3 DEF Serves
  <2>4. CASE w = "tenant"
    BY <1>5, <1>6, <1>8, <2>1, <2>2, <2>4 DEF Serves
  <2> QED BY <2>2, <2>3, <2>4
<1>9. AccountKept(b)'
  BY <1>5, <1>6, <1>7, <1>8, AloneKept
<1> HIDE DEF q, p
<1> QED BY <1>1, <1>2, <1>3, <1>5, <1>9, WholeStep DEF q, p

LEMMA EndWhole ==
  ASSUME Typed, WholeInv, NEW r \in Requests, RemoveUser(r) \/ Fail(r)
  PROVE  WholeInv'
<1>1. PICK b : b = req[r].account
  OBVIOUS
<1>2. /\ OthersStay(r) /\ req'[r].account = 0 /\ b \in DOMAIN accounts \cup {0}
      /\ RemoveUser(r) => b \in DOMAIN accounts
      /\ 0 \notin DOMAIN accounts
  <2>1. Ends(r) /\ (RemoveUser(r) => req[r].at = "remove")
    BY StepDigest
  <2>2. OthersStay(r) /\ req'[r].account = 0
    <3>1. OthersStay(r) /\ req'[r] = Idle
      BY <2>1 DEF Ends
    <3> QED BY <3>1 DEF Idle
  <2>3. b \in DOMAIN accounts \cup {0} /\ 0 \notin DOMAIN accounts
    BY <1>1, Types DEF Knows
  <2>4. RemoveUser(r) => b \in DOMAIN accounts
    BY <1>1, <2>1, AtHand
  <2> QED BY <2>2, <2>3, <2>4
<1>3. CASE accounts' = accounts /\ b = 0
  BY <1>1, <1>2, <1>3, WholeStep
<1>4. CASE ~(accounts' = accounts /\ b = 0)
  <2>1. PICK v : /\ \/ v = [accounts[b] EXCEPT !.gone = TRUE]
                    \/ v = [accounts[b] EXCEPT !.excused = TRUE]
                 /\ accounts' = [accounts EXCEPT ![b] = v]
                 /\ b \in DOMAIN accounts
    BY <1>1, <1>2, <1>4 DEF RemoveUser, Fail
  <2>2. v.gone \/ v.excused
    BY <2>1, Types DEF Account
  <2>3. /\ DOMAIN accounts' = DOMAIN accounts /\ accounts'[b] = v
        /\ \A j \in DOMAIN accounts : j # b => accounts'[j] = accounts[j]
    BY <2>1, SetAccount
  <2>4. AccountKept(b)'
    BY <2>2, <2>3 DEF AccountKept
  <2> QED BY <1>1, <1>2, <2>3, <2>4, WholeStep
<1> QED BY <1>3, <1>4

-----------------------------------------------------------------------------
(***************************************************************************)
(* Codes keep their limits.                                                *)
(***************************************************************************)
\* A code that nothing is written to that matters.
QuietCode(c) ==
    ~codes'[c].gone /\ ~codes'[c].excused =>
        /\ ~codes[c].gone /\ ~codes[c].excused
        /\ codes'[c].used = codes[c].used
        /\ codes'[c].limit = codes[c].limit
        /\ codes'[c].single = codes[c].single
        /\ codes'[c].free = codes[c].free
        /\ codes'[c].admitted = codes[c].admitted

\* A step of handlers of the code b, or of none.
LEMMA CodesKeep ==
  ASSUME CodesInv, NEW b,
         \A o \in Requests : \/ req'[o] = req[o]
                             \/ req[o].code \in {0, b} /\ req'[o].code \in {0, b},
         0 \notin DOMAIN codes,
         DOMAIN codes' \subseteq DOMAIN codes \cup {b},
         \A c \in DOMAIN codes : c # b => QuietCode(c),
         b \in DOMAIN codes' => CodeKept(b)'
  PROVE  CodesInv'
<1>1. ASSUME NEW c \in DOMAIN codes', c # b PROVE CodeKept(c)'
  <2>1. c \in DOMAIN codes /\ c # 0 /\ CodeKept(c)
    BY <1>1 DEF CodesInv
  <2>2. \A o \in Requests : req[o].code = c \/ req'[o].code = c => req'[o] = req[o]
    BY <1>1, <2>1
  <2>3. UsersOf(c)' = UsersOf(c) /\ \A o \in UsersOf(c) : req'[o] = req[o]
    BY <2>2 DEF UsersOf
  <2> QED BY <1>1, <2>1, <2>3 DEF CodeKept, QuietCode, Uses, Counts, Within
<1> QED BY <1>1 DEF CodesInv

LEMMA CodesStep ==
  ASSUME Typed, CodesInv, NEW r \in Requests, NEW b, OthersStay(r),
         req[r].code \in {0, b}, req'[r].code \in {0, b},
         DOMAIN codes' \subseteq DOMAIN codes \cup {b},
         \A c \in DOMAIN codes : c # b => codes'[c] = codes[c],
         b \in DOMAIN codes' => CodeKept(b)'
  PROVE  CodesInv'
<1>1. \A c \in DOMAIN codes : c # b => QuietCode(c)
  BY DEF QuietCode
<1>2. 0 \notin DOMAIN codes
  BY Types
<1> QED BY <1>1, <1>2, CodesKeep DEF OthersStay

LEMMA UserAlone ==
  ASSUME NEW b, NEW r \in Requests, OthersStay(r), CodeKept(b), req[r].code = b,
         ~codes[b].gone, ~codes[b].excused
  PROVE  /\ Uses(req[r], codes[b]) /\ UsersOf(b)' \subseteq {r}
         /\ Within(codes[b])
BY DEF OthersStay, CodeKept, UsersOf

LEMMA UserAloneKept ==
  ASSUME NEW b, NEW r \in Requests,
         ~codes'[b].gone /\ ~codes'[b].excused =>
            /\ UsersOf(b)' \subseteq {r}
            /\ Within(codes'[b])
            /\ IF req'[r].code = b THEN Uses(req'[r], codes'[b])
               ELSE codes'[b].used + codes'[b].free = codes'[b].admitted
  PROVE  CodeKept(b)'
BY DEF CodeKept, UsersOf

LEMMA ValidateCodes ==
  ASSUME Typed, CodesInv, NEW r \in Requests, NEW b, NEW email, RegisterValidate(r, b, email)
  PROVE  CodesInv'
<1>1. b \in DOMAIN codes /\ Valid(b)
  BY DEF RegisterValidate
<1>2. PICK x : x = (codes[b].excused \/ UsersOf(b) # {})
  OBVIOUS
<1>3. codes' = [codes EXCEPT ![b].excused = x]
  BY <1>2, Zenon DEF RegisterValidate
<1>4. PICK v : v = [codes[b] EXCEPT !.excused = x] /\ codes' = [codes EXCEPT ![b] = v]
  BY <1>3
<1>5. /\ DOMAIN codes' = DOMAIN codes /\ codes'[b] = v
      /\ \A j \in DOMAIN codes : j # b => codes'[j] = codes[j]
  BY <1>1, <1>4, SetCode
<1>6. codes[b] \in Code /\ CodeKept(b)
  BY <1>1, Types DEF CodesInv
<1>7. /\ v.excused = x /\ v.gone = codes[b].gone /\ v.used = codes[b].used
      /\ v.limit = codes[b].limit /\ v.admitted = codes[b].admitted
      /\ v.free = codes[b].free
  BY <1>4, <1>6 DEF Code
<1>8. OthersStay(r) /\ req[r].code = 0 /\ req'[r].at = "reread" /\ req'[r].code = b
  BY StartsDigest DEF StartsAs, Idle
<1>9. ASSUME ~v.gone, ~v.excused
      PROVE  /\ UsersOf(b)' \subseteq {r} /\ v.used + v.free = v.admitted
             /\ v.limit # None => v.used < v.limit
  <2>1. ~codes[b].gone /\ ~codes[b].excused /\ UsersOf(b) = {}
    BY <1>2, <1>6, <1>7, <1>9 DEF Code
  <2>2. UsersOf(b)' \subseteq {r}
    BY <1>8, <2>1 DEF UsersOf, OthersStay
  <2> QED BY <1>1, <1>6, <1>7, <2>1, <2>2 DEF CodeKept, Valid
<1>10. /\ v.used \in Nat /\ v.admitted \in Nat /\ v.free \in Nat
       /\ v.limit # None => v.limit \in Nat
  BY <1>6, <1>7, Bounds DEF Code, Limits
<1>11. CodeKept(b)'
  <2>1. ASSUME ~v.gone, ~v.excused PROVE Uses(req'[r], v) /\ Within(v)
    BY <1>8, <1>9, <1>10, <2>1 DEF Uses, Within
  <2> QED BY <1>5, <1>8, <1>9, <2>1, UserAloneKept
<1> QED BY <1>5, <1>8, <1>11, CodesStep

LEMMA RereadCodes ==
  ASSUME Typed, CodesInv, NEW r \in Requests, RegisterReread(r)
  PROVE  CodesInv'
<1> DEFINE q == req[r]
<1>1. PICK b : b = q.code
  OBVIOUS
<1>2. codes' = codes /\ q.at = "reread" /\ b \in DOMAIN codes /\ b # 0 /\ OthersStay(r)
  BY <1>1, RereadDigest, Types DEF RegisterReread
<1>3. codes[b] \in Code /\ CodeKept(b)
  BY <1>2, Types DEF CodesInv
<1>4. ~codes[b].gone /\ ~codes[b].excused =>
        /\ Uses(q, codes[b]) /\ UsersOf(b)' \subseteq {r}
        /\ Within(codes[b])
  BY <1>1, <1>2, <1>3, UserAlone
<1>5. CASE Ends(r)
  <2>1. req'[r].code = 0
    <3>1. req'[r] = Idle
      BY <1>5 DEF Ends
    <3> QED BY <3>1 DEF Idle
  <2>2. Uses(q, codes[b]) => codes[b].used + codes[b].free = codes[b].admitted
    BY <1>2 DEF Uses
  <2>3. CodeKept(b)'
    BY <1>2, <1>4, <2>1, <2>2, UserAloneKept
  <2> QED BY <1>1, <1>2, <2>1, <2>3, CodesStep
<1>6. CASE ~Ends(r)
  <2>1. /\ req'[r].at = "signup" /\ req'[r].used = codes[b].used
        /\ req'[r].counts = Counts(codes[b])
        /\ req'[r].code = b
    BY <1>1, <1>6, RereadDigest
  <2>2. Uses(q, codes[b]) => Uses(req'[r], codes[b])
    BY <1>2, <2>1 DEF Uses
  <2>3. CodeKept(b)'
    BY <1>2, <1>4, <2>1, <2>2, UserAloneKept
  <2> QED BY <1>1, <1>2, <2>1, <2>3, CodesStep
<1> QED BY <1>5, <1>6

LEMMA SignupCodes ==
  ASSUME Typed, CodesInv, NEW r \in Requests, Signup(r)
  PROVE  CodesInv'
<1> DEFINE q == req[r]
<1>1. PICK b : b = q.code
  OBVIOUS
<1>2. codes' = codes /\ q.at = "signup" /\ OthersStay(r)
  BY SignupDigest
<1>3. \/ req'[r].code = 0 /\ b # 0
      \/ req'[r].code = 0 /\ b = 0
      \/ /\ req'[r].at = "link" /\ req'[r].code = b /\ req'[r].used = q.used
         /\ req'[r].counts = q.counts
  <2>1. CASE Ends(r)
    <3>1. req'[r] = Idle
      BY <2>1 DEF Ends
    <3> QED BY <3>1 DEF Idle
  <2>2. CASE ~Ends(r)
    <3>1. PICK role : SignedUp(r, q.email, role, q.school)
      BY <2>2, SignupDigest
    <3> QED BY <1>1, <3>1 DEF SignedUp
  <2> QED BY <2>1, <2>2
<1>4. CASE b = 0
  BY <1>1, <1>2, <1>3, <1>4, CodesStep, Types
<1>5. CASE b # 0
  <2>1. b \in DOMAIN codes /\ CodeKept(b)
    BY <1>1, <1>2, <1>5, AtHand DEF CodesInv
  <2>2. ~codes[b].gone /\ ~codes[b].excused =>
          /\ Uses(q, codes[b]) /\ UsersOf(b)' \subseteq {r}
          /\ Within(codes[b])
    BY <1>1, <1>2, <2>1, UserAlone
  <2>3. Uses(q, codes[b]) => IF req'[r].code = b THEN Uses(req'[r], codes[b])
                             ELSE codes[b].used + codes[b].free = codes[b].admitted
    BY <1>2, <1>3, <1>5 DEF Uses
  <2>4. CodeKept(b)'
    BY <1>2, <2>2, <2>3, UserAloneKept
  <2> QED BY <1>1, <1>2, <1>3, <2>4, CodesStep
<1> QED BY <1>4, <1>5

LEMMA LinkCodes ==
  ASSUME Typed, CodesInv, NEW r \in Requests,
         Link(r) \/ WriteProfile(r) \/ RegisterCount(r)
  PROVE  CodesInv'
<1> DEFINE q == req[r]
<1>1. PICK b : b = q.code
  OBVIOUS
<1>2. /\ q.at \in {"link", "profile", "count"} /\ OthersStay(r)
      /\ \/ Ends(r)
         \/ Link(r) /\ GoesOnAt(r, "profile")
         \/ WriteProfile(r) /\ q.counts /\ GoesOnAt(r, "count")
  BY StepDigest DEF Ends, GoesOnAt
<1>3. \/ req'[r].code = 0
      \/ /\ req'[r].code = b /\ req'[r].used = q.used /\ req'[r].counts = q.counts
         /\ \/ Link(r) /\ req'[r].at = "profile"
            \/ WriteProfile(r) /\ q.counts /\ req'[r].at = "count"
  <2>1. CASE Ends(r)
    <3>1. req'[r] = Idle
      BY <2>1 DEF Ends
    <3> QED BY <3>1 DEF Idle
  <2>2. CASE ~Ends(r)
    BY <1>1, <1>2, <2>2 DEF GoesOnAt
  <2> QED BY <2>1, <2>2
<1>4. CASE b = 0
  <2>1. ~q.counts /\ q.at # "count"
    BY <1>1, <1>4, Types DEF Knows
  <2>2. codes' = codes
    BY <1>1, <1>4, <2>1 DEF Link, WriteProfile, RegisterCount
  <2> QED BY <1>1, <1>2, <1>3, <1>4, <2>2, CodesStep, Types
<1>5. CASE b # 0
  <2>1. b \in DOMAIN codes /\ CodeKept(b) /\ codes[b] \in Code /\ q \in Handler
    BY <1>1, <1>2, <1>5, AtHand, Types DEF CodesInv
  <2>2. ~codes[b].gone /\ ~codes[b].excused =>
          /\ Uses(q, codes[b]) /\ UsersOf(b)' \subseteq {r}
          /\ Within(codes[b])
    BY <1>1, <1>2, <2>1, UserAlone
  <2>3. /\ codes[b].used \in Nat /\ codes[b].admitted \in Nat /\ codes[b].free \in Nat
        /\ codes[b].limit # None => codes[b].limit \in Nat
        /\ q.used \in Nat /\ q.counts \in BOOLEAN
    BY <2>1, Bounds DEF Code, Limits, Handler
  <2>4. CASE Link(r)
    <3>1. q.at = "link" /\ (Ends(r) => codes' = codes)
      <4>1. q.at = "link" /\ IF Live(q.account) /\ schools[q.school].row
                             THEN GoesOnAt(r, "profile") ELSE Ends(r)
        BY <2>4, StepDigest
      <4>2. ~(GoesOnAt(r, "profile") /\ Ends(r))
        BY DEF GoesOnAt, Ends, Idle
      <4> QED BY <2>4, <4>1, <4>2 DEF Link
    <3>2. CASE codes' = codes /\ req'[r].code = 0
      <4>1. Uses(q, codes[b]) => codes[b].used + codes[b].free = codes[b].admitted
        BY <3>1 DEF Uses
      <4>2. CodeKept(b)'
        BY <1>5, <2>2, <3>2, <4>1, UserAloneKept
      <4> QED BY <1>1, <1>2, <1>3, <3>2, <4>2, CodesStep
    <3>3. CASE codes' = [codes EXCEPT ![b] = Admitting(codes[b])] /\ req'[r].code = b
      <4>1. PICK v : v = Admitting(codes[b]) /\ codes' = [codes EXCEPT ![b] = v]
        BY <3>3
      <4>2. /\ DOMAIN codes' = DOMAIN codes /\ codes'[b] = v
            /\ \A j \in DOMAIN codes : j # b => codes'[j] = codes[j]
        BY <2>1, <4>1, SetCode
      <4>3. /\ v.admitted = codes[b].admitted + 1 /\ v.used = codes[b].used
            /\ v.free = IF Counts(codes[b]) THEN codes[b].free ELSE codes[b].free + 1
            /\ v.limit = codes[b].limit /\ v.single = codes[b].single
            /\ v.gone = codes[b].gone /\ v.excused = codes[b].excused
        BY <2>1, <4>1 DEF Admitting, Code
      <4>4. Counts(v) <=> Counts(codes[b])
        BY <4>3 DEF Counts
      <4>5. Uses(q, codes[b]) => Uses(req'[r], v) /\ Within(v)
        <5>1. req'[r].at = "profile" /\ req'[r].used = q.used /\ req'[r].counts = q.counts
          <6>1. ~WriteProfile(r)
            BY <3>1 DEF WriteProfile
          <6> QED BY <1>3, <1>5, <3>3, <6>1
        <5>2. ASSUME Uses(q, codes[b])
              PROVE  /\ codes[b].used + codes[b].free = codes[b].admitted
                     /\ q.used = codes[b].used /\ (q.counts <=> Counts(codes[b]))
                     /\ codes[b].limit # None => codes[b].used < codes[b].limit
          BY <3>1, <5>2 DEF Uses
        <5>3. codes[b].limit # None => Counts(codes[b])
          BY DEF Counts
        <5> HIDE DEF q
        <5>4. ASSUME Uses(q, codes[b]) PROVE Uses(req'[r], v)
          BY <2>3, <4>3, <4>4, <5>1, <5>2, <5>4 DEF Uses
        <5>5. ASSUME Uses(q, codes[b]) PROVE Within(v)
          BY <2>3, <4>3, <5>2, <5>3, <5>5 DEF Within
        <5> QED BY <5>4, <5>5
      <4>6. CodeKept(b)'
        BY <2>2, <3>3, <4>2, <4>3, <4>5, UserAloneKept
      <4> QED BY <1>1, <1>2, <1>3, <4>2, <4>6, CodesStep
    <3>4. \/ codes' = codes /\ req'[r].code = 0
          \/ codes' = [codes EXCEPT ![b] = Admitting(codes[b])] /\ req'[r].code = b
      <4>1. CASE Live(q.account) /\ schools[q.school].row
        <5>1. req'[r].code = b
          BY <1>1, <2>4, <4>1, StepDigest DEF GoesOnAt
        <5>2. codes' = [codes EXCEPT ![b] = Admitting(@)]
          BY <1>1, <1>5, <2>4, <4>1 DEF Link
        <5> QED BY <2>1, <5>1, <5>2
      <4>2. CASE ~(Live(q.account) /\ schools[q.school].row)
        <5>1. Ends(r)
          BY <2>4, <4>2, StepDigest
        <5>2. req'[r] = Idle
          BY <5>1 DEF Ends
        <5>3. req'[r].code = 0
          BY <5>2 DEF Idle
        <5> QED BY <3>1, <5>1, <5>3
      <4> QED BY <4>1, <4>2
    <3> QED BY <3>2, <3>3, <3>4
  <2>5. CASE WriteProfile(r)
    <3>1. q.at = "profile"
      BY <2>5 DEF WriteProfile
    <3>2. CASE Live(q.account)
      <4>1. codes' = codes
        BY <2>5, <3>2 DEF WriteProfile
      <4>2. q.counts => req'[r].at = "count" /\ req'[r].code = b /\ req'[r].used = q.used
                        /\ req'[r].counts = q.counts
        BY <1>1, <2>5, <3>2, StepDigest DEF GoesOnAt
      <4>3. ~q.counts => req'[r].code = 0
        <5>1. ~q.counts => Ends(r)
          BY <2>5, <3>2, StepDigest
        <5>2. ~q.counts => req'[r] = Idle
          BY <5>1 DEF Ends
        <5> QED BY <5>2 DEF Idle
      <4>4. Uses(q, codes[b]) => IF req'[r].code = b THEN Uses(req'[r], codes[b])
                                 ELSE codes[b].used + codes[b].free = codes[b].admitted
        <5> HIDE DEF q
        <5> QED BY <1>5, <2>3, <3>1, <4>2, <4>3 DEF Uses
      <4>5. CodeKept(b)'
        BY <2>2, <4>1, <4>4, UserAloneKept
      <4> QED BY <1>1, <1>2, <1>3, <4>1, <4>5, CodesStep
    <3>3. CASE ~Live(q.account)
      <4>1. PICK v : /\ v = [codes[b] EXCEPT !.excused = TRUE]
                     /\ codes' = [codes EXCEPT ![b] = v]
        BY <1>1, <1>5, <2>5, <3>3 DEF WriteProfile
      <4>2. /\ DOMAIN codes' = DOMAIN codes /\ codes'[b] = v /\ v.excused
            /\ \A j \in DOMAIN codes : j # b => codes'[j] = codes[j]
        BY <2>1, <4>1, SetCode DEF Code
      <4>3. CodeKept(b)'
        BY <4>2 DEF CodeKept
      <4> QED BY <1>1, <1>2, <1>3, <4>2, <4>3, CodesStep
    <3> QED BY <3>2, <3>3
  <2>6. CASE RegisterCount(r)
    <3>1. q.at = "count" /\ req'[r].code = 0
      <4>1. q.at = "count" /\ Ends(r)
        BY <2>6, StepDigest
      <4>2. req'[r] = Idle
        BY <4>1 DEF Ends
      <4> QED BY <4>1, <4>2 DEF Idle
    <3>2. CASE codes[b].gone
      <4>1. codes' = codes
        BY <1>1, <2>6, <3>2 DEF RegisterCount
      <4>2. CodeKept(b)'
        BY <3>2, <4>1 DEF CodeKept
      <4> QED BY <1>1, <1>2, <1>3, <4>1, <4>2, CodesStep
    <3>3. CASE ~codes[b].gone
      <4>1. PICK v : /\ v = [codes[b] EXCEPT !.used = q.used + 1]
                     /\ codes' = [codes EXCEPT ![b] = v]
        BY <1>1, <2>6, <3>3 DEF RegisterCount
      <4>2. /\ DOMAIN codes' = DOMAIN codes /\ codes'[b] = v
            /\ \A j \in DOMAIN codes : j # b => codes'[j] = codes[j]
        BY <2>1, <4>1, SetCode
      <4>3. /\ v.used = q.used + 1 /\ v.admitted = codes[b].admitted
            /\ v.limit = codes[b].limit /\ v.gone = codes[b].gone
            /\ v.free = codes[b].free /\ v.excused = codes[b].excused
        BY <2>1, <4>1 DEF Code
      <4>4. Uses(q, codes[b]) => v.used + v.free = v.admitted
        <5>1. q.counts
          BY <3>1, Types DEF Knows
        <5> HIDE DEF q
        <5> QED BY <2>3, <3>1, <4>3, <5>1 DEF Uses
      <4>6. Within(codes[b]) => Within(v)
        BY <4>3 DEF Within
      <4>5. CodeKept(b)'
        BY <1>5, <2>2, <3>1, <4>2, <4>3, <4>4, <4>6, UserAloneKept
      <4> QED BY <1>1, <1>2, <1>3, <4>2, <4>5, CodesStep
    <3> QED BY <3>2, <3>3
  <2> QED BY <2>4, <2>5, <2>6
<1> QED BY <1>4, <1>5

\* Steps that are at no code, a code for a grade's section, and a failing call.
LEMMA QuietCodes ==
  ASSUME Typed, CodesInv, NEW r \in Requests,
         \/ \E d : CreatesSchool(r, d)
         \/ \E s \in 1..MaxSchools : InitStructure(r, s) \/ DeleteSchool(r, s)
         \/ \E s \in 1..MaxSchools, email \in Emails :
              \/ UpdateSchoolAppoint(r, s, email) \/ UpdateSchoolAdmin(r, s, email)
              \/ CreateAdmin(r, s, email)
         \/ \E a \in 1..MaxAccounts, s \in 1..MaxSchools : MoveAdmin(r, a, s)
         \/ \E a \in 1..MaxAccounts : RemoveAdmin(r, a)
         \/ SchoolRow(r) \/ CreateGrade(r)
         \/ DropUsers(r) \/ DropSchool(r) \/ DropTenant(r) \/ RemoveUser(r)
         \/ \E w \in {"link", "tenant"} : MoveWrite(r, w)
  PROVE  CodesInv'
<1>0. Idle.code = 0 /\ 0 \notin DOMAIN codes
  BY Types DEF Idle
<1>1. req[r].code = 0 /\ req'[r].code = 0 /\ OthersStay(r)
  <2>1. CASE \/ \E s \in 1..MaxSchools : InitStructure(r, s) \/ DeleteSchool(r, s)
             \/ \E s \in 1..MaxSchools, email \in Emails :
                  UpdateSchoolAppoint(r, s, email) \/ CreateAdmin(r, s, email)
             \/ \E a \in 1..MaxAccounts, s \in 1..MaxSchools : MoveAdmin(r, a, s)
             \/ \E a \in 1..MaxAccounts : RemoveAdmin(r, a)
    BY <1>0, <2>1, StartsDigest DEF StartsAs
  <2>2. CASE \E s \in 1..MaxSchools, email \in Emails : UpdateSchoolAdmin(r, s, email)
    BY <1>0, <2>2, UpdateDigest DEF StartsAs
  <2>3. CASE \E d : CreatesSchool(r, d)
    BY <1>0, <2>3, Created DEF OthersStay
  <2>4. CASE \/ SchoolRow(r) \/ CreateGrade(r)
             \/ DropUsers(r) \/ DropSchool(r) \/ DropTenant(r) \/ RemoveUser(r)
    <3>1. /\ req[r].at \in {"row", "grade", "dropUsers", "dropSchool", "dropTenant", "remove"}
          /\ Ends(r) \/ \E at : GoesOnAt(r, at)
      BY <2>4, StepDigest
    <3>2. req[r].code = 0
      BY <3>1, Types DEF Knows
    <3> QED BY <1>0, <3>1, <3>2 DEF Ends, GoesOnAt
  <2>5. CASE \E w \in {"link", "tenant"} : MoveWrite(r, w)
    <3>1. req[r].code = 0 /\ OthersStay(r) /\ (req'[r] = Idle \/ req'[r].code = 0)
      BY <2>5, MoveDigest
    <3> QED BY <1>0, <3>1
  <2> QED BY <2>1, <2>2, <2>3, <2>4, <2>5
<1>2. CASE codes' = codes
  <2>1. \A c \in DOMAIN codes : QuietCode(c)
    BY <1>2 DEF QuietCode
  <2> QED BY <1>0, <1>1, <1>2, <2>1, CodesKeep DEF OthersStay
<1>3. CASE DropSchool(r)
  <2>1. codes' = [c \in DOMAIN codes |->
                    [codes[c] EXCEPT !.gone = @ \/ codes[c].school = req[r].school]]
    BY <1>3 DEF DropSchool
  <2>2. ASSUME NEW c \in DOMAIN codes PROVE QuietCode(c)
    <3>1. codes'[c] = [codes[c] EXCEPT !.gone = @ \/ codes[c].school = req[r].school]
      BY <2>1
    <3>2. codes[c] \in Code
      BY Types
    <3> QED BY <3>1, <3>2 DEF QuietCode, Code
  <2>3. DOMAIN codes' = DOMAIN codes
    BY <2>1
  <2> QED BY <1>0, <1>1, <2>2, <2>3, CodesKeep DEF OthersStay
<1>4. codes' = codes \/ DropSchool(r)
  <2>1. CASE \E d : CreatesSchool(r, d)
    BY <2>1, Created
  <2>2. CASE \E w \in {"link", "tenant"} : MoveWrite(r, w)
    BY <2>2, MoveDigest
  <2> QED
    BY <2>1, <2>2 DEF InitStructure, DeleteSchool, UpdateSchoolAppoint, UpdateSchoolAdmin,
                      CreateAdmin, MoveAdmin, RemoveAdmin, SchoolRow, CreateGrade,
                      DropUsers, DropTenant, RemoveUser
<1> QED BY <1>2, <1>3, <1>4

\* A code that is added.
LEMMA NewCodeKept ==
  ASSUME Typed, CodesInv, NEW s \in DOMAIN schools, NEW limit \in Limits,
         NEW single \in BOOLEAN, NEW ofGrade \in BOOLEAN,
         codes' = Append(codes, NewCode(s, limit, single, ofGrade)), Len(codes) < MaxCodes,
         \A o \in Requests : req'[o] = req[o] \/ (req[o].code = 0 /\ req'[o].code = 0)
  PROVE  /\ CodesInv' /\ DOMAIN codes' = DOMAIN codes \cup {Len(codes) + 1}
         /\ Len(codes) + 1 \notin DOMAIN codes
         /\ \A c \in DOMAIN codes : codes'[c] = codes[c]
         /\ codes'[Len(codes) + 1] = NewCode(s, limit, single, ofGrade)
<1>1. PICK n : n = Len(codes) + 1
  OBVIOUS
<1>2. NewCode(s, limit, single, ofGrade) \in Code /\ NewCode(s, limit, single, ofGrade).school = s
  BY NewRows DEF NewCode
<1>3. /\ DOMAIN codes' = DOMAIN codes \cup {n} /\ n \notin DOMAIN codes
      /\ codes'[n] = NewCode(s, limit, single, ofGrade)
      /\ \A c \in DOMAIN codes : codes'[c] = codes[c]
  BY <1>1, <1>2, AddCode
<1>4. UsersOf(n)' = {}
  <2>1. \A o \in Requests : req[o].code # n
    BY <1>1, <1>3, Types DEF Knows
  <2>2. n # 0
    BY <1>1, Types
  <2> QED BY <2>1, <2>2 DEF UsersOf
<1>5. CodeKept(n)'
  <2>1. /\ codes'[n].used = 0 /\ codes'[n].admitted = 0 /\ codes'[n].free = 0
        /\ codes'[n].limit = limit /\ (limit # None => limit \in Nat)
    BY <1>3, Bounds DEF NewCode, Limits
  <2> QED BY <1>4, <2>1 DEF CodeKept, Within
<1>6. 0 \notin DOMAIN codes /\ \A c \in DOMAIN codes : QuietCode(c)
  BY <1>3, Types DEF QuietCode
<1>7. CodesInv'
  BY <1>3, <1>5, <1>6, CodesKeep
<1> QED BY <1>1, <1>3, <1>7

LEMMA GradeCodeUses ==
  ASSUME Typed, CodesInv, NEW r \in Requests, CreateGradeCode(r)
  PROVE  CodesInv'
<1>1. /\ req[r].at = "code" /\ req[r].code = 0 /\ req[r].school \in DOMAIN schools
      /\ OthersStay(r) /\ req'[r].code = 0 /\ 0 \notin DOMAIN codes
  <2>1. req[r].at = "code" /\ (Ends(r) \/ GoesOnAt(r, "signup") \/ GoesOnAt(r, "grade"))
    BY StepDigest DEF CodeEnds
  <2>2. req[r].code = 0 /\ req[r].school \in DOMAIN schools /\ 0 \notin DOMAIN codes
    BY <2>1, AtHand, Types DEF Knows
  <2>3. OthersStay(r) /\ (req'[r] = Idle \/ req'[r].code = 0)
    BY <2>1, <2>2 DEF Ends, GoesOnAt
  <2> QED BY <2>1, <2>2, <2>3 DEF Idle
<1>2. CASE codes' = codes
  <2>1. \A c \in DOMAIN codes : QuietCode(c)
    BY <1>2 DEF QuietCode
  <2> QED BY <1>1, <1>2, <2>1, CodesKeep DEF OthersStay
<1>3. CASE codes' # codes
  <2>1. /\ codes' = Append(codes, NewCode(req[r].school, None, req[r].single, TRUE))
        /\ Len(codes) < MaxCodes
    BY <1>3 DEF CreateGradeCode
  <2>2. /\ \A o \in Requests : req'[o] = req[o] \/ (req[o].code = 0 /\ req'[o].code = 0)
        /\ None \in Limits /\ req[r].single \in BOOLEAN
    BY <1>1, Types DEF OthersStay, Limits, Handler
  <2> QED BY <1>1, <2>1, <2>2, NewCodeKept
<1> QED BY <1>2, <1>3

LEMMA AtOnceCodes ==
  ASSUME Typed, CodesInv, AtOnceStep
  PROVE  CodesInv'
<1>0. req' = req /\ 0 \notin DOMAIN codes
  BY Types DEF AtOnceStep, CreateAccount, UpdateSchool, CreateCode, Regenerate, EditCode,
               AtOnce
<1>1. CASE UNCHANGED codes
  <2>1. \A c \in DOMAIN codes : QuietCode(c)
    BY <1>1 DEF QuietCode
  <2> QED BY <1>0, <1>1, <2>1, CodesKeep
<1>2. ASSUME NEW s \in 1..MaxSchools, NEW limit \in Limits, NEW single \in BOOLEAN,
             CreateCode(s, limit, single)
      PROVE  CodesInv'
  <2>1. /\ s \in DOMAIN schools /\ Len(codes) < MaxCodes
        /\ codes' = Append(codes, NewCode(s, limit, single, FALSE))
    BY <1>2 DEF CreateCode
  <2> QED BY <1>0, <2>1, NewCodeKept
<1>3. ASSUME NEW c \in DOMAIN codes, NEW v, codes' = [codes EXCEPT ![c] = v],
             ~v.gone /\ ~v.excused =>
                /\ UsersOf(c) = {}
                /\ v.used + v.free = v.admitted /\ Within(v)
      PROVE  CodesInv'
  <2>1. /\ DOMAIN codes' = DOMAIN codes /\ codes'[c] = v
        /\ \A j \in DOMAIN codes : j # c => codes'[j] = codes[j]
    BY <1>3, SetCode
  <2>2. CodeKept(c)'
    BY <1>0, <1>3, <2>1 DEF CodeKept, UsersOf
  <2>3. \A j \in DOMAIN codes : j # c => QuietCode(j)
    BY <2>1 DEF QuietCode
  <2> QED BY <1>0, <2>1, <2>2, <2>3, CodesKeep
<1>4. ASSUME NEW c \in 1..MaxCodes, Regenerate(c) PROVE CodesInv'
  <2>1. PICK x \in BOOLEAN : x <=> UsersOf(c) # {}
    OBVIOUS
  <2>2. c \in DOMAIN codes
    BY <1>4 DEF Regenerate
  <2>3. codes' = [codes EXCEPT ![c].word = @ + 1, ![c].used = 0, ![c].admitted = 0,
                               ![c].free = 0, ![c].excused = x]
    <3>1. x = (UsersOf(c) # {})
      BY <2>1
    <3> QED BY <1>4, <3>1, Zenon DEF Regenerate
  <2>4. PICK v : /\ v = [codes[c] EXCEPT !.word = @ + 1, !.used = 0, !.admitted = 0,
                                         !.free = 0, !.excused = x]
                 /\ codes' = [codes EXCEPT ![c] = v]
    BY <2>2, <2>3, Types
  <2>5. codes[c] \in Code
    BY <2>2, Types
  <2>6. /\ v.excused = x /\ v.used = 0 /\ v.admitted = 0 /\ v.free = 0
        /\ v.limit = codes[c].limit /\ (v.limit # None => v.limit \in Nat)
    BY <2>4, <2>5, Bounds DEF Code, Limits
  <2>7. /\ ~v.excused => UsersOf(c) = {}
        /\ v.used + v.free = v.admitted /\ Within(v)
    <3>1. ~v.excused => UsersOf(c) = {}
      BY <2>1, <2>6
    <3> QED BY <2>6, <3>1 DEF Within
  <2> QED BY <1>3, <2>2, <2>4, <2>7
<1>5. ASSUME NEW c \in 1..MaxCodes, NEW limit \in Limits, NEW single \in BOOLEAN,
             NEW active \in BOOLEAN, EditCode(c, limit, single, active)
      PROVE  CodesInv'
  <2>1. PICK x : x = (\/ codes[c].excused \/ UsersOf(c) # {}
                      \/ limit # None /\ codes[c].used > limit)
    OBVIOUS
  <2>2. c \in DOMAIN codes /\ ~codes[c].gone
    BY <1>5 DEF EditCode
  <2>3. codes' = [codes EXCEPT ![c].limit = limit, ![c].single = single, ![c].active = active, ![c].excused = x]
    BY <1>5, <2>1, Zenon DEF EditCode
  <2>4. PICK v : /\ v = [codes[c] EXCEPT !.limit = limit, !.single = single, !.active = active,
                                !.excused = x]
                 /\ codes' = [codes EXCEPT ![c] = v]
    BY <2>2, <2>3, Types
  <2>5. codes[c] \in Code /\ CodeKept(c)
    BY <2>2, Types DEF CodesInv
  <2>6. /\ v.excused = x /\ v.used = codes[c].used /\ v.admitted = codes[c].admitted
        /\ v.limit = limit /\ v.free = codes[c].free /\ codes[c].admitted \in Nat
        /\ codes[c].used \in Nat /\ codes[c].free \in Nat /\ (limit # None => limit \in Nat)
    BY <2>4, <2>5, Bounds DEF Code, Limits
  <2>7. ASSUME ~v.gone, ~v.excused
        PROVE  /\ UsersOf(c) = {}
               /\ v.used + v.free = v.admitted /\ Within(v)
    <3>1. ~codes[c].excused /\ UsersOf(c) = {} /\ ~(limit # None /\ codes[c].used > limit)
      BY <2>1, <2>6, <2>7
    <3>2. codes[c].used + codes[c].free = codes[c].admitted
      BY <2>2, <2>5, <3>1 DEF CodeKept
    <3> QED BY <2>6, <3>1, <3>2 DEF Within
  <2> QED BY <1>3, <2>2, <2>4, <2>7
<1> QED BY <1>1, <1>2, <1>4, <1>5 DEF AtOnceStep, CreateAccount, UpdateSchool

LEMMA FailCodes ==
  ASSUME Typed, CodesInv, NEW r \in Requests, Fail(r)
  PROVE  CodesInv'
<1>1. PICK b : b = req[r].code
  OBVIOUS
<1>2. OthersStay(r) /\ req'[r].code = 0 /\ b \in DOMAIN codes \cup {0} /\ 0 \notin DOMAIN codes
  <2>1. Ends(r) /\ b \in DOMAIN codes \cup {0} /\ 0 \notin DOMAIN codes
    BY <1>1, StepDigest, Types DEF Knows
  <2>2. OthersStay(r) /\ req'[r] = Idle
    BY <2>1 DEF Ends
  <2> QED BY <2>1, <2>2 DEF Idle
<1>3. CASE b = 0
  <2>1. codes' = codes
    BY <1>1, <1>3 DEF Fail
  <2> QED BY <1>1, <1>2, <1>3, <2>1, CodesStep
<1>4. CASE b # 0
  <2>1. PICK v : /\ v = [codes[b] EXCEPT !.excused = TRUE] /\ b \in DOMAIN codes
                 /\ codes' = [codes EXCEPT ![b] = v]
    BY <1>1, <1>2, <1>4 DEF Fail
  <2>2. /\ DOMAIN codes' = DOMAIN codes /\ codes'[b] = v /\ v.excused
        /\ \A j \in DOMAIN codes : j # b => codes'[j] = codes[j]
    BY <2>1, SetCode, Types DEF Code
  <2>3. CodeKept(b)'
    BY <2>2 DEF CodeKept
  <2> QED BY <1>1, <1>2, <2>2, <2>3, CodesStep
<1> QED BY <1>3, <1>4

LEMMA InitCodes ==
  ASSUME Init
  PROVE  CodesInv
<1>1. \A r \in Requests : req[r].code = 0
  BY DEF Init, Idle
<1>2. \A c \in DOMAIN codes : UsersOf(c) = {}
  BY <1>1, InitCode DEF UsersOf
<1>3. \A c \in DOMAIN codes : codes[c].limit \in Limits
  <2>1. \A c \in DOMAIN codes : codes[c] \in Code
    BY InitCode
  <2> QED BY <2>1 DEF Code
<1>4. \A c \in DOMAIN codes : Within(codes[c])
  BY <1>3, InitCode, Bounds DEF Within, Limits
<1> QED BY <1>2, <1>4, InitCode DEF CodesInv, CodeKept

-----------------------------------------------------------------------------
(***************************************************************************)
(* Schools are whole.                                                      *)
(***************************************************************************)
Kept(s) == StructureKept(s) /\ CreationKept(s)

\* What is there of a school stays.
RowGrows(x, y) ==
    /\ y.asked = x.asked /\ y.offers = x.offers
    /\ x.row => y.row
    /\ x.grades => y.grades
    /\ x.appointed => y.appointed
    /\ x.half => y.half
    /\ x.deleting => y.deleting
    /\ x.doubled => y.doubled

Grows(s) == RowGrows(schools[s], schools'[s])

\* No grade's code is added, and none is taken away for good.
CodesStay(s) ==
    /\ \A c \in DOMAIN codes' : IsGradeCode(c, s)' => c \in DOMAIN codes /\ IsGradeCode(c, s)
    /\ HasCode(s) => HasCode(s)'

\* A handler that creates the school or its structure.
Builds(q, s) == q.school = s /\ (q.creates \/ q.at \in {"row", "grade", "code"})

\* The codes there are of the sections of a school are so many.
LEMMA CodesCounted ==
  ASSUME Typed, NEW s
  PROVE  IsFiniteSet(GradeCodes(s)) /\ Cardinality(GradeCodes(s)) \in Nat
<1>1. IsFiniteSet(DOMAIN codes)
  <2>1. DOMAIN codes = 1..Len(codes) /\ Len(codes) \in Int
    BY Types
  <2>2. IsFiniteSet(1..Len(codes))
    BY <2>1, FS_Interval
  <2> QED BY <2>1, <2>2
<1>2. GradeCodes(s) \in SUBSET DOMAIN codes
  BY DEF GradeCodes
<1> QED BY <1>1, <1>2, FS_Subset, FS_CardinalityType

LEMMA FewerCodes ==
  ASSUME Typed, NEW s, CodesStay(s)
  PROVE  /\ GradeCodes(s)' \subseteq GradeCodes(s)
         /\ Cardinality(GradeCodes(s)) \in Nat /\ Cardinality(GradeCodes(s)') \in Nat
         /\ Cardinality(GradeCodes(s)') <= Cardinality(GradeCodes(s))
<1>1. IsFiniteSet(GradeCodes(s)) /\ Cardinality(GradeCodes(s)) \in Nat
  BY CodesCounted
<1>2. GradeCodes(s)' \in SUBSET GradeCodes(s)
  BY DEF CodesStay, GradeCodes
<1>3. IsFiniteSet(GradeCodes(s)') /\ Cardinality(GradeCodes(s)') <= Cardinality(GradeCodes(s))
  BY <1>1, <1>2, FS_Subset
<1> QED BY <1>1, <1>2, <1>3, FS_CardinalityType

\* No handler makes more of the structure of the school s than it was to.
SameOffers(s) ==
    \A o \in Requests : o \in StructureHandlers(s)' =>
        o \in StructureHandlers(s) /\ req'[o].offers = req[o].offers

LEMMA OffersKept ==
  ASSUME Typed, NEW s \in DOMAIN schools, StructureKept(s), ~schools[s].doubled,
         CodesStay(s), SameOffers(s)
  PROVE  /\ \A o, p \in StructureHandlers(s)' : o = p
         /\ Cardinality(GradeCodes(s)') <= schools[s].offers
         /\ \A o \in StructureHandlers(s)' :
               Cardinality(GradeCodes(s)') + req'[o].offers <= schools[s].offers
<1>1. PICK m, n : m = Cardinality(GradeCodes(s)) /\ n = Cardinality(GradeCodes(s)')
  OBVIOUS
<1>2. m \in Nat /\ n \in Nat /\ n <= m
  BY <1>1, FewerCodes
<1>3. schools[s].offers \in Nat
  BY Types, Bounds DEF School
<1>4. /\ \A o, p \in StructureHandlers(s) : o = p
      /\ m <= schools[s].offers
      /\ \A o \in StructureHandlers(s) : m + req[o].offers <= schools[s].offers
  BY <1>1 DEF StructureKept
<1>5. \A o \in StructureHandlers(s)' :
         o \in Requests /\ o \in StructureHandlers(s) /\ req'[o].offers = req[o].offers
  BY DEF SameOffers, StructureHandlers
<1>6. \A o \in Requests : req[o].offers \in Nat
  BY Types, Bounds DEF Handler
<1>7. ASSUME NEW o \in StructureHandlers(s)' PROVE n + req'[o].offers <= schools[s].offers
  <2>1. PICK k \in Nat : k = req[o].offers /\ k = req'[o].offers
    BY <1>5, <1>6, <1>7
  <2>2. m + k <= schools[s].offers
    BY <1>4, <1>5, <1>7, <2>1
  <2> QED BY <1>2, <1>3, <2>1, <2>2
<1>8. n <= schools[s].offers
  BY <1>2, <1>3, <1>4
<1> QED BY <1>1, <1>4, <1>5, <1>7, <1>8

LEMMA StructureStep ==
  ASSUME Typed, NEW b \in DOMAIN schools, StructureKept(b), Grows(b), CodesStay(b),
         SameOffers(b)
  PROVE  StructureKept(b)'
<1>1. schools'[b].grades \/ GradeCodes(b)' = {}
  BY FewerCodes DEF StructureKept, Grows, RowGrows
<1>2. CASE schools'[b].doubled
  BY <1>1, <1>2 DEF StructureKept
<1>3. CASE ~schools'[b].doubled
  <2>1. ~schools[b].doubled /\ schools'[b].offers = schools[b].offers
    BY <1>3 DEF Grows, RowGrows
  <2> QED BY <1>1, <2>1, OffersKept DEF StructureKept
<1> QED BY <1>2, <1>3

LEMMA SchoolStays ==
  ASSUME Typed, NEW s \in DOMAIN schools, Kept(s), Grows(s), CodesStay(s),
         \A o \in Requests : Builds(req[o], s) \/ Builds(req'[o], s) => req'[o] = req[o]
  PROVE  Kept(s)'
<1>1. SameOffers(s)
  BY DEF SameOffers, StructureHandlers, Builds
<1>2. StructureKept(s)'
  BY <1>1, StructureStep DEF Kept
<1>3. CreationKept(s)'
  <2>1. \A o \in Requests : (req'[o].school = s /\ req'[o].creates) <=>
                            (req[o].school = s /\ req[o].creates)
    BY DEF Builds
  <2>2. \A o \in Requests : req[o].school = s /\ req[o].creates => req'[o] = req[o]
    BY DEF Builds
  <2> QED BY <2>1, <2>2 DEF Kept, CreationKept, Creates, Grows, RowGrows, CodesStay
<1> QED BY <1>2, <1>3 DEF Kept

\* A step of handlers that build the school b, or none.
LEMMA SchoolsKeep ==
  ASSUME Typed, SchoolsInv, NEW b,
         \A o \in Requests : \/ req'[o] = req[o]
                             \/ \A s : Builds(req[o], s) \/ Builds(req'[o], s) => s = b,
         DOMAIN schools' \subseteq DOMAIN schools \cup {b},
         \A s \in DOMAIN schools : s # b => Grows(s) /\ CodesStay(s),
         b \in DOMAIN schools' => Kept(b)'
  PROVE  SchoolsInv'
<1>1. ASSUME NEW s \in DOMAIN schools', s # b PROVE Kept(s)'
  <2>1. s \in DOMAIN schools /\ Kept(s)
    BY <1>1 DEF SchoolsInv, Kept
  <2>2. Grows(s) /\ CodesStay(s)
    BY <1>1, <2>1
  <2>3. \A o \in Requests : Builds(req[o], s) \/ Builds(req'[o], s) => req'[o] = req[o]
    BY <1>1
  <2> QED BY <2>1, <2>2, <2>3, SchoolStays
<1>2. \A s \in DOMAIN schools' : Kept(s)'
  BY <1>1
<1> QED BY <1>2 DEF SchoolsInv, Kept

\* The codes stay what they are codes of.
RowsKept ==
    \A c \in DOMAIN codes :
        /\ c \in DOMAIN codes'
        /\ codes'[c].school = codes[c].school /\ codes'[c].ofGrade = codes[c].ofGrade
        /\ codes[c].gone => codes'[c].gone

LEMMA RowsStay ==
  ASSUME RowsKept, NEW s,
         \A c \in DOMAIN codes' : c \in DOMAIN codes \/ ~IsGradeCode(c, s)'
  PROVE  CodesStay(s)
<1>1. \A c \in DOMAIN codes' : IsGradeCode(c, s)' => c \in DOMAIN codes /\ IsGradeCode(c, s)
  BY DEF RowsKept, IsGradeCode
<1>2. HasCode(s) => HasCode(s)'
  BY DEF RowsKept, HasCode
<1> QED BY <1>1, <1>2 DEF CodesStay

LEMMA SameRows ==
  ASSUME codes' = codes
  PROVE  \A s : CodesStay(s)
<1>1. RowsKept
  BY DEF RowsKept
<1> QED BY <1>1, RowsStay

LEMMA SetRow ==
  ASSUME Typed, NEW c, NEW v,
         c \in DOMAIN codes =>
            v.school = codes[c].school /\ v.ofGrade = codes[c].ofGrade /\ v.gone = codes[c].gone,
         codes' = [codes EXCEPT ![c] = v]
  PROVE  \A s : CodesStay(s)
<1>1. DOMAIN codes' = DOMAIN codes /\ RowsKept
  BY Types DEF RowsKept
<1> QED BY <1>1, RowsStay

\* A row of a school of which something is raised.
LEMMA Raised ==
  ASSUME Typed, NEW s, NEW x, x \in BOOLEAN,
         \/ schools' = [schools EXCEPT ![s].half = @ \/ x]
         \/ schools' = [schools EXCEPT ![s].appointed = @ \/ x]
         \/ schools' = [schools EXCEPT ![s].doubled = @ \/ x]
         \/ schools' = [schools EXCEPT ![s].half = TRUE]
         \/ schools' = [schools EXCEPT ![s].row = TRUE]
         \/ schools' = [schools EXCEPT ![s].grades = TRUE]
         \/ schools' = [schools EXCEPT ![s].deleting = TRUE]
         \/ schools' = [schools EXCEPT ![s].tenant = FALSE]
         \/ schools' = schools
  PROVE  DOMAIN schools' = DOMAIN schools /\ \A j \in DOMAIN schools : Grows(j)
<1>1. DOMAIN schools' = DOMAIN schools
  BY Types
<1>2. ASSUME NEW j \in DOMAIN schools, j # s \/ schools' = schools PROVE Grows(j)
  <2>1. schools'[j] = schools[j]
    BY <1>2, Types
  <2> QED BY <2>1 DEF Grows, RowGrows
<1>3. ASSUME s \in DOMAIN schools, schools' # schools PROVE Grows(s)
  <2>1. schools[s] \in School
    BY <1>3, Types
  <2>2. PICK h, p, d : /\ h = (schools[s].half \/ x)
                       /\ p = (schools[s].appointed \/ x)
                       /\ d = (schools[s].doubled \/ x)
    OBVIOUS
  <2>3. \/ schools' = [schools EXCEPT ![s].half = h]
        \/ schools' = [schools EXCEPT ![s].appointed = p]
        \/ schools' = [schools EXCEPT ![s].doubled = d]
        \/ schools' = [schools EXCEPT ![s].half = TRUE]
        \/ schools' = [schools EXCEPT ![s].row = TRUE]
        \/ schools' = [schools EXCEPT ![s].grades = TRUE]
        \/ schools' = [schools EXCEPT ![s].deleting = TRUE]
        \/ schools' = [schools EXCEPT ![s].tenant = FALSE]
    BY <1>3, <2>2, Zenon
  <2>4. \/ schools'[s] = [schools[s] EXCEPT !.half = h]
        \/ schools'[s] = [schools[s] EXCEPT !.appointed = p]
        \/ schools'[s] = [schools[s] EXCEPT !.doubled = d]
        \/ schools'[s] = [schools[s] EXCEPT !.half = TRUE]
        \/ schools'[s] = [schools[s] EXCEPT !.row = TRUE]
        \/ schools'[s] = [schools[s] EXCEPT !.grades = TRUE]
        \/ schools'[s] = [schools[s] EXCEPT !.deleting = TRUE]
        \/ schools'[s] = [schools[s] EXCEPT !.tenant = FALSE]
    BY <1>3, <2>3
  <2>5. /\ schools[s].half => h
        /\ schools[s].appointed => p
        /\ schools[s].doubled => d
    BY <2>2
  <2> QED BY <2>1, <2>4, <2>5 DEF Grows, RowGrows, School
<1> QED BY <1>1, <1>2, <1>3

\* A handler that creates no school and no structure.
Builder(q) == q.creates \/ q.at \in {"row", "grade", "code"}

LEMMA QuietSchools ==
  ASSUME Typed, SchoolsInv, NEW r \in Requests, OthersStay(r),
         ~Builder(req[r]), ~Builder(req'[r]),
         DOMAIN schools' = DOMAIN schools,
         \A s \in DOMAIN schools : Grows(s) /\ CodesStay(s)
  PROVE  SchoolsInv'
<1>1. 0 \notin DOMAIN schools
  BY Types
<1> QED BY <1>1, SchoolsKeep DEF OthersStay, Builds, Builder

LEMMA StartsSchools ==
  ASSUME Typed, SchoolsInv, NEW r \in Requests,
         \/ \E c \in 1..MaxCodes, email \in Emails : RegisterValidate(r, c, email)
         \/ \E s \in 1..MaxSchools : DeleteSchool(r, s)
         \/ \E s \in 1..MaxSchools, email \in Emails :
              \/ UpdateSchoolAppoint(r, s, email) \/ UpdateSchoolAdmin(r, s, email)
              \/ CreateAdmin(r, s, email)
         \/ \E a \in 1..MaxAccounts, s \in 1..MaxSchools : MoveAdmin(r, a, s)
         \/ \E a \in 1..MaxAccounts : RemoveAdmin(r, a)
  PROVE  SchoolsInv'
<1>1. /\ req[r] = Idle /\ OthersStay(r) /\ ~req'[r].creates
      /\ req'[r].at \in {"reread", "dropUsers", "signup", "profile", "move", "remove"}
  <2>1. CASE \E s \in 1..MaxSchools, email \in Emails : UpdateSchoolAdmin(r, s, email)
    BY <2>1, UpdateDigest DEF StartsAs
  <2>2. CASE ~\E s \in 1..MaxSchools, email \in Emails : UpdateSchoolAdmin(r, s, email)
    BY <2>2, StartsDigest DEF StartsAs
  <2> QED BY <2>1, <2>2
<1>2. ~Builder(req[r]) /\ ~Builder(req'[r])
  BY <1>1 DEF Builder, Idle
<1>3. DOMAIN schools' = DOMAIN schools /\ \A s \in DOMAIN schools : Grows(s)
  <2>1. PICK s : \/ schools' = [schools EXCEPT ![s].row = TRUE]
                 \/ schools' = [schools EXCEPT ![s].deleting = TRUE]
                 \/ schools' = schools
    BY DEF RegisterValidate, DeleteSchool, UpdateSchoolAppoint, UpdateSchoolAdmin,
           CreateAdmin, MoveAdmin, RemoveAdmin, Resolves
  <2> QED BY <2>1, Raised
<1>4. \A s \in DOMAIN schools : CodesStay(s)
  <2>1. CASE codes' = codes
    BY <2>1, SameRows
  <2>2. CASE codes' # codes
    <3>1. PICK c \in 1..MaxCodes, email \in Emails : RegisterValidate(r, c, email)
      BY <2>2 DEF DeleteSchool, UpdateSchoolAppoint, UpdateSchoolAdmin, CreateAdmin,
                  MoveAdmin, RemoveAdmin
    <3>2. PICK x : x = (codes[c].excused \/ UsersOf(c) # {})
      OBVIOUS
    <3>3. c \in DOMAIN codes /\ codes' = [codes EXCEPT ![c].excused = x]
      BY <3>1, <3>2, Zenon DEF RegisterValidate
    <3>4. PICK v : v = [codes[c] EXCEPT !.excused = x] /\ codes' = [codes EXCEPT ![c] = v]
      BY <3>3
    <3>5. v.school = codes[c].school /\ v.ofGrade = codes[c].ofGrade /\ v.gone = codes[c].gone
      BY <3>3, <3>4, Types DEF Code
    <3> QED BY <3>4, <3>5, SetRow
  <2> QED BY <2>1, <2>2
<1> QED BY <1>1, <1>2, <1>3, <1>4, QuietSchools

\* Steps of registrations, of deletions, and of administrators.
LEMMA GoesSchools ==
  ASSUME Typed, SchoolsInv, NEW r \in Requests,
         \/ RegisterReread(r) \/ RegisterCount(r)
         \/ ~req[r].creates /\ (Signup(r) \/ Link(r) \/ WriteProfile(r))
         \/ DropUsers(r) \/ DropTenant(r) \/ RemoveUser(r)
         \/ \E w \in {"link", "tenant"} : MoveWrite(r, w)
  PROVE  SchoolsInv'
<1> DEFINE q == req[r]
<1>0. ~Idle.creates /\ Idle.at = "idle"
  BY DEF Idle
<1>1. /\ q.at \in {"reread", "count", "signup", "link", "profile", "dropUsers",
                   "dropTenant", "remove", "move"}
      /\ q.at \notin {"row", "grade", "code"}
      /\ OthersStay(r) /\ ~q.creates
  <2>1. CASE RegisterReread(r)
    BY <2>1, RereadDigest, Types DEF Knows
  <2>2. CASE Signup(r)
    <3>1. q.at = "signup" /\ OthersStay(r)
      BY <2>2, SignupDigest
    <3> QED BY <3>1 DEF RegisterReread, RegisterCount, Link, WriteProfile, DropUsers,
                        DropTenant, RemoveUser, MoveWrite
  <2>3. CASE \/ RegisterCount(r) \/ DropUsers(r) \/ DropTenant(r) \/ RemoveUser(r)
             \/ ~q.creates /\ (Link(r) \/ WriteProfile(r))
    <3>1. /\ q.at \in {"count", "dropUsers", "dropTenant", "remove", "link", "profile"}
          /\ q.at \in {"link", "profile"} => ~q.creates
          /\ OthersStay(r)
      BY <2>3, StepDigest DEF Ends, GoesOnAt
    <3> QED BY <3>1, Types DEF Knows
  <2>4. CASE \E w \in {"link", "tenant"} : MoveWrite(r, w)
    BY <2>4, MoveDigest
  <2> QED BY <2>1, <2>2, <2>3, <2>4
<1>2. ~Builder(req'[r])
  <2>1. CASE RegisterReread(r)
    BY <1>0, <2>1, RereadDigest DEF Ends, Builder
  <2>2. CASE Signup(r)
    BY <1>0, <1>1, <2>2, SignupDigest DEF Ends, SignedUp, Builder
  <2>3. CASE \/ RegisterCount(r) \/ DropUsers(r) \/ DropTenant(r) \/ RemoveUser(r)
             \/ Link(r) \/ WriteProfile(r)
    BY <1>0, <1>1, <2>3, StepDigest DEF Ends, GoesOnAt, Builder
  <2>4. CASE \E w \in {"link", "tenant"} : MoveWrite(r, w)
    BY <1>0, <2>4, MoveDigest DEF Builder
  <2> QED BY <2>1, <2>2, <2>3, <2>4
<1>3. DOMAIN schools' = DOMAIN schools /\ \A s \in DOMAIN schools : Grows(s)
  <2>1. PICK x \in BOOLEAN : x = q.creates
    BY Types DEF Handler
  <2>2. \/ schools' = [schools EXCEPT ![q.school].half = @ \/ x]
        \/ schools' = [schools EXCEPT ![q.school].appointed = @ \/ x]
        \/ schools' = [schools EXCEPT ![q.school].tenant = FALSE]
        \/ schools' = schools
    <3>1. CASE Signup(r)
      BY <2>1, <3>1, Zenon DEF Signup
    <3>2. CASE Link(r)
      BY <2>1, <3>2, Zenon DEF Link
    <3>3. CASE DropTenant(r)
      BY <3>3 DEF DropTenant
    <3>4. CASE \/ RegisterReread(r) \/ RegisterCount(r) \/ WriteProfile(r)
               \/ DropUsers(r) \/ RemoveUser(r)
               \/ \E w \in {"link", "tenant"} : MoveWrite(r, w)
      BY <3>4 DEF RegisterReread, RegisterCount, WriteProfile, DropUsers, RemoveUser,
                  MoveWrite
    <3> QED BY <3>1, <3>2, <3>3, <3>4
  <2> QED BY <2>2, Raised
<1>4. \A s \in DOMAIN schools : CodesStay(s)
  <2>1. CASE codes' = codes
    BY <2>1, SameRows
  <2>2. CASE codes' # codes
    <3>1. PICK x : \/ codes' = [codes EXCEPT ![q.code].used = x]
                   \/ codes' = [codes EXCEPT ![q.code] = Admitting(@)]
                   \/ codes' = [codes EXCEPT ![q.code].excused = x]
      BY <2>2 DEF RegisterReread, RegisterCount, Signup, Link, WriteProfile, DropUsers,
                  DropTenant, RemoveUser, MoveWrite
    <3>2. PICK v : /\ \/ v = [codes[q.code] EXCEPT !.used = x]
                      \/ v = Admitting(codes[q.code])
                      \/ v = [codes[q.code] EXCEPT !.excused = x]
                   /\ codes' = [codes EXCEPT ![q.code] = v]
      BY <3>1, Types
    <3>3. q.code \in DOMAIN codes =>
            /\ v.school = codes[q.code].school /\ v.ofGrade = codes[q.code].ofGrade
            /\ v.gone = codes[q.code].gone
      <4>1. q.code \in DOMAIN codes => codes[q.code] \in Code
        BY RowsTyped
      <4>2. CASE v = Admitting(codes[q.code])
        BY <4>1, <4>2, AdmittingRow
      <4>3. CASE \/ v = [codes[q.code] EXCEPT !.used = x]
                 \/ v = [codes[q.code] EXCEPT !.excused = x]
        BY <4>1, <4>3 DEF Code
      <4> QED BY <3>2, <4>2, <4>3
    <3> QED BY <3>2, <3>3, SetRow
  <2> QED BY <2>1, <2>2
<1> QED BY <1>1, <1>2, <1>3, <1>4, QuietSchools DEF Builder

LEMMA AtOnceSchools ==
  ASSUME Typed, SchoolsInv, AtOnceStep
  PROVE  SchoolsInv'
<1>1. req' = req /\ \E s : schools' = schools \/ schools' = [schools EXCEPT ![s].row = TRUE]
  BY DEF AtOnceStep, CreateAccount, UpdateSchool, Resolves, CreateCode, Regenerate,
         EditCode, AtOnce
<1>2. DOMAIN schools' = DOMAIN schools /\ \A s \in DOMAIN schools : Grows(s)
  BY <1>1, Raised
<1>3. \A s \in DOMAIN schools : CodesStay(s)
  <2>1. CASE UNCHANGED codes
    BY <2>1, SameRows
  <2>2. ASSUME NEW s \in 1..MaxSchools, NEW limit \in Limits, NEW single \in BOOLEAN,
               CreateCode(s, limit, single)
        PROVE  \A j \in DOMAIN schools : CodesStay(j)
    <3>1. /\ s \in DOMAIN schools /\ Len(codes) < MaxCodes
          /\ codes' = Append(codes, NewCode(s, limit, single, FALSE))
      BY <2>2 DEF CreateCode
    <3>2. NewCode(s, limit, single, FALSE) \in Code
          /\ NewCode(s, limit, single, FALSE).school = s
          /\ ~NewCode(s, limit, single, FALSE).ofGrade
      BY <3>1, NewRows DEF NewCode
    <3>3. /\ DOMAIN codes' = DOMAIN codes \cup {Len(codes) + 1}
          /\ codes'[Len(codes) + 1] = NewCode(s, limit, single, FALSE)
          /\ \A c \in DOMAIN codes : codes'[c] = codes[c]
      BY <3>1, <3>2, AddCode
    <3>4. RowsKept /\ \A j, c : c \in DOMAIN codes' => c \in DOMAIN codes \/ ~IsGradeCode(c, j)'
      BY <3>2, <3>3 DEF RowsKept, IsGradeCode
    <3> QED BY <3>4, RowsStay
  <2>3. ASSUME NEW c \in 1..MaxCodes, Regenerate(c)
        PROVE  \A j \in DOMAIN schools : CodesStay(j)
    <3>1. PICK n, x : n = codes[c].word + 1 /\ x = (UsersOf(c) # {})
      OBVIOUS
    <3>2. /\ c \in DOMAIN codes
          /\ codes' = [codes EXCEPT ![c].word = n, ![c].used = 0, ![c].admitted = 0,
                                    ![c].free = 0, ![c].excused = x]
      BY <2>3, <3>1, Zenon DEF Regenerate
    <3>3. PICK v : v = [codes[c] EXCEPT !.word = n, !.used = 0, !.admitted = 0, !.free = 0,
                                !.excused = x]
      OBVIOUS
    <3>4. codes' = [codes EXCEPT ![c] = v]
      BY <3>2, <3>3, Types
    <3>5. v.school = codes[c].school /\ v.ofGrade = codes[c].ofGrade /\ v.gone = codes[c].gone
      BY <3>2, <3>3, Types DEF Code
    <3> QED BY <3>4, <3>5, SetRow
  <2>4. ASSUME NEW c \in 1..MaxCodes, NEW limit \in Limits, NEW single \in BOOLEAN,
               NEW active \in BOOLEAN, EditCode(c, limit, single, active)
        PROVE  \A j \in DOMAIN schools : CodesStay(j)
    <3>1. PICK x : x = (\/ codes[c].excused \/ UsersOf(c) # {}
                        \/ limit # None /\ codes[c].used > limit)
      OBVIOUS
    <3>2. /\ c \in DOMAIN codes
          /\ codes' = [codes EXCEPT ![c].limit = limit, ![c].single = single, ![c].active = active,
                                    ![c].excused = x]
      BY <2>4, <3>1, Zenon DEF EditCode
    <3>3. PICK v : v = [codes[c] EXCEPT !.limit = limit, !.single = single, !.active = active,
                                !.excused = x]
      OBVIOUS
    <3>4. codes' = [codes EXCEPT ![c] = v]
      BY <3>2, <3>3, Types
    <3>5. v.school = codes[c].school /\ v.ofGrade = codes[c].ofGrade /\ v.gone = codes[c].gone
      BY <3>2, <3>3, Types DEF Code
    <3> QED BY <3>4, <3>5, SetRow
  <2> QED BY <2>1, <2>2, <2>3, <2>4 DEF AtOnceStep, CreateAccount, UpdateSchool
<1>4. 0 \notin DOMAIN schools
  BY Types
<1> QED BY <1>1, <1>2, <1>3, <1>4, SchoolsKeep

\* A step of one handler, when the school b is being created or its structure is.
Made(s) ==
    /\ schools[s].row /\ schools[s].grades /\ HasCode(s)
    /\ schools[s].asked => schools[s].appointed

Making(q, s) == q.school = s /\ q.creates

LEMMA CreationStep ==
  ASSUME NEW r \in Requests, OthersStay(r), NEW b, CreationKept(b), Grows(b),
         HasCode(b) => HasCode(b)',
         ~schools'[b].half /\ ~schools'[b].deleting =>
            /\ Making(req'[r], b) => Creates(req'[r], schools'[b], HasCode(b)')
            /\ Making(req[r], b) => Making(req'[r], b) \/ Made(b)'
  PROVE  CreationKept(b)'
<1> SUFFICES ASSUME ~schools'[b].half, ~schools'[b].deleting
             PROVE  /\ \A o \in Requests : Making(req'[o], b) =>
                          Creates(req'[o], schools'[b], HasCode(b)')
                    /\ (\A o \in Requests : ~Making(req'[o], b)) => Made(b)'
  BY DEF CreationKept, Making, Made
<1>1. /\ ~schools[b].half /\ ~schools[b].deleting
      /\ schools[b].asked = schools'[b].asked
  BY DEF Grows, RowGrows
<1>2. /\ \A o \in Requests : Making(req[o], b) => Creates(req[o], schools[b], HasCode(b))
      /\ (\A o \in Requests : ~Making(req[o], b)) => Made(b)
  BY <1>1 DEF CreationKept, Making, Made
<1>3. ASSUME NEW o \in Requests, Making(req'[o], b)
      PROVE  Creates(req'[o], schools'[b], HasCode(b)')
  <2>1. CASE o # r
    <3>1. req'[o] = req[o] /\ Creates(req[o], schools[b], HasCode(b))
      BY <1>2, <1>3, <2>1 DEF OthersStay
    <3> QED BY <1>1, <3>1 DEF Creates, Grows, RowGrows
  <2> QED BY <1>3, <2>1
<1>4. ASSUME \A o \in Requests : ~Making(req'[o], b) PROVE Made(b)'
  <2>1. CASE Making(req[r], b)
    BY <1>4, <2>1
  <2>2. CASE ~Making(req[r], b)
    <3>1. \A o \in Requests : ~Making(req[o], b)
      BY <1>4, <2>2 DEF OthersStay
    <3>2. Made(b)
      BY <1>2, <3>1
    <3> QED BY <3>2 DEF Made, Grows, RowGrows
  <2> QED BY <2>1, <2>2
<1> QED BY <1>3, <1>4

\* A step of a handler that builds the school b.
LEMMA BuilderSchools ==
  ASSUME Typed, SchoolsInv, NEW r \in Requests, OthersStay(r),
         NEW b \in DOMAIN schools, req[r].school = b \/ ~Builder(req[r]),
         req'[r].school = b \/ ~Builder(req'[r]),
         DOMAIN schools' = DOMAIN schools,
         \A s \in DOMAIN schools : s # b => Grows(s) /\ CodesStay(s),
         StructureKept(b)', CreationKept(b)'
  PROVE  SchoolsInv'
<1>1. \A s : Builds(req[r], s) \/ Builds(req'[r], s) => s = b
  BY DEF Builds, Builder
<1>2. \A o \in Requests : \/ req'[o] = req[o]
                          \/ \A s : Builds(req[o], s) \/ Builds(req'[o], s) => s = b
  BY <1>1 DEF OthersStay
<1> QED BY <1>2, SchoolsKeep DEF Kept

LEMMA CreateSchools ==
  ASSUME Typed, SchoolsInv, NEW r \in Requests,
         \E d : CreatesSchool(r, d)
  PROVE  SchoolsInv'
<1>1. PICK n : n = NextSchool
  OBVIOUS
<1>2. /\ DOMAIN schools' = DOMAIN schools \cup {n} /\ n \notin DOMAIN schools /\ n # 0
      /\ \A s \in DOMAIN schools : schools'[s] = schools[s]
      /\ ~schools'[n].row /\ ~schools'[n].grades /\ (schools'[n].asked => req'[r].email # None)
      /\ codes' = codes /\ req[r] = Idle /\ OthersStay(r)
      /\ req'[r].at = "row" /\ req'[r].school = n /\ req'[r].creates
      /\ schools'[n].offers = req'[r].offers /\ req'[r].offers \in 1..MaxOffers
  BY <1>1, Created DEF OthersStay
<1>3. \A c \in DOMAIN codes' : codes'[c].school # n
  BY <1>2, Types
<1>4. \A o \in Requests : req[o].school # n
  BY <1>2, Types DEF Knows
<1>5. \A o \in Requests : o # r => req'[o].school # n
  BY <1>2, <1>4 DEF OthersStay
<1>6. StructureKept(n)'
  <2>1. GradeCodes(n)' = {} /\ Cardinality({}) = 0
    BY <1>3, FS_EmptySet DEF GradeCodes, IsGradeCode
  <2>2. \A o \in StructureHandlers(n)' : o = r
    BY <1>5 DEF StructureHandlers
  <2>3. 0 <= schools'[n].offers /\ 0 + req'[r].offers <= schools'[n].offers
    BY <1>2, Bounds
  <2> QED BY <2>1, <2>2, <2>3 DEF StructureKept
<1>7. CreationKept(n)'
  <2>1. \A o \in Requests : req'[o].school = n /\ req'[o].creates => o = r
    BY <1>5
  <2>2. Creates(req'[r], schools'[n], HasCode(n)')
    BY <1>2 DEF Creates
  <2> QED BY <1>2, <2>1, <2>2 DEF CreationKept
<1>8. \A s \in DOMAIN schools : Grows(s) /\ CodesStay(s)
  BY <1>2, SameRows DEF Grows, RowGrows
<1>9. \A o \in Requests : \/ req'[o] = req[o]
                          \/ \A s : Builds(req[o], s) \/ Builds(req'[o], s) => s = n
  BY <1>2 DEF OthersStay, Builds, Idle
<1> QED BY <1>2, <1>6, <1>7, <1>8, <1>9, SchoolsKeep DEF Kept

LEMMA InitStructures ==
  ASSUME Typed, SchoolsInv, NEW r \in Requests, NEW s \in 1..MaxSchools, InitStructure(r, s)
  PROVE  SchoolsInv'
<1>1. /\ req[r] = Idle /\ OthersStay(r) /\ req'[r].school = s /\ ~req'[r].creates
      /\ req'[r].at = "grade" /\ req'[r].offers = 1
  BY StartsDigest DEF StartsAs
<1>2. PICK x \in BOOLEAN : x = (StructureHandlers(s) # {})
  OBVIOUS
<1>3. /\ s \in DOMAIN schools /\ ~schools[s].grades /\ codes' = codes
      /\ schools' = [schools EXCEPT ![s].doubled = @ \/ x]
  BY <1>2, Zenon DEF InitStructure
<1>4. DOMAIN schools' = DOMAIN schools /\ \A j \in DOMAIN schools : Grows(j)
  BY <1>3, Raised
<1>5. /\ \A j : CodesStay(j)
      /\ StructureKept(s) /\ CreationKept(s)
  BY <1>3, SameRows DEF SchoolsInv
<1>6. StructureHandlers(s) = {} \/ schools'[s].doubled
  <2>1. PICK y : y = (schools[s].doubled \/ x)
    OBVIOUS
  <2>2. schools' = [schools EXCEPT ![s].doubled = y]
    BY <1>3, <2>1, Zenon
  <2>3. schools'[s] = [schools[s] EXCEPT !.doubled = y] /\ schools[s] \in School
    BY <1>3, <2>2, Types
  <2>4. schools'[s].doubled = y
    BY <2>3 DEF School
  <2> QED BY <1>2, <2>1, <2>4
<1>7. StructureKept(s)'
  <2>1. GradeCodes(s)' = {} /\ Cardinality({}) = 0
    BY <1>3, <1>5, FewerCodes, FS_EmptySet DEF StructureKept
  <2>2. ASSUME StructureHandlers(s) = {} PROVE \A o \in StructureHandlers(s)' : o = r
    BY <1>1, <2>2 DEF StructureHandlers, OthersStay
  <2>3. schools'[s].offers \in Nat /\ 1 <= schools'[s].offers
    <3>1. schools[s].offers \in Nat /\ 1 <= schools[s].offers
      BY <1>3, Types, Bounds DEF School
    <3> QED BY <1>3, <1>4, <3>1 DEF Grows, RowGrows
  <2>4. 0 <= schools'[s].offers /\ 0 + req'[r].offers <= schools'[s].offers
    BY <1>1, <2>3
  <2> QED BY <1>6, <2>1, <2>2, <2>4 DEF StructureKept
<1>8. ~Making(req[r], s) /\ ~Making(req'[r], s)
  BY <1>1 DEF Making, Idle
<1>9. CreationKept(s)'
  BY <1>1, <1>3, <1>4, <1>5, <1>8, CreationStep DEF CodesStay
<1>10. ~Builder(req[r])
  BY <1>1 DEF Builder, Idle
<1> QED BY <1>1, <1>3, <1>4, <1>5, <1>7, <1>9, <1>10, BuilderSchools

LEMMA RowSchools ==
  ASSUME Typed, SchoolsInv, NEW r \in Requests, SchoolRow(r)
  PROVE  SchoolsInv'
<1>1. PICK b : b = req[r].school
  OBVIOUS
<1>2. /\ req[r].at = "row" /\ req[r].creates /\ OthersStay(r) /\ req'[r].at = "grade"
      /\ req'[r].school = b /\ req'[r].creates /\ req'[r].email = req[r].email
      /\ req'[r].offers = req[r].offers /\ b \in DOMAIN schools
  BY <1>1, StepDigest, AtHand DEF GoesOnAt, KeepsOffers, Knows
<1>3. schools' = [schools EXCEPT ![b].row = TRUE] /\ codes' = codes
  BY <1>1 DEF SchoolRow
<1>4. DOMAIN schools' = DOMAIN schools /\ \A j \in DOMAIN schools : Grows(j)
  BY <1>3, Raised
<1>5. /\ \A j : CodesStay(j)
      /\ StructureKept(b) /\ CreationKept(b) /\ Grows(b)
  BY <1>2, <1>3, <1>4, SameRows DEF SchoolsInv
<1>6. SameOffers(b)
  BY <1>1, <1>2 DEF SameOffers, StructureHandlers, OthersStay
<1>7. schools'[b].row
  BY <1>2, <1>3, Types DEF School
<1>8. Making(req'[r], b) /\ Making(req[r], b)
  BY <1>1, <1>2 DEF Making
<1>9. ASSUME ~schools'[b].half, ~schools'[b].deleting
      PROVE  Creates(req'[r], schools'[b], HasCode(b)')
  <2>1. ~schools[b].half /\ ~schools[b].deleting /\ schools'[b].asked = schools[b].asked
    BY <1>5, <1>9 DEF Grows, RowGrows
  <2>2. Creates(req[r], schools[b], HasCode(b))
    BY <1>5, <1>8, <2>1 DEF CreationKept, Making
  <2> QED BY <1>2, <1>7, <2>1, <2>2 DEF Creates
<1>10. CreationKept(b)'
  BY <1>2, <1>5, <1>8, <1>9, CreationStep DEF CodesStay
<1>11. StructureKept(b)'
  BY <1>2, <1>5, <1>6, StructureStep
<1> QED BY <1>1, <1>2, <1>4, <1>5, <1>10, <1>11, BuilderSchools

\* A handler that is half way, or ends the creation as failed.
LEMMA HalfWay ==
  ASSUME Typed, SchoolsInv, NEW r \in Requests, NEW b \in DOMAIN schools,
         b = req[r].school, Ends(r), codes' = codes,
         schools' = [schools EXCEPT ![b].half = @ \/ req[r].creates]
  PROVE  SchoolsInv'
<1>1. PICK x \in BOOLEAN : x = req[r].creates
  BY Types DEF Handler
<1>2. schools' = [schools EXCEPT ![b].half = @ \/ x]
  BY <1>1, Zenon
<1>3. DOMAIN schools' = DOMAIN schools /\ \A j \in DOMAIN schools : Grows(j)
  BY <1>2, Raised
<1>4. /\ \A j : CodesStay(j)
      /\ StructureKept(b) /\ CreationKept(b) /\ Grows(b)
  BY <1>3, SameRows DEF SchoolsInv
<1>5. OthersStay(r) /\ ~req'[r].creates /\ req'[r].at = "idle"
  <2>1. OthersStay(r) /\ req'[r] = Idle
    BY DEF Ends
  <2> QED BY <2>1 DEF Idle
<1>6. SameOffers(b)
  BY <1>5 DEF SameOffers, StructureHandlers, OthersStay
<1>7. schools'[b].half \/ ~req[r].creates
  <2>1. PICK y : y = (schools[b].half \/ x)
    OBVIOUS
  <2>2. schools' = [schools EXCEPT ![b].half = y]
    BY <1>2, <2>1, Zenon
  <2>3. schools'[b] = [schools[b] EXCEPT !.half = y] /\ schools[b] \in School
    BY <2>2, Types
  <2>4. schools'[b].half = y
    BY <2>3 DEF School
  <2> QED BY <1>1, <2>1, <2>4
<1>8. CreationKept(b)'
  BY <1>4, <1>5, <1>7, CreationStep DEF CodesStay, Making
<1>9. StructureKept(b)'
  BY <1>4, <1>6, StructureStep
<1>10. ~Builder(req'[r])
  BY <1>5 DEF Builder
<1> QED BY <1>3, <1>4, <1>5, <1>8, <1>9, <1>10, BuilderSchools

LEMMA GradeSchools ==
  ASSUME Typed, SchoolsInv, NEW r \in Requests, CreateGrade(r)
  PROVE  SchoolsInv'
<1>1. PICK b : b = req[r].school
  OBVIOUS
<1>2. /\ req[r].at = "grade" /\ b \in DOMAIN schools /\ codes' = codes
      /\ IF schools[b].row THEN GoesOnAt(r, "code") /\ KeepsOffers(r) ELSE Ends(r)
  <2>1. /\ req[r].at = "grade"
        /\ IF schools[b].row THEN GoesOnAt(r, "code") /\ KeepsOffers(r) ELSE Ends(r)
    BY <1>1, StepDigest
  <2> QED BY <1>1, <2>1, AtHand DEF CreateGrade
<1>3. CASE ~schools[b].row
  <2>1. schools' = [schools EXCEPT ![b].half = @ \/ req[r].creates] /\ Ends(r)
    BY <1>1, <1>2, <1>3 DEF CreateGrade
  <2> QED BY <1>1, <1>2, <2>1, HalfWay
<1>4. CASE schools[b].row
  <2>1. schools' = [schools EXCEPT ![b].grades = TRUE]
    BY <1>1, <1>4 DEF CreateGrade
  <2>2. /\ OthersStay(r) /\ req'[r].at = "code" /\ req'[r].school = b
        /\ req'[r].creates = req[r].creates /\ req'[r].email = req[r].email
        /\ req'[r].offers = req[r].offers
    BY <1>1, <1>2, <1>4 DEF GoesOnAt, KeepsOffers
  <2>3. DOMAIN schools' = DOMAIN schools /\ \A j \in DOMAIN schools : Grows(j)
    BY <2>1, Raised
  <2>4. /\ \A j : CodesStay(j)
        /\ StructureKept(b) /\ CreationKept(b) /\ Grows(b)
    BY <1>2, <2>3, SameRows DEF SchoolsInv
  <2>5. SameOffers(b)
    BY <1>1, <1>2, <2>2 DEF SameOffers, StructureHandlers, OthersStay
  <2>6. schools'[b].row /\ schools'[b].grades
    BY <1>2, <1>4, <2>1, Types DEF School
  <2>7. Making(req'[r], b) <=> Making(req[r], b)
    BY <1>1, <2>2 DEF Making
  <2>8. ASSUME ~schools'[b].half, ~schools'[b].deleting, Making(req[r], b)
        PROVE  Creates(req'[r], schools'[b], HasCode(b)')
    <3>1. ~schools[b].half /\ ~schools[b].deleting /\ schools'[b].asked = schools[b].asked
      BY <2>4, <2>8 DEF Grows, RowGrows
    <3>2. Creates(req[r], schools[b], HasCode(b))
      BY <2>4, <2>8, <3>1 DEF CreationKept, Making
    <3> QED BY <1>2, <2>2, <2>6, <3>1, <3>2 DEF Creates
  <2>9. CreationKept(b)'
    BY <2>2, <2>4, <2>7, <2>8, CreationStep DEF CodesStay
  <2>10. StructureKept(b)'
    BY <1>2, <2>4, <2>5, StructureStep
  <2> QED BY <1>1, <1>2, <2>2, <2>3, <2>4, <2>9, <2>10, BuilderSchools
<1> QED BY <1>3, <1>4

LEMMA GradeCodeSchools ==
  ASSUME Typed, SchoolsInv, NEW r \in Requests, CreateGradeCode(r)
  PROVE  SchoolsInv'
<1>1. PICK b : b = req[r].school
  OBVIOUS
<1>2. /\ req[r].at = "code" /\ b \in DOMAIN schools /\ CodeEnds(r)
      /\ req[r].offers \in Nat /\ req[r].offers >= 1
  <2>1. req[r].at = "code" /\ CodeEnds(r)
    BY StepDigest
  <2>2. b \in DOMAIN schools
    BY <1>1, <2>1, AtHand
  <2>3. req[r] \in Handler /\ Knows(req[r], DOMAIN schools, DOMAIN accounts, DOMAIN codes)
    BY Types
  <2> QED BY <2>1, <2>2, <2>3, Bounds DEF Knows, Handler
<1>3. CASE ~(schools[b].row /\ schools[b].grades)
  <2>1. /\ schools' = [schools EXCEPT ![b].half = @ \/ req[r].creates] /\ Ends(r)
        /\ codes' = codes
    BY <1>1, <1>2, <1>3 DEF CreateGradeCode, CodeEnds
  <2> QED BY <1>1, <1>2, <2>1, HalfWay
<1>4. CASE schools[b].row /\ schools[b].grades
  <2>1. /\ schools' = schools /\ Len(codes) < MaxCodes
        /\ codes' = Append(codes, NewCode(b, None, req[r].single, TRUE))
    BY <1>1, <1>4 DEF CreateGradeCode
  <2>2. PICK n : n = Len(codes) + 1
    OBVIOUS
  <2>3. /\ DOMAIN codes' = DOMAIN codes \cup {n} /\ n \notin DOMAIN codes
        /\ codes'[n].school = b /\ codes'[n].ofGrade /\ ~codes'[n].gone
        /\ \A c \in DOMAIN codes : codes'[c] = codes[c]
    <3>1. None \in Limits /\ req[r].single \in BOOLEAN
      BY Types DEF Limits, Handler
    <3>2. NewCode(b, None, req[r].single, TRUE) \in Code
      BY <1>2, <3>1, NewRows
    <3>3. /\ NewCode(b, None, req[r].single, TRUE).school = b
          /\ NewCode(b, None, req[r].single, TRUE).ofGrade
          /\ ~NewCode(b, None, req[r].single, TRUE).gone
      BY DEF NewCode
    <3> QED BY <1>2, <2>1, <2>2, <3>2, <3>3, AddCode
  <2>4. /\ OthersStay(r) /\ req'[r].at \in {"idle", "grade", "signup"}
        /\ req'[r].at # "idle" => /\ req'[r].creates = req[r].creates /\ req'[r].school = b
                                  /\ req'[r].email = req[r].email
        /\ req'[r].at = "idle" => ~req'[r].creates /\ req[r].email = None
        /\ req'[r].at = "grade" => req[r].offers > 1 /\ req'[r].offers = req[r].offers - 1
    <3>1. CASE Ends(r) /\ req[r].email = None
      <4>1. OthersStay(r) /\ req'[r] = Idle
        BY <3>1 DEF Ends
      <4> QED BY <3>1, <4>1 DEF Idle
    <3>2. CASE ~(Ends(r) /\ req[r].email = None)
      BY <1>1, <1>2, <1>4, <3>2 DEF CodeEnds, GoesOnAt
    <3> QED BY <3>1, <3>2
  <2>5. \A j \in DOMAIN schools : Grows(j)
    BY <2>1 DEF Grows, RowGrows
  <2>6. StructureKept(b) /\ CreationKept(b) /\ r \in StructureHandlers(b)
    BY <1>1, <1>2 DEF SchoolsInv, StructureHandlers
  <2>7. RowsKept
    BY <2>3 DEF RowsKept
  <2>8. ASSUME NEW s \in DOMAIN schools, s # b PROVE CodesStay(s)
    BY <2>3, <2>7, <2>8, RowsStay DEF IsGradeCode
  <2>9. HasCode(b)'
    BY <2>3 DEF HasCode
  <2>10. StructureKept(b)'
    <3>1. schools'[b].grades
      BY <1>4, <2>1
    <3>2. ASSUME ~schools'[b].doubled
          PROVE  /\ \A o \in StructureHandlers(b)' : o = r
                 /\ Cardinality(GradeCodes(b)') <= schools'[b].offers
                 /\ r \in StructureHandlers(b)' =>
                       Cardinality(GradeCodes(b)') + req'[r].offers <= schools'[b].offers
      <4>1. PICK k : k = Cardinality(GradeCodes(b))
        OBVIOUS
      <4>2. /\ \A o \in StructureHandlers(b) : o = r
            /\ k + req[r].offers <= schools[b].offers
        BY <2>1, <2>6, <3>2, <4>1 DEF StructureKept
      <4>3. k \in Nat /\ Cardinality(GradeCodes(b)') = k + 1
        <5>1. IsFiniteSet(GradeCodes(b)) /\ k \in Nat
          BY <4>1, CodesCounted
        <5>2. GradeCodes(b)' = GradeCodes(b) \cup {n} /\ n \notin GradeCodes(b)
          BY <2>3 DEF GradeCodes, IsGradeCode
        <5> QED BY <4>1, <5>1, <5>2, FS_AddElement
      <4>4. schools'[b].offers = schools[b].offers /\ schools[b].offers \in Nat
        BY <1>2, <2>1, Types, Bounds DEF School
      <4>5. \A o \in StructureHandlers(b)' : o = r
        BY <4>2, <2>4 DEF StructureHandlers, OthersStay
      <4>6. r \in StructureHandlers(b)' => req'[r].offers = req[r].offers - 1
        BY <2>4 DEF StructureHandlers
      <4>7. k + 1 <= schools[b].offers
        BY <1>2, <4>2, <4>3, <4>4
      <4>8. req'[r].offers = req[r].offers - 1 =>
               (k + 1) + req'[r].offers <= schools[b].offers
        BY <1>2, <4>2, <4>3, <4>4
      <4> QED BY <4>3, <4>4, <4>5, <4>6, <4>7, <4>8
    <3> QED BY <3>1, <3>2 DEF StructureKept
  <2>11. ASSUME ~schools'[b].half, ~schools'[b].deleting
         PROVE  /\ Making(req'[r], b) => Creates(req'[r], schools'[b], HasCode(b)')
                /\ Making(req[r], b) => Making(req'[r], b) \/ Made(b)'
    <3>1. Making(req'[r], b) => req'[r].at \in {"grade", "signup"} /\ Making(req[r], b)
      BY <1>1, <2>4 DEF Making
    <3>2. ASSUME Making(req'[r], b) PROVE Creates(req'[r], schools'[b], HasCode(b)')
      <4>1. Creates(req[r], schools[b], HasCode(b))
        BY <2>1, <2>6, <2>11, <3>1, <3>2 DEF CreationKept, Making
      <4>2. schools[b].asked => req[r].email # None
        BY <1>2, <4>1 DEF Creates
      <4> QED BY <1>4, <2>1, <2>4, <2>9, <3>1, <3>2, <4>2 DEF Creates
    <3>3. ASSUME Making(req[r], b), ~Making(req'[r], b) PROVE Made(b)'
      <4>1. req[r].email = None
        BY <2>4, <3>3 DEF Making
      <4>2. Creates(req[r], schools[b], HasCode(b))
        BY <2>1, <2>6, <2>11, <3>3 DEF CreationKept, Making
      <4>3. ~schools[b].asked
        BY <1>2, <4>1, <4>2 DEF Creates
      <4> QED BY <1>4, <2>1, <2>9, <4>3 DEF Made
    <3> QED BY <3>2, <3>3
  <2>12. CreationKept(b)'
    BY <1>2, <2>4, <2>5, <2>6, <2>9, <2>11, CreationStep
  <2>13. req'[r].school = b \/ ~Builder(req'[r])
    BY <1>1, <2>4 DEF Builder
  <2> QED BY <1>1, <1>2, <2>1, <2>4, <2>5, <2>8, <2>10, <2>12, <2>13, BuilderSchools
<1> QED BY <1>3, <1>4

\* The calls that end a creation.
LEMMA AppointSchools ==
  ASSUME Typed, SchoolsInv, NEW r \in Requests, req[r].creates,
         Signup(r) \/ Link(r) \/ WriteProfile(r)
  PROVE  SchoolsInv'
<1>1. PICK b : b = req[r].school
  OBVIOUS
<1>2. req[r].at \in {"signup", "link", "profile"}
  BY DEF Signup, Link, WriteProfile
<1>3. b \in DOMAIN schools /\ req[r].code = 0 /\ ~req[r].counts
  BY <1>1, <1>2, AtHand DEF Knows
<1>4. codes' = codes
  BY <1>3 DEF Signup, Link, WriteProfile
<1>5. CASE Ends(r) /\ schools' = [schools EXCEPT ![b].half = @ \/ req[r].creates]
  BY <1>1, <1>3, <1>4, <1>5, HalfWay
<1>6. CASE ~(Ends(r) /\ schools' = [schools EXCEPT ![b].half = @ \/ req[r].creates])
  <2>1. \/ /\ req[r].at = "signup" /\ req'[r].at = "link" /\ schools' = schools
           /\ OthersStay(r) /\ req'[r].school = b /\ req'[r].creates
        \/ /\ req[r].at = "link" /\ GoesOnAt(r, "profile")
           /\ schools' = [schools EXCEPT ![b].appointed = @ \/ req[r].creates]
        \/ req[r].at = "profile" /\ Ends(r) /\ schools' = schools
    <3>1. CASE Signup(r)
      BY <1>1, <1>6, <3>1, SignupDigest DEF SignedUp
    <3>2. CASE Link(r)
      <4>1. CASE Live(req[r].account) /\ schools[b].row
        BY <1>1, <3>2, <4>1, StepDigest DEF Link
      <4>2. CASE ~(Live(req[r].account) /\ schools[b].row)
        <5>1. Ends(r)
          BY <1>1, <3>2, <4>2, StepDigest
        <5>2. schools' = [schools EXCEPT ![b].half = @ \/ req[r].creates]
          BY <1>1, <3>2, <4>2 DEF Link
        <5> QED BY <1>6, <5>1, <5>2
      <4> QED BY <4>1, <4>2
    <3>3. CASE WriteProfile(r)
      BY <1>3, <3>3, StepDigest DEF WriteProfile
    <3> QED BY <3>1, <3>2, <3>3
  <2>2. /\ OthersStay(r) /\ req'[r].at \in {"link", "profile", "idle"}
        /\ req'[r].at # "idle" => req'[r].creates /\ req'[r].school = b
        /\ req'[r].at = "idle" => ~req'[r].creates
    <3>1. req[r].at = "profile" => req'[r] = Idle /\ OthersStay(r)
      BY <2>1 DEF Ends
    <3>2. req[r].at = "profile" => /\ req'[r].at = "idle" /\ ~req'[r].creates
                                   /\ OthersStay(r)
      BY <3>1 DEF Idle
    <3> QED BY <1>1, <2>1, <3>2 DEF GoesOnAt
  <2>3. PICK x \in BOOLEAN : x = req[r].creates
    OBVIOUS
  <2>4. schools' = schools \/ schools' = [schools EXCEPT ![b].appointed = @ \/ x]
    <3>1. schools' = schools \/ schools' = [schools EXCEPT ![b].appointed = @ \/ req[r].creates]
      BY <2>1
    <3> QED BY <2>3, <3>1, Zenon
  <2>5. DOMAIN schools' = DOMAIN schools /\ \A j \in DOMAIN schools : Grows(j)
    BY <2>4, Raised
  <2>6. /\ \A j : CodesStay(j)
        /\ StructureKept(b) /\ CreationKept(b) /\ Grows(b)
    BY <1>3, <1>4, <2>5, SameRows DEF SchoolsInv
  <2>7. req[r].at = "link" => schools'[b].appointed
    <3>1. PICK y : y = (schools[b].appointed \/ x)
      OBVIOUS
    <3>2. req[r].at = "link" => schools' = [schools EXCEPT ![b].appointed = y]
      <4>1. req[r].at = "link" => schools' = [schools EXCEPT ![b].appointed = @ \/ req[r].creates]
        BY <2>1
      <4> QED BY <2>3, <3>1, <4>1, Zenon
    <3>3. schools[b] \in School
      BY <1>3, Types
    <3>4. req[r].at = "link" => schools'[b] = [schools[b] EXCEPT !.appointed = y]
      BY <1>3, <3>2, Types
    <3>5. req[r].at = "link" => schools'[b].appointed = y
      BY <3>3, <3>4 DEF School
    <3> QED BY <2>3, <3>1, <3>5
  <2>8. SameOffers(b)
    BY <1>2, <2>2 DEF SameOffers, StructureHandlers, OthersStay
  <2>9. ASSUME ~schools'[b].half, ~schools'[b].deleting
        PROVE  /\ Making(req'[r], b) => Creates(req'[r], schools'[b], HasCode(b)')
               /\ Making(req[r], b) => Making(req'[r], b) \/ Made(b)'
    <3>1. ~schools[b].half /\ ~schools[b].deleting /\ schools'[b].asked = schools[b].asked
      BY <2>6, <2>9 DEF Grows, RowGrows
    <3>2. Creates(req[r], schools[b], HasCode(b))
      BY <1>1, <2>6, <3>1 DEF CreationKept
    <3>3. /\ schools[b].row /\ schools[b].grades /\ HasCode(b)
          /\ req[r].at = "profile" => schools[b].appointed
      BY <1>2, <3>2 DEF Creates
    <3>4. /\ schools'[b].row /\ schools'[b].grades /\ HasCode(b)'
          /\ req[r].at = "profile" => schools'[b].appointed
      BY <2>6, <3>3 DEF Grows, RowGrows, CodesStay
    <3>5. Making(req'[r], b) => Creates(req'[r], schools'[b], HasCode(b)')
      <4>1. req'[r].at = "profile" => schools'[b].appointed
        BY <2>1, <2>2, <2>7, <3>4 DEF GoesOnAt
      <4> QED BY <2>2, <3>4, <4>1 DEF Creates, Making
    <3>6. Making(req'[r], b) \/ Made(b)'
      <4>1. req'[r].at = "idle" => req[r].at = "profile"
        BY <2>1 DEF GoesOnAt
      <4> QED BY <2>2, <3>4, <4>1 DEF Making, Made
    <3> QED BY <3>5, <3>6
  <2>10. CreationKept(b)'
    BY <1>3, <2>2, <2>6, <2>9, CreationStep DEF CodesStay
  <2>11. StructureKept(b)'
    BY <1>3, <2>6, <2>8, StructureStep
  <2>12. req'[r].school = b \/ ~Builder(req'[r])
    BY <2>2 DEF Builder
  <2> QED BY <1>1, <1>3, <2>2, <2>5, <2>6, <2>10, <2>11, <2>12, BuilderSchools
<1> QED BY <1>5, <1>6

LEMMA DropSchools ==
  ASSUME Typed, EmptyInv, SchoolsInv, NEW r \in Requests, DropSchool(r)
  PROVE  SchoolsInv'
<1>1. PICK b : b = req[r].school
  OBVIOUS
<1>2. /\ req[r].at = "dropSchool" /\ OthersStay(r) /\ req'[r].at = "dropTenant"
      /\ req'[r].school = b /\ req'[r].creates = req[r].creates
  BY <1>1, StepDigest DEF GoesOnAt
<1>3. b \in DOMAIN schools /\ ~req[r].creates
  BY <1>1, <1>2, AtHand DEF Knows
<1>4. /\ schools' = [schools EXCEPT ![b].row = FALSE, ![b].grades = FALSE]
      /\ codes' = [c \in DOMAIN codes |->
                     LET x == codes[c] IN [x EXCEPT !.gone = @ \/ x.school = b]]
  BY <1>1 DEF DropSchool
<1>5. schools[b].deleting
  BY <1>1, <1>2 DEF EmptyInv, Emptying
<1>6. /\ DOMAIN schools' = DOMAIN schools /\ schools'[b].deleting
      /\ schools'[b].doubled = schools[b].doubled /\ schools'[b].offers = schools[b].offers
      /\ \A s \in DOMAIN schools : s # b => schools'[s] = schools[s]
  BY <1>3, <1>4, <1>5, RowsTyped, SMTT(20) DEF School
<1>7. /\ DOMAIN codes' = DOMAIN codes
      /\ \A c \in DOMAIN codes :
           /\ codes'[c].school = codes[c].school /\ codes'[c].ofGrade = codes[c].ofGrade
           /\ codes[c].gone => codes'[c].gone
           /\ codes[c].school = b => codes'[c].gone
  <2>1. ASSUME NEW c \in DOMAIN codes
        PROVE  /\ codes'[c].school = codes[c].school /\ codes'[c].ofGrade = codes[c].ofGrade
               /\ codes[c].gone => codes'[c].gone
               /\ codes[c].school = b => codes'[c].gone
    <3>1. PICK x : x = (codes[c].gone \/ codes[c].school = b)
      OBVIOUS
    <3>2. codes'[c] = [codes[c] EXCEPT !.gone = codes[c].gone \/ codes[c].school = b]
      BY <1>4
    <3>3. codes'[c] = [codes[c] EXCEPT !.gone = x]
      BY <3>1, <3>2, Zenon
    <3>4. /\ codes'[c].school = codes[c].school /\ codes'[c].ofGrade = codes[c].ofGrade
          /\ codes'[c].gone = x
      BY <3>3, Types DEF Code
    <3> QED BY <3>1, <3>4
  <2> QED BY <1>4, <2>1
<1>8. \A s : CodesStay(s)
  <2>1. RowsKept
    BY <1>7 DEF RowsKept
  <2> QED BY <1>7, <2>1, RowsStay
<1>9. \A s \in DOMAIN schools : s # b => Grows(s) /\ CodesStay(s)
  BY <1>6, <1>8 DEF Grows, RowGrows
<1>10. CreationKept(b)'
  BY <1>6 DEF CreationKept
<1>11. StructureKept(b)'
  <2>1. GradeCodes(b)' = {}
    BY <1>7 DEF GradeCodes, IsGradeCode
  <2>2. SameOffers(b)
    BY <1>1, <1>2 DEF SameOffers, StructureHandlers, OthersStay
  <2>3. StructureKept(b)
    BY <1>3 DEF SchoolsInv
  <2> QED BY <1>3, <1>6, <1>8, <2>1, <2>2, <2>3, OffersKept DEF StructureKept
<1>12. ~Builder(req[r]) /\ ~Builder(req'[r])
  BY <1>2, <1>3 DEF Builder
<1> QED BY <1>2, <1>3, <1>6, <1>9, <1>10, <1>11, <1>12, BuilderSchools

LEMMA FailSchools ==
  ASSUME Typed, SchoolsInv, NEW r \in Requests, Fail(r)
  PROVE  SchoolsInv'
<1> DEFINE q == req[r]
<1>1. /\ Ends(r) /\ q.at # "idle"
      /\ schools' = IF q.creates THEN [schools EXCEPT ![q.school].half = TRUE] ELSE schools
      /\ codes' = IF q.code # 0 THEN [codes EXCEPT ![q.code].excused = TRUE] ELSE codes
  BY StepDigest DEF Fail
<1>2. OthersStay(r) /\ ~req'[r].creates /\ req'[r].at = "idle"
  <2>1. OthersStay(r) /\ req'[r] = Idle
    BY <1>1 DEF Ends
  <2> QED BY <2>1 DEF Idle
<1>3. DOMAIN schools' = DOMAIN schools /\ \A j \in DOMAIN schools : Grows(j)
  <2>1. TRUE \in BOOLEAN /\ (\/ schools' = [schools EXCEPT ![q.school].half = TRUE]
                             \/ schools' = schools)
    BY <1>1
  <2> QED BY <2>1, Raised
<1>4. \A s \in DOMAIN schools : CodesStay(s)
  <2>1. CASE codes' = codes
    BY <2>1, SameRows
  <2>2. CASE codes' # codes
    <3>1. q.code \in DOMAIN codes /\ codes' = [codes EXCEPT ![q.code].excused = TRUE]
      BY <1>1, <2>2, AtHand
    <3>2. PICK v : /\ v = [codes[q.code] EXCEPT !.excused = TRUE]
                   /\ codes' = [codes EXCEPT ![q.code] = v]
      BY <3>1
    <3>3. /\ v.school = codes[q.code].school /\ v.ofGrade = codes[q.code].ofGrade
          /\ v.gone = codes[q.code].gone
      BY <3>1, <3>2, Types DEF Code
    <3> QED BY <3>2, <3>3, SetRow
  <2> QED BY <2>1, <2>2
<1>5. ~Builder(req'[r])
  BY <1>2 DEF Builder
<1>6. CASE ~Builder(q)
  BY <1>2, <1>3, <1>4, <1>5, <1>6, QuietSchools
<1>7. CASE Builder(q)
  <2>1. PICK b : b = q.school
    OBVIOUS
  <2>2. b \in DOMAIN schools
    BY <1>7, <2>1, <1>1, AtHand DEF Builder
  <2>3. StructureKept(b) /\ CreationKept(b) /\ Grows(b) /\ CodesStay(b)
    BY <1>3, <1>4, <2>2 DEF SchoolsInv
  <2>4. SameOffers(b)
    BY <1>2 DEF SameOffers, StructureHandlers, OthersStay
  <2>5. Making(q, b) => schools'[b].half
    <3>1. q.creates => schools' = [schools EXCEPT ![b].half = TRUE]
      BY <1>1, <2>1
    <3> QED BY <2>2, <3>1, Types DEF School, Making
  <2>6. ~Making(req'[r], b)
    BY <1>2 DEF Making
  <2>7. CreationKept(b)'
    BY <1>2, <2>3, <2>5, <2>6, CreationStep DEF CodesStay
  <2>8. StructureKept(b)'
    BY <2>2, <2>3, <2>4, StructureStep
  <2> QED BY <1>2, <1>3, <1>4, <1>5, <2>1, <2>2, <2>7, <2>8, BuilderSchools
<1> QED BY <1>6, <1>7

LEMMA InitSchools ==
  ASSUME Init
  PROVE  SchoolsInv
<1>1. \A r \in Requests : req[r] = Idle
  BY DEF Init
<1>2. \A s : StructureHandlers(s) = {}
  <2>1. \A r \in Requests : req[r].at = "idle"
    BY <1>1 DEF Idle
  <2> QED BY <2>1 DEF StructureHandlers
<1>3. \A s \in DOMAIN schools : StructureKept(s)
  <2>1. ASSUME NEW s PROVE GradeCodes(s) = {} /\ Cardinality({}) = 0
    BY InitCode, FS_EmptySet DEF GradeCodes, IsGradeCode
  <2>2. \A s \in DOMAIN schools : schools[s].offers = 1
    BY InitSchool
  <2> QED BY <1>2, <2>1, <2>2 DEF StructureKept
<1>4. \A s \in DOMAIN schools : schools[s].half
  BY InitSchool
<1>5. \A s \in DOMAIN schools : CreationKept(s)
  BY <1>4 DEF CreationKept
<1> QED BY <1>3, <1>5 DEF SchoolsInv

-----------------------------------------------------------------------------
(***************************************************************************)
(* The inductive invariant and what it shows.                              *)
(***************************************************************************)
LEMMA StepInv ==
  ASSUME Inv, NEW r \in Requests, Step(r)
  PROVE  Inv'
<1>1. Typed /\ EmptyInv /\ WholeInv /\ CodesInv /\ SchoolsInv
  BY DEF Inv
<1>2. CASE RegisterReread(r)
  BY <1>1, <1>2, RegisterTyped, QuietEmpty, QuietWhole, RereadCodes, GoesSchools DEF Inv
<1>3. CASE RegisterCount(r)
  BY <1>1, <1>3, RegisterTyped, QuietEmpty, LinkWhole, LinkCodes, GoesSchools DEF Inv
<1>4. CASE Signup(r) \/ Link(r) \/ WriteProfile(r)
  <2>1. SchoolsInv'
    BY <1>1, <1>4, GoesSchools, AppointSchools
  <2>2. WholeInv' /\ CodesInv'
    BY <1>1, <1>4, SignupWhole, LinkWhole, SignupCodes, LinkCodes
  <2> QED BY <1>1, <1>4, <2>1, <2>2, SignupTyped, SignupEmpty DEF Inv
<1>5. CASE SchoolRow(r) \/ CreateGrade(r) \/ CreateGradeCode(r)
  <2>1. SchoolsInv'
    BY <1>1, <1>5, RowSchools, GradeSchools, GradeCodeSchools
  <2>2. CodesInv'
    BY <1>1, <1>5, QuietCodes, GradeCodeUses
  <2> QED BY <1>1, <1>5, <2>1, <2>2, StructureTyped, QuietEmpty, QuietWhole DEF Inv
<1>6. CASE DropUsers(r) \/ DropSchool(r) \/ DropTenant(r)
  <2>1. SchoolsInv'
    BY <1>1, <1>6, GoesSchools, DropSchools
  <2> QED BY <1>1, <1>6, <2>1, DropTyped, DropEmpty, QuietWhole, QuietCodes DEF Inv
<1>7. CASE RemoveUser(r)
  BY <1>1, <1>7, DropTyped, AdminEmpty, EndWhole, QuietCodes, GoesSchools DEF Inv
<1>8. CASE \E w \in {"link", "tenant"} : MoveWrite(r, w)
  BY <1>1, <1>8, MoveTyped, MoveEmpty, MoveWhole, QuietCodes, GoesSchools DEF Inv
<1>9. CASE Fail(r)
  BY <1>1, <1>9, FailTyped, AdminEmpty, EndWhole, FailCodes, FailSchools DEF Inv
<1> QED BY <1>2, <1>3, <1>4, <1>5, <1>6, <1>7, <1>8, <1>9 DEF Step

LEMMA StartInv ==
  ASSUME Inv, NEW r \in Requests, Start(r)
  PROVE  Inv'
<1>1. Typed /\ EmptyInv /\ WholeInv /\ CodesInv /\ SchoolsInv
  BY DEF Inv
<1>2. CASE \E c \in 1..MaxCodes, email \in Emails : RegisterValidate(r, c, email)
  BY <1>1, <1>2, RegisterTyped, QuietEmpty, QuietWhole, ValidateCodes, StartsSchools DEF Inv
<1>3. CASE \E s \in 1..MaxSchools, email \in Emails :
             UpdateSchoolAppoint(r, s, email) \/ CreateAdmin(r, s, email)
  <2>1. Typed'
    BY <1>1, <1>3, AdminTyped
  <2> QED BY <1>1, <1>3, <2>1, QuietEmpty, QuietWhole, QuietCodes, StartsSchools DEF Inv
<1>4. CASE \E s \in 1..MaxSchools, email \in Emails : UpdateSchoolAdmin(r, s, email)
  <2>1. Typed' /\ WholeInv'
    BY <1>1, <1>4, AdminTyped, AdminWhole
  <2> QED BY <1>1, <1>4, <2>1, AdminEmpty, QuietCodes, StartsSchools DEF Inv
<1>5. CASE \E d : CreatesSchool(r, d)
  BY <1>1, <1>5, StructureTyped, QuietEmpty, QuietWhole, QuietCodes, CreateSchools DEF Inv
<1>6. CASE \E s \in 1..MaxSchools : InitStructure(r, s)
  BY <1>1, <1>6, StructureTyped, QuietEmpty, QuietWhole, QuietCodes, InitStructures DEF Inv
<1>7. CASE \E s \in 1..MaxSchools : DeleteSchool(r, s)
  BY <1>1, <1>7, StructureTyped, DropEmpty, QuietWhole, QuietCodes, StartsSchools DEF Inv
<1>8. CASE \E a \in 1..MaxAccounts :
             RemoveAdmin(r, a) \/ \E s \in 1..MaxSchools : MoveAdmin(r, a, s)
  <2>1. PICK a \in 1..MaxAccounts :
          RemoveAdmin(r, a) \/ \E s \in 1..MaxSchools : MoveAdmin(r, a, s)
    BY <1>8
  <2>2. PICK email : email = accounts[a].email
    OBVIOUS
  <2>3. email \in Emails
    BY <1>1, <2>1, <2>2, Types DEF RemoveAdmin, MoveAdmin, Account
  <2>4. Typed' /\ WholeInv'
    BY <1>1, <2>1, <2>3, AdminTyped, AdminWhole
  <2> QED BY <1>1, <2>1, <2>4, AdminEmpty, QuietCodes, StartsSchools DEF Inv
<1> QED
  BY <1>2, <1>3, <1>4, <1>5, <1>6, <1>7, <1>8 DEF Start, StartForEmail, CreatesSchool

LEMMA AtOnceInv ==
  ASSUME Inv, AtOnceStep
  PROVE  Inv'
<1>1. Typed' /\ EmptyInv'
  BY AtOnceEndsTyped, AtOnceEmpty DEF Inv
<1>2. WholeInv' /\ CodesInv'
  BY AtOnceWhole, AtOnceCodes DEF Inv
<1>3. SchoolsInv'
  BY AtOnceSchools DEF Inv
<1> QED BY <1>1, <1>2, <1>3 DEF Inv

LEMMA StutterInv ==
  ASSUME Inv, UNCHANGED vars
  PROVE  Inv'
<1>1. /\ schools' = schools /\ accounts' = accounts /\ codes' = codes /\ req' = req
      /\ started' = started /\ faults' = faults
  BY DEF vars
<1>2. Typed' /\ EmptyInv'
  BY <1>1 DEF Inv, Typed, TypeOK, EmptyInv, DeletedSchoolsEmpty, Live
<1>3. WholeInv'
  <2>1. \A a \in DOMAIN accounts : HandlersOf(a)' = HandlersOf(a)
    BY <1>1 DEF HandlersOf
  <2> QED BY <1>1, <2>1 DEF Inv, WholeInv, AccountKept
<1>5. CodesInv'
  <2>1. \A c \in DOMAIN codes : UsersOf(c)' = UsersOf(c)
    BY <1>1 DEF UsersOf
  <2> QED BY <1>1, <2>1 DEF Inv, CodesInv, CodeKept
<1>4. SchoolsInv'
  <2>1. \A s \in DOMAIN schools : Kept(s) /\ Grows(s) /\ CodesStay(s)
    BY <1>1, SameRows DEF Inv, SchoolsInv, Kept, Grows, RowGrows
  <2>2. \A s \in DOMAIN schools' : Kept(s)'
    BY <1>1, <2>1, SchoolStays DEF Inv
  <2> QED BY <2>2 DEF SchoolsInv, Kept
<1> QED BY <1>2, <1>3, <1>4, <1>5 DEF Inv

LEMMA InvHolds == Spec => []Inv
<1>1. Init => Inv
  BY InitTyped, InitEmpty, InitWhole, InitCodes, InitSchools DEF Inv
<1>2. Inv /\ [Next]_vars => Inv'
  BY StepInv, StartInv, AtOnceInv, StutterInv DEF Next, AtOnceStep
<1> QED BY <1>1, <1>2, PTL DEF Spec

\* The variables keep their types.
THEOREM TypeCorrect == Spec => []TypeOK
<1>1. Inv => TypeOK
  BY DEF Inv, Typed
<1> QED BY <1>1, InvHolds, PTL

\* An account that no handler is at work on belongs to one school in its tenant,
\* its link and its profile, but for the faults AccountsWhole names.
THEOREM AccountsAreWhole == Spec => []AccountsWhole
<1>1. Inv => AccountsWhole
  <2> SUFFICES ASSUME Inv, NEW a \in DOMAIN accounts, ~accounts[a].gone,
                      ~accounts[a].excused, HandlersOf(a) = {}
               PROVE  IsWhole(accounts[a])
    BY DEF AccountsWhole, Live, IsWhole
  <2> QED BY DEF Inv, WholeInv, AccountKept
<1> QED BY <1>1, InvHolds, PTL

\* Only who came to a school while it was being deleted is left without one.
THEOREM DeletedSchoolsAreEmpty == Spec => []DeletedSchoolsEmpty
<1>1. Inv => DeletedSchoolsEmpty
  BY DEF Inv, EmptyInv
<1> QED BY <1>1, InvHolds, PTL

\* A code admits no more students than its limit, and counts them, but for those
\* it admitted while nothing limited it, and unless two registrations overlapped
\* or the code was changed or failed under one.
THEOREM LimitsAreHeld == Spec => []LimitsHeld
<1>1. Inv => LimitsHeld
  BY DEF Inv, CodesInv, CodeKept, Within, LimitsHeld
<1> QED BY <1>1, InvHolds, PTL

\* A school whose creation ended well is whole, and a section has no more codes
\* than its grade was asked for, but for the refusals, failures and overlaps
\* SchoolsWhole names.
THEOREM SchoolsAreWhole == Spec => []SchoolsWhole
<1>1. Inv => SchoolsWhole
  <2> SUFFICES ASSUME Inv, NEW s \in DOMAIN schools
               PROVE  /\ CodesAsAsked(s)
                      /\ (/\ ~schools[s].half /\ ~schools[s].deleting
                          /\ ~\E r \in Requests : req[r].school = s /\ req[r].creates) =>
                            /\ schools[s].row /\ schools[s].grades
                            /\ \E c \in DOMAIN codes : codes[c].school = s /\ codes[c].ofGrade
                            /\ schools[s].asked => schools[s].appointed
    BY DEF SchoolsWhole
  <2>1. StructureKept(s) /\ CreationKept(s)
    BY DEF Inv, SchoolsInv
  <2>2. CodesAsAsked(s)
    BY <2>1 DEF StructureKept, GradeCodes, IsGradeCode, CodesAsAsked
  <2> QED BY <2>1, <2>2 DEF CreationKept, HasCode
<1> QED BY <1>1, InvHolds, PTL
=============================================================================
