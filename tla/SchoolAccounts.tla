--------------------------- MODULE SchoolAccounts ---------------------------
(***************************************************************************)
(* Creating, changing and deleting schools, their joining codes and their  *)
(* administrators, and the registration of students by code.               *)
(*                                                                         *)
(* Every handler is a chain of calls, and only the sign-up in the middle   *)
(* is a transaction: a handler that is refused or fails on the way leaves  *)
(* what it has stored, and others see it half done.                        *)
(***************************************************************************)
EXTENDS Naturals, Sequences, FiniteSets

CONSTANTS
    Emails, Domains,
    Requests,            \* slots for handlers in flight
    None,
    MaxSchools, MaxAccounts, MaxCodes, MaxUses, MaxWords, MaxOffers, MaxStarted,
    MaxFaults

ASSUME SchoolBounds ==
    /\ {MaxSchools, MaxAccounts, MaxCodes, MaxUses, MaxWords, MaxOffers, MaxStarted,
        MaxFaults} \subseteq Nat
    /\ MaxSchools # 0 /\ MaxOffers # 0 /\ Domains # {}
    /\ None \notin Emails \cup (0..MaxUses)

VARIABLES
    schools,    \* Tenant and School rows, which share their ids
    accounts,   \* User rows of students and school admins, with their links
    codes,      \* JoinCode rows
    req,        \* handlers in flight
    started,    \* handlers started
    faults      \* handlers that failed

vars == <<schools, accounts, codes, req, started, faults>>

SchoolId == 0..MaxSchools       \* 0 for null

\* History, from asked on: the school admin asked for is there, how often the
\* grade was asked for, a deletion has begun, and why the school may be
\* incomplete or its structure doubled.
School == [domain : Domains, tenant : BOOLEAN, row : BOOLEAN, grades : BOOLEAN,
           asked : BOOLEAN, appointed : BOOLEAN, offers : 1..MaxOffers,
           deleting : BOOLEAN, half : BOOLEAN, doubled : BOOLEAN]

\* link: the StudentSchool or SchoolAdmin row; profile: Profile.schoolId.
\* History: late, signed up in a school being deleted; excused, a handler of
\* the account failed or overlapped another.
Account == [email : Emails, role : {"student", "school_admin"}, tenant : SchoolId,
            link : SchoolId, profile : SchoolId, gone : BOOLEAN,
            late : BOOLEAN, excused : BOOLEAN]

Limits == 0..MaxUses \cup {None}

\* word: the code itself, which regenerating changes; limit: maxUses.  History:
\* admitted, the students enrolled by it; free, those of them while nothing
\* limited it and it was not for single use; excused.
Code == [school : 1..MaxSchools, word : 0..MaxWords, used : Nat, limit : Limits,
         single : BOOLEAN, active : BOOLEAN, ofGrade : BOOLEAN, gone : BOOLEAN,
         admitted : Nat, free : Nat, excused : BOOLEAN]

Phases == {"idle", "reread", "signup", "link", "profile", "count",
           "row", "grade", "code", "move", "remove",
           "dropUsers", "dropSchool", "dropTenant"}

Handler == [at : Phases, school : SchoolId, account : 0..MaxAccounts,
            email : Emails \cup {None}, code : 0..MaxCodes, word : 0..MaxWords,
            used : Nat, counts : BOOLEAN, creates : BOOLEAN,
            offers : 0..MaxOffers, single : BOOLEAN,
            todo : SUBSET {"link", "tenant"}, failed : BOOLEAN,
            ids : SUBSET (1..MaxAccounts)]

Idle == [at |-> "idle", school |-> 0, account |-> 0, email |-> None, code |-> 0,
         word |-> 0, used |-> 0, counts |-> FALSE, creates |-> FALSE,
         offers |-> 0, single |-> FALSE, todo |-> {}, failed |-> FALSE,
         ids |-> {}]

NewCode(s, limit, single, ofGrade) ==
    [school |-> s, word |-> 0, used |-> 0, limit |-> limit, single |-> single,
     active |-> TRUE, ofGrade |-> ofGrade, gone |-> FALSE, admitted |-> 0,
     free |-> 0, excused |-> FALSE]

NewAccount(email, role, s) ==
    [email |-> email, role |-> role, tenant |-> s, link |-> 0, profile |-> 0,
     gone |-> FALSE, late |-> schools[s].deleting, excused |-> FALSE]

\* A school from before schools had grades, with nothing else, an administrator,
\* or a code that nobody has used.
Init ==
    /\ \E d \in Domains :
         schools = <<[domain |-> d, tenant |-> TRUE, row |-> TRUE, grades |-> FALSE,
                      asked |-> FALSE, appointed |-> FALSE, offers |-> 1,
                      deleting |-> FALSE, half |-> TRUE, doubled |-> FALSE]>>
    /\ \/ accounts = <<>>
       \/ /\ MaxAccounts # 0
          /\ \E email \in Emails :
               LET x == NewAccount(email, "school_admin", 1) IN
               accounts = <<[x EXCEPT !.link = 1, !.profile = 1]>>
    /\ \/ codes = <<>>
       \/ /\ MaxCodes # 0 /\ accounts = <<>>
          /\ \E limit \in Limits, single \in BOOLEAN :
               codes = <<NewCode(1, limit, single, FALSE)>>
    /\ req = [r \in Requests |-> Idle]
    /\ started = 0
    /\ faults = 0

Starts(r, q) ==
    /\ req[r] = Idle
    /\ started + faults < MaxStarted
    /\ started' = started + 1
    /\ req' = [req EXCEPT ![r] = q]

\* An endpoint of a single call takes none.
AtOnce ==
    /\ started + faults < MaxStarted
    /\ started' = started + 1
    /\ UNCHANGED req

Becomes(r, q) == req' = [req EXCEPT ![r] = q]

Moves(r, at) == LET q == req[r] IN [q EXCEPT !.at = at]

Live(a) == a \in DOMAIN accounts /\ ~accounts[a].gone
EmailFree(email) == \A a \in DOMAIN accounts : Live(a) => accounts[a].email # email
HandlersOf(a) == {r \in Requests : req[r].account = a}
UsersOf(c) == {r \in Requests : req[r].code = c}

-----------------------------------------------------------------------------
(***************************************************************************)
(* Registration with a joining code: validateAndRegister().                *)
(***************************************************************************)
\* validate(): a code with a limit must have uses left.  Nothing limits a code
\* for single use that has none.
Valid(c) ==
    /\ ~codes[c].gone
    /\ codes[c].active
    /\ codes[c].limit # None => codes[c].used < codes[c].limit

RegisterValidate(r, c, email) ==
    /\ c \in DOMAIN codes
    /\ Valid(c)
    /\ Starts(r, [Idle EXCEPT !.at = "reread", !.code = c, !.email = email,
                  !.word = codes[c].word])
    /\ codes' = [codes EXCEPT ![c].excused = @ \/ UsersOf(c) # {}]
    /\ UNCHANGED <<schools, accounts, faults>>

Counts(x) == x.single \/ x.limit # None

\* The code is read again, by its text; only isActive is checked this time.
RegisterReread(r) ==
    /\ req[r].at = "reread"
    /\ LET q == req[r]
           c == codes[q.code]
       IN Becomes(r, IF c.gone \/ c.word # q.word \/ ~c.active THEN Idle
                     ELSE [q EXCEPT !.at = "signup", !.school = c.school, !.used = c.used,
                                    !.counts = Counts(c)])
    /\ UNCHANGED <<schools, accounts, codes, started, faults>>

\* Faulty variant of RegisterCount: only codes for single use are counted.
RegisterCountSingle(r) ==
    /\ req[r].at = "count"
    /\ LET q == req[r] IN
       codes' = IF codes[q.code].gone \/ ~codes[q.code].single THEN codes
                ELSE [codes EXCEPT ![q.code].used = q.used + 1]
    /\ Becomes(r, Idle)
    /\ UNCHANGED <<schools, accounts, started, faults>>

\* The uses as they were read, plus one.
RegisterCount(r) ==
    /\ req[r].at = "count"
    /\ LET q == req[r] IN
       codes' = IF codes[q.code].gone THEN codes
                ELSE [codes EXCEPT ![q.code].used = q.used + 1]
    /\ Becomes(r, Idle)
    /\ UNCHANGED <<schools, accounts, started, faults>>

-----------------------------------------------------------------------------
(***************************************************************************)
(* The calls that registration, school creation and administrator creation *)
(* share: sign-up, link and profile.                                       *)
(***************************************************************************)
\* signup(): one transaction; refused when the e-mail is in use, failing when
\* the tenant is gone.  A school being created stays without its admin.
Signup(r) ==
    /\ req[r].at = "signup"
    /\ LET q == req[r]
           role == IF q.code # 0 THEN "student" ELSE "school_admin"
       IN IF EmailFree(q.email) /\ schools[q.school].tenant
          THEN /\ Len(accounts) < MaxAccounts
               /\ accounts' = Append(accounts, NewAccount(q.email, role, q.school))
               /\ Becomes(r, [q EXCEPT !.at = "link", !.account = Len(accounts) + 1])
               /\ UNCHANGED schools
          ELSE /\ Becomes(r, Idle)
               /\ schools' = [schools EXCEPT ![q.school].half = @ \/ q.creates]
               /\ UNCHANGED accounts
    /\ UNCHANGED <<codes, started, faults>>

Admitting(x) ==
    [x EXCEPT !.admitted = @ + 1, !.free = IF Counts(x) THEN @ ELSE @ + 1]

\* studentSchool.create or schoolAdmin.create.
Link(r) ==
    /\ req[r].at = "link"
    /\ LET q == req[r]
           linked == Live(q.account) /\ schools[q.school].row
       IN /\ accounts' = IF linked THEN [accounts EXCEPT ![q.account].link = q.school]
                         ELSE [accounts EXCEPT ![q.account].excused = TRUE]
          /\ schools' = IF linked THEN [schools EXCEPT ![q.school].appointed =
                                          @ \/ q.creates]
                        ELSE [schools EXCEPT ![q.school].half = @ \/ q.creates]
          /\ codes' = IF linked /\ q.code # 0
                      THEN [codes EXCEPT ![q.code] = Admitting(@)] ELSE codes
          /\ Becomes(r, IF linked THEN [q EXCEPT !.at = "profile"] ELSE Idle)
    /\ UNCHANGED <<started, faults>>

\* profile.upsert, which also ends a move and an update of an administrator.
WriteProfile(r) ==
    /\ req[r].at = "profile"
    /\ LET q == req[r] IN
       /\ accounts' = IF Live(q.account)
                      THEN [accounts EXCEPT ![q.account].profile = q.school]
                      ELSE accounts
       /\ codes' = IF ~Live(q.account) /\ q.code # 0
                   THEN [codes EXCEPT ![q.code].excused = TRUE] ELSE codes
       /\ Becomes(r, IF Live(q.account) /\ q.counts THEN [q EXCEPT !.at = "count"]
                     ELSE Idle)
    /\ UNCHANGED <<schools, started, faults>>

-----------------------------------------------------------------------------
(***************************************************************************)
(* Schools: AdminSchoolsService.                                           *)
(***************************************************************************)
\* create(): the tenant first, whose domain is unique.  The request may name a
\* grade more than once, and gives the usage of the codes.
CreateSchool(r, d, email, offers, single) ==
    /\ Len(schools) < MaxSchools
    /\ \A s \in DOMAIN schools : schools[s].tenant => schools[s].domain # d
    /\ schools' = Append(schools, [domain |-> d, tenant |-> TRUE, row |-> FALSE,
                     grades |-> FALSE, asked |-> email # None, appointed |-> FALSE,
                     offers |-> offers, deleting |-> FALSE, half |-> FALSE, doubled |-> FALSE])
    /\ Starts(r, [Idle EXCEPT !.at = "row", !.school = Len(schools) + 1,
                  !.email = email, !.creates = TRUE, !.offers = offers,
                  !.single = single])
    /\ UNCHANGED <<accounts, codes, faults>>

\* Faulty variant of SchoolRow: no grades are created.
SchoolRowOnly(r) ==
    /\ req[r].at = "row"
    /\ schools' = [schools EXCEPT ![req[r].school].row = TRUE]
    /\ Becomes(r, IF req[r].email = None THEN Idle ELSE Moves(r, "signup"))
    /\ UNCHANGED <<accounts, codes, started, faults>>

\* school.upsert.
SchoolRow(r) ==
    /\ req[r].at = "row"
    /\ schools' = [schools EXCEPT ![req[r].school].row = TRUE]
    /\ Becomes(r, Moves(r, "grade"))
    /\ UNCHANGED <<accounts, codes, started, faults>>

StructureHandlers(s) ==
    {r \in Requests : req[r].school = s /\ req[r].at \in {"row", "grade", "code"}}

\* initAcademicStructure(): for a school without grades.
InitStructure(r, s) ==
    /\ s \in DOMAIN schools
    /\ schools[s].row /\ ~schools[s].grades
    /\ Starts(r, [Idle EXCEPT !.at = "grade", !.school = s, !.offers = 1, !.single = TRUE])
    /\ schools' = [schools EXCEPT ![s].doubled = @ \/ StructureHandlers(s) # {}]
    /\ UNCHANGED <<accounts, codes, faults>>

\* One grade with one section stands for them all: grade.upsert and
\* section.upsert, which a repeated grade finds there, then a code without a
\* limit, once each time the grade is named.
CreateGrade(r) ==
    /\ req[r].at = "grade"
    /\ LET q == req[r] IN
       IF schools[q.school].row
       THEN /\ schools' = [schools EXCEPT ![q.school].grades = TRUE]
            /\ Becomes(r, [q EXCEPT !.at = "code"])
       ELSE /\ schools' = [schools EXCEPT ![q.school].half = @ \/ q.creates]
            /\ Becomes(r, Idle)
    /\ UNCHANGED <<accounts, codes, started, faults>>

CreateGradeCode(r) ==
    /\ req[r].at = "code"
    /\ LET q == req[r] IN
       IF schools[q.school].row /\ schools[q.school].grades
       THEN /\ Len(codes) < MaxCodes
            /\ codes' = Append(codes, NewCode(q.school, None, q.single, TRUE))
            /\ Becomes(r, IF q.offers > 1
                          THEN [q EXCEPT !.at = "grade", !.offers = @ - 1]
                          ELSE IF q.email = None THEN Idle
                               ELSE [q EXCEPT !.at = "signup"])
            /\ UNCHANGED schools
       ELSE /\ schools' = [schools EXCEPT ![q.school].half = @ \/ q.creates]
            /\ Becomes(r, Idle)
            /\ UNCHANGED codes
    /\ UNCHANGED <<accounts, started, faults>>

AdminsOf(s) ==
    {a \in DOMAIN accounts : Live(a) /\ accounts[a].role = "school_admin"
                             /\ accounts[a].link = s}

\* ensureSchoolForTenant() and resolveSchoolId(): the row is created when only
\* the tenant is there.
Resolves(s) ==
    /\ s \in DOMAIN schools
    /\ schools[s].row \/ schools[s].tenant
    /\ schools' = [schools EXCEPT ![s].row = TRUE]

\* update() of the school, and of the e-mail of an administrator it has.
UpdateSchool(s, email) ==
    /\ Resolves(s)
    /\ \/ UNCHANGED accounts
       \/ \E a \in AdminsOf(s) : /\ EmailFree(email)
                                 /\ accounts' = [accounts EXCEPT ![a].email = email]
    /\ AtOnce
    /\ UNCHANGED <<codes, faults>>

\* update() with an administrator for a school without one: it is signed up.
UpdateSchoolAppoint(r, s, email) ==
    /\ Resolves(s)
    /\ AdminsOf(s) = {}
    /\ Starts(r, [Idle EXCEPT !.at = "signup", !.school = s, !.email = email])
    /\ UNCHANGED <<accounts, codes, faults>>

\* update() with the name or the phone of the administrator, which writes the
\* profile, and the e-mail or none.
UpdateSchoolAdmin(r, s, email) ==
    /\ Resolves(s)
    /\ \E a \in AdminsOf(s) :
         /\ EmailFree(email) \/ accounts[a].email = email
         /\ accounts' = [accounts EXCEPT ![a].email = email,
                                         ![a].excused = @ \/ HandlersOf(a) # {}]
         /\ Starts(r, [Idle EXCEPT !.at = "profile", !.school = s, !.account = a])
    /\ UNCHANGED <<codes, faults>>

\* delete(): the users of the tenant are looked up and deleted first, "so the
\* email can be reused", then the school and the tenant, of which either may be
\* missing.
DeleteSchool(r, s) ==
    /\ s \in DOMAIN schools
    /\ schools[s].tenant \/ schools[s].row
    /\ schools' = [schools EXCEPT ![s].deleting = TRUE]
    /\ Starts(r, [Idle EXCEPT !.at = "dropUsers", !.school = s,
                  !.ids = {a \in DOMAIN accounts : Live(a) /\ accounts[a].tenant = s}])
    /\ UNCHANGED <<accounts, codes, faults>>

\* Faulty variant of DropUsers: only the users linked to the school.
DropUsersLinked(r) ==
    /\ req[r].at = "dropUsers"
    /\ accounts' = [a \in DOMAIN accounts |->
                      LET x == accounts[a] IN
                      [x EXCEPT !.gone = @ \/ (a \in req[r].ids /\ x.link # 0)]]
    /\ Becomes(r, Moves(r, "dropSchool"))
    /\ UNCHANGED <<schools, codes, started, faults>>

DropUsers(r) ==
    /\ req[r].at = "dropUsers"
    /\ accounts' = [a \in DOMAIN accounts |->
                      LET x == accounts[a] IN [x EXCEPT !.gone = @ \/ a \in req[r].ids]]
    /\ Becomes(r, Moves(r, "dropSchool"))
    /\ UNCHANGED <<schools, codes, started, faults>>

\* The grades, codes and links of the school go with it.
DropSchool(r) ==
    /\ req[r].at = "dropSchool"
    /\ LET s == req[r].school IN
       /\ schools' = [schools EXCEPT ![s].row = FALSE, ![s].grades = FALSE]
       /\ codes' = [c \in DOMAIN codes |->
                      LET x == codes[c] IN [x EXCEPT !.gone = @ \/ x.school = s]]
       /\ accounts' = [a \in DOMAIN accounts |->
                         LET x == accounts[a] IN
                         IF x.link = s THEN [x EXCEPT !.link = 0, !.excused = TRUE] ELSE x]
    /\ Becomes(r, Moves(r, "dropTenant"))
    /\ UNCHANGED <<started, faults>>

\* User.tenantId of who is left becomes null.
DropTenant(r) ==
    /\ req[r].at = "dropTenant"
    /\ LET s == req[r].school IN
       /\ schools' = [schools EXCEPT ![s].tenant = FALSE]
       /\ accounts' = [a \in DOMAIN accounts |->
                         LET x == accounts[a] IN
                         IF x.tenant = s THEN [x EXCEPT !.tenant = 0, !.excused = TRUE] ELSE x]
    /\ Becomes(r, Idle)
    /\ UNCHANGED <<codes, started, faults>>

-----------------------------------------------------------------------------
(***************************************************************************)
(* School administrators: SchoolAdminsService; and CreateAccountService.   *)
(***************************************************************************)
CreateAdmin(r, s, email) ==
    /\ Resolves(s)
    /\ Starts(r, [Idle EXCEPT !.at = "signup", !.school = s, !.email = email])
    /\ UNCHANGED <<accounts, codes, faults>>

\* Faulty variant of MoveAdmin: the tenant stays.
MoveAdminLinkOnly(r, a, s) ==
    /\ a \in DOMAIN accounts
    /\ Live(a) /\ accounts[a].role = "school_admin"
    /\ accounts[a].link \notin {0, s}
    /\ Resolves(s)
    /\ accounts' = [accounts EXCEPT ![a].excused = @ \/ HandlersOf(a) # {}]
    /\ Starts(r, [Idle EXCEPT !.at = "move", !.account = a, !.school = s,
                  !.todo = {"link"}])
    /\ UNCHANGED <<codes, faults>>

\* update() with another school: the link and the tenant are written at the same
\* time (Promise.all), the profile after both.
MoveAdmin(r, a, s) ==
    /\ a \in DOMAIN accounts
    /\ Live(a) /\ accounts[a].role = "school_admin"
    /\ accounts[a].link \notin {0, s}
    /\ Resolves(s)
    /\ accounts' = [accounts EXCEPT ![a].excused = @ \/ HandlersOf(a) # {}]
    /\ Starts(r, [Idle EXCEPT !.at = "move", !.account = a, !.school = s,
                  !.todo = {"link", "tenant"}])
    /\ UNCHANGED <<codes, faults>>

\* A row that is gone, or a school that is, makes the call fail; the other call
\* is under way all the same.
MoveWrite(r, w) ==
    /\ req[r].at = "move"
    /\ w \in req[r].todo
    /\ LET q == req[r]
           s == schools[q.school]
           a == accounts[q.account]
           done == Live(q.account) /\ IF w = "link" THEN s.row /\ a.link # 0 ELSE s.tenant
           rest == q.todo \ {w}
       IN /\ accounts' =
               IF ~done THEN [accounts EXCEPT ![q.account].excused = TRUE]
               ELSE IF w = "link" THEN [accounts EXCEPT ![q.account].link = q.school]
               ELSE [accounts EXCEPT ![q.account].tenant = q.school,
                                     ![q.account].late = s.deleting]
          /\ Becomes(r, IF rest # {}
                        THEN [q EXCEPT !.todo = rest, !.failed = ~done]
                        ELSE IF done /\ ~q.failed
                             THEN [q EXCEPT !.todo = {}, !.at = "profile"] ELSE Idle)
    /\ UNCHANGED <<schools, codes, started, faults>>

\* delete(): the links, then the account.
RemoveAdmin(r, a) ==
    /\ a \in DOMAIN accounts
    /\ Live(a) /\ accounts[a].role = "school_admin"
    /\ accounts' = [accounts EXCEPT ![a].link = 0, ![a].excused = @ \/ HandlersOf(a) # {}]
    /\ Starts(r, [Idle EXCEPT !.at = "remove", !.account = a])
    /\ UNCHANGED <<schools, codes, faults>>

RemoveUser(r) ==
    /\ req[r].at = "remove"
    /\ accounts' = [accounts EXCEPT ![req[r].account].gone = TRUE]
    /\ Becomes(r, Idle)
    /\ UNCHANGED <<schools, codes, started, faults>>

\* create-account: a sign-up and nothing else.
CreateAccount(s, email, role) ==
    /\ s \in DOMAIN schools
    /\ schools[s].tenant
    /\ EmailFree(email)
    /\ Len(accounts) < MaxAccounts
    /\ LET x == NewAccount(email, role, s) IN
       accounts' = Append(accounts, [x EXCEPT !.excused = TRUE])
    /\ AtOnce
    /\ UNCHANGED <<schools, codes, faults>>

-----------------------------------------------------------------------------
(***************************************************************************)
(* Joining codes: JoiningCodesService.                                     *)
(***************************************************************************)
CreateCode(s, limit, single) ==
    /\ s \in DOMAIN schools
    /\ schools[s].row
    /\ Len(codes) < MaxCodes
    /\ codes' = Append(codes, NewCode(s, limit, single, FALSE))
    /\ AtOnce
    /\ UNCHANGED <<schools, accounts, faults>>

\* Regenerating gives the row another text and starts counting again.
Regenerate(c) ==
    /\ c \in DOMAIN codes
    /\ ~codes[c].gone /\ codes[c].word < MaxWords
    /\ codes' = [codes EXCEPT ![c].word = @ + 1, ![c].used = 0, ![c].admitted = 0,
                              ![c].free = 0, ![c].excused = UsersOf(c) # {}]
    /\ AtOnce
    /\ UNCHANGED <<schools, accounts, faults>>

\* Faulty variant of EditCode: a usage that is neither single nor multiple is
\* stored.
EditCodeRaw(c, limit, single, active) ==
    /\ c \in DOMAIN codes
    /\ ~codes[c].gone
    /\ codes' = [codes EXCEPT ![c].limit = limit, ![c].active = active,
                              ![c].single = IF single THEN TRUE ELSE None,
                              ![c].excused = TRUE]
    /\ AtOnce
    /\ UNCHANGED <<schools, accounts, faults>>

\* update() of the limit, the usage, the activity, or some of them.
EditCode(c, limit, single, active) ==
    /\ c \in DOMAIN codes
    /\ ~codes[c].gone
    /\ LET x == codes[c] IN
       codes' = [codes EXCEPT ![c].limit = limit, ![c].single = single,
                              ![c].active = active,
                              ![c].excused = \/ @
                                             \/ UsersOf(c) # {}
                                             \/ limit # None /\ x.used > limit]
    /\ AtOnce
    /\ UNCHANGED <<schools, accounts, faults>>

-----------------------------------------------------------------------------
\* A call of the handler fails and the rest of it does not happen.
Fail(r) ==
    /\ faults < MaxFaults /\ started + faults < MaxStarted
    /\ faults' = faults + 1
    /\ LET q == req[r] IN
       /\ q.at # "idle"
       /\ accounts' = IF q.account # 0
                      THEN [accounts EXCEPT ![q.account].excused = TRUE] ELSE accounts
       /\ schools' = IF q.creates
                     THEN [schools EXCEPT ![q.school].half = TRUE] ELSE schools
       /\ codes' = IF q.code # 0 THEN [codes EXCEPT ![q.code].excused = TRUE] ELSE codes
    /\ Becomes(r, Idle)
    /\ UNCHANGED started

Step(r) ==
    \/ RegisterReread(r) \/ RegisterCount(r)
    \/ Signup(r) \/ Link(r) \/ WriteProfile(r)
    \/ SchoolRow(r) \/ CreateGrade(r) \/ CreateGradeCode(r)
    \/ DropUsers(r) \/ DropSchool(r) \/ DropTenant(r)
    \/ RemoveUser(r)
    \/ \E w \in {"link", "tenant"} : MoveWrite(r, w)
    \/ Fail(r)

StartForEmail(r, email) ==
    \/ \E c \in 1..MaxCodes : RegisterValidate(r, c, email)
    \/ \E s \in 1..MaxSchools : UpdateSchoolAppoint(r, s, email)
                                \/ UpdateSchoolAdmin(r, s, email)
                                \/ CreateAdmin(r, s, email)

Start(r) ==
    \/ \E email \in Emails : StartForEmail(r, email)
    \/ \E d \in Domains, email \in Emails \cup {None}, offers \in 1..MaxOffers,
          single \in BOOLEAN : CreateSchool(r, d, email, offers, single)
    \/ \E s \in 1..MaxSchools : InitStructure(r, s) \/ DeleteSchool(r, s)
    \/ \E a \in 1..MaxAccounts : RemoveAdmin(r, a)
                                 \/ \E s \in 1..MaxSchools : MoveAdmin(r, a, s)

Next ==
    \/ \E r \in Requests : Step(r) \/ Start(r)
    \/ \E s \in 1..MaxSchools, email \in Emails : UpdateSchool(s, email)
    \/ \E s \in 1..MaxSchools, limit \in Limits, single \in BOOLEAN :
         CreateCode(s, limit, single)
    \/ \E c \in 1..MaxCodes : Regenerate(c)
    \/ \E c \in 1..MaxCodes, limit \in Limits, single, active \in BOOLEAN :
         EditCode(c, limit, single, active)
    \/ \E s \in 1..MaxSchools, email \in Emails, role \in {"student", "school_admin"} :
         CreateAccount(s, email, role)

Spec == Init /\ [][Next]_vars

-----------------------------------------------------------------------------
(***************************************************************************)
(* Properties.                                                             *)
(***************************************************************************)
TypeOK ==
    /\ schools \in Seq(School) /\ Len(schools) <= MaxSchools
    /\ accounts \in Seq(Account) /\ Len(accounts) <= MaxAccounts
    /\ codes \in Seq(Code) /\ Len(codes) <= MaxCodes
    /\ req \in [Requests -> Handler]
    /\ started \in 0..MaxStarted /\ faults \in 0..MaxFaults

\* An account belongs to one school in all three places, its tenant, its
\* enrolment or administration row and its profile ("Keep tenant scoping aligned
\* with school assignment", school-admins.service.ts), once no handler is at
\* work on it; unless one failed, two overlapped, its school was deleted under
\* it, or it was created as an account only.
AccountsWhole ==
    \A a \in DOMAIN accounts :
        LET x == accounts[a] IN
        (Live(a) /\ ~x.excused /\ HandlersOf(a) = {})
          => x.tenant # 0 /\ x.link = x.tenant /\ x.profile = x.tenant

\* Deleting a school deletes its accounts, so that their e-mails are free; only
\* one that came to the school after the deletion had begun is left, and
\* belongs to none.
DeletedSchoolsEmpty ==
    \A a \in DOMAIN accounts : (Live(a) /\ accounts[a].tenant = 0) => accounts[a].late

\* A code admits no more students than its limit, those aside that it admitted
\* before it had one and while it was not for single use, which are not counted;
\* and the rest it knows the number of.  Unless two registrations overlapped, or
\* one and a change of the code, one failed before it was counted, or the limit
\* was lowered below the uses: usedCount is written as the value read plus one.
LimitsHeld ==
    \A c \in DOMAIN codes :
        LET x == codes[c] IN
        (~x.gone /\ ~x.excused) =>
            /\ x.limit # None => x.admitted <= x.limit + x.free
            /\ UsersOf(c) = {} => x.used + x.free = x.admitted

\* A section of a school gets one code for each time its grade was asked for: the
\* grades are looked for before they are created, which two handlers at a time
\* may do.
CodesAsAsked(s) ==
    schools[s].doubled \/
    Cardinality({c \in DOMAIN codes : codes[c].school = s /\ codes[c].ofGrade
                                      /\ ~codes[c].gone}) <= schools[s].offers

\* A school whose creation has ended has its row, its grades with as many codes
\* for their sections as they were named at most, and the administrator asked
\* for, unless the creation failed, or was refused because of the
\* administrator's e-mail: nothing undoes it then, and its domain stays taken.
SchoolsWhole ==
    \A s \in DOMAIN schools :
        LET x == schools[s]
            creating == \E r \in Requests : req[r].school = s /\ req[r].creates
        IN /\ CodesAsAsked(s)
           /\ (x.tenant /\ ~x.half /\ ~x.deleting /\ ~creating) =>
                /\ x.row /\ x.grades
                /\ \E c \in DOMAIN codes : codes[c].school = s /\ codes[c].ofGrade
                /\ x.asked => x.appointed
=============================================================================
