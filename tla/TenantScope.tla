---------------------------- MODULE TenantScope ----------------------------
(***************************************************************************)
(* Which database queries the tenant extension of DatabaseService lets     *)
(* through, and the context the interceptor runs a request in.             *)
(*                                                                         *)
(* A query is what the extension looks at: the foreign keys its where      *)
(* clause names, with the schools it asks for.                             *)
(***************************************************************************)
EXTENDS Naturals, FiniteSets

CONSTANTS Tenants,      \* schools; a school has the id of its tenant
          NoContext,    \* code that runs outside tenantContext.run
          SuperAdmin    \* tenantContext.runSuperAdmin

ASSUME ContextsDiffer ==
    /\ NoContext \notin Tenants
    /\ SuperAdmin \notin Tenants
    /\ NoContext # SuperAdmin

Contexts == Tenants \cup {NoContext, SuperAdmin}

\* containsTenantForeignKey: the keys that make a query tenant-scoped.
TenantKeys == {"userId", "teacherId", "studentId", "senderId", "issuedBy",
               "approvedBy", "schoolId"}

\* The schools of an account are those of its TeacherSchool, StudentSchool or
\* SchoolAdmin rows, by its role.
Roles == {"admin", "teacher", "school_admin", "student"}

UserRecord == [role : Roles, tenant : Tenants, schools : SUBSET Tenants]

Query == [keys : SUBSET TenantKeys, schools : SUBSET Tenants]

\* A tenant-scoped query is refused without a tenant, and when it names a
\* school other than the tenant's.
Refuses(ctx, q) ==
    /\ ctx # SuperAdmin
    /\ q.keys # {}
    /\ \/ ctx = NoContext
       \/ "schoolId" \in q.keys /\ ~(q.schools \subseteq {ctx})

\* Faulty variant of ContextsOf: the school a teacher's request names is taken
\* without looking for the assignment.
ContextsOfNamed(u) ==
    CASE u.role = "admin" -> {SuperAdmin}
      [] u.role = "teacher" -> Tenants
      [] OTHER -> {u.tenant}

\* TenantContextInterceptor: a global user runs unscoped, everybody else in the
\* tenant of the token; a teacher also in another assigned school that the
\* request names.
ContextsOf(u) ==
    CASE u.role = "admin" -> {SuperAdmin}
      [] u.role = "teacher" -> {u.tenant} \cup u.schools
      [] OTHER -> {u.tenant}
=============================================================================
