-------------------------------- MODULE Access --------------------------------
(***************************************************************************)
(* Who works in which store: the membership endpoints, from the tenant the *)
(* request is resolved to (through the cache) over the permission it needs *)
(* to the row it writes and the audit entry it leaves.  Every await is a   *)
(* step, so what one request decided on may be gone when it writes.        *)
(*                                                                         *)
(* Sign-in (Sessions) and store membership meet in the accounts, which a   *)
(* sign-in, a grant and the staff endpoints all create and change.         *)
(***************************************************************************)
EXTENDS Sessions, FiniteSets

\* The permission tables behind requirePermission.
TenantRoles ==
  {"OWNER", "ADMIN_MANAGER", "ADMIN", "MANAGER", "SELLER", "EDITOR", "VIEWER"}

Roster == {"tenant_staff:read", "tenant_staff:manage"}

StorePermissions ==
  {"catalog:read", "catalog:write", "catalog:delete", "orders:read", "orders:write",
   "orders:refund", "customers:read", "customers:write", "analytics:read",
   "tenant_settings:read", "tenant_settings:write"} \cup Roster

\* PLATFORM_ROLE_PERMISSIONS
PlatformGrants(role) ==
  CASE role \in {"SUPER_ADMIN", "DEVELOPER"} -> StorePermissions \cup {"platform:manage"}
    [] role = "USER" -> {}

\* TENANT_ROLE_PERMISSIONS
TenantGrants(role) ==
  CASE role \in {"OWNER", "ADMIN_MANAGER"} -> StorePermissions
    [] role = "ADMIN" -> StorePermissions \ {"tenant_staff:manage"}
    [] role = "MANAGER" ->
         StorePermissions
           \ (Roster \cup {"catalog:delete", "orders:refund", "tenant_settings:write"})
    [] role = "EDITOR" -> {"catalog:read", "catalog:write"}
    [] role = "SELLER" -> {"catalog:read", "orders:read", "orders:write"}
    [] role = "VIEWER" ->
         {"catalog:read", "orders:read", "customers:read", "analytics:read",
          "tenant_settings:read"}

-----------------------------------------------------------------------------
CONSTANTS
  Tenants,
  Admins,          \* accounts with the platform's SUPER_ADMIN or DEVELOPER role
  Roles,           \* tenant roles a request may name
  Staff,           \* membership requests served at the same time
  Visitors,        \* requests resolving their tenant at the same time
  MaxIds,          \* bound: rows there may be
  Founders         \* memberships there are at first: [tenant, user, role]

ASSUME MembershipAssumption ==
  /\ Admins \subseteq Users
  /\ Roles \subseteq TenantRoles
  /\ Founders \subseteq [tenant : Tenants, user : Users, role : TenantRoles]
  /\ IsFiniteSet(Founders)
  /\ \A f, g \in Founders : <<f.tenant, f.user>> = <<g.tenant, g.user>> => f = g

VARIABLES
  status,          \* tenant -> its TenantStatus
  cached, fetch,   \* the tenants Redis holds, the reads on their way there
  member,          \* TenantMembership rows: [id, tenant, user, role]
  rows,            \* rows there have been
  audit,           \* <<tenant, user>> -> the role in its last AuditLog entry
  request,         \* request -> the step it is at and what it has read
  alone            \* history: never two membership requests at once so far

roster == <<member, rows>>
memberVars ==
  <<account, left, status, cached, fetch, member, rows, audit, request, alone>>

TenantCache ==
  INSTANCE CacheAside WITH
    Keys <- Tenants, Readers <- Visitors, Nothing <- None, source <- status

Idle == [at |-> "idle"]

RowOf(t, u) == {r \in member : r.tenant = t /\ r.user = u}

Owners(t) == {r \in member : r.tenant = t /\ r.role = "OWNER"}

Protected == {"OWNER", "ADMIN_MANAGER"}

\* ADMIN_MANAGER_ASSIGNABLE_ROLES
Assignable == {"ADMIN"}

Ids == 1 .. MaxIds

Orders ==
  [op : {"grant"}, user : Users, role : Roles, join : BOOLEAN, tenant : Tenants \cup {None}]
    \cup [op : {"update"}, id : Ids, role : Roles]
    \cup [op : {"remove"}, id : Ids]

Answered(p) == request' = [request EXCEPT ![p] = Idle]

FounderId == CHOOSE id \in [Founders -> 1 .. Cardinality(Founders)] :
               \A f, g \in Founders : id[f] = id[g] => f = g

MemberInit ==
  /\ status = [t \in Tenants |-> "ACTIVE"]
  /\ TenantCache!Init
  /\ member = {[id |-> FounderId[f], tenant |-> f.tenant, user |-> f.user, role |-> f.role] :
                 f \in Founders}
  /\ rows = Cardinality(Founders)
  /\ audit = [s \in Tenants \X Users |->
                IF RowOf(s[1], s[2]) = {} THEN None
                ELSE (CHOOSE r \in RowOf(s[1], s[2]) : TRUE).role]
  /\ request = [p \in Staff |-> Idle]
  /\ alone = TRUE

----------------------------------------------------------------------------
(* resolveTenant *)

\* A visitor's request resolves its tenant through the cache.  Visitors come all
\* the time, in the mixes that have any.
Visit(v, t) ==
  /\ left["visits"] > 0
  /\ TenantCache!Hit(v, t) \/ TenantCache!Load(v, t) \/ (TenantCache!Store(v) /\ t = fetch[v].key)
  /\ UNCHANGED <<account, left, roster, audit, request, alone>>

Expire(t) ==
  /\ TenantCache!Expire(t)
  /\ UNCHANGED <<account, left, roster, audit, request, alone>>

\* updateTenant: the cache is not told.
SetStatus(t, state) ==
  /\ Asked("settings")
  /\ status[t] # state
  /\ status' = [status EXCEPT ![t] = state]
  /\ UNCHANGED <<account, cached, fetch, roster, audit, request, alone>>

\* The tenant a request goes on with: the cache or the database says it is live,
\* or it cannot be found out and the request goes on without one.
ResolvesTo(t) == t \in Tenants => "ACTIVE" \in {cached[t], status[t]}

----------------------------------------------------------------------------
(* authenticate, requirePermission, resolveActingRole *)

May(u, t, permission) ==
  \/ u \in Admins /\ permission \in PlatformGrants("SUPER_ADMIN")
  \/ t # None /\ \E r \in RowOf(t, u) : permission \in TenantGrants(r.role)

\* An admin may name the store of a grant, which must be live.
NamesStore(o) == o.op = "grant" /\ o.tenant # None

StoreOf(o, t) == IF NamesStore(o) THEN o.tenant ELSE t

Ask(p, u, t, o) ==
  /\ Asked("staff")
  /\ request[p] = Idle
  /\ ResolvesTo(t)
  /\ Found(u)
  /\ May(u, t, "tenant_staff:manage")
  /\ NamesStore(o) => u \in Admins /\ status[o.tenant] = "ACTIVE"
  /\ o.op = "grant" => StoreOf(o, t) # None
  /\ o.op # "grant" => o.id <= rows
  /\ request' = [request EXCEPT ![p] =
                   [at |-> "acting", by |-> u, order |-> o, tenant |-> StoreOf(o, t)]]
  /\ alone' = (alone /\ \A q \in Staff : request[q] = Idle)
  /\ UNCHANGED <<account, status, cached, fetch, roster, audit>>

Step(p, at) == request' = [request EXCEPT ![p].at = at]

UnchangedRest == UNCHANGED <<status, cached, fetch, left, alone>>

\* The request works for an ADMIN_MANAGER or less unless it found an owner.
Acting(p) ==
  LET job == request[p]
      full == \/ job.by \in Admins
              \/ \E r \in RowOf(job.tenant, job.by) : r.role = "OWNER"
      known == job.by \in Admins \/ RowOf(job.tenant, job.by) # {}
      ceiling == job.order.op = "grant" => full \/ job.order.role \in Assignable
  IN /\ job.at = "acting"
     /\ IF known /\ ceiling
        THEN request' = [request EXCEPT ![p] =
               [at |-> IF job.order.op = "grant" THEN "account" ELSE "target",
                by |-> job.by, order |-> job.order, tenant |-> job.tenant, full |-> full]]
        ELSE Answered(p)
     /\ UNCHANGED <<account, roster, audit>>
     /\ UnchangedRest

----------------------------------------------------------------------------
(* grant *)

FindAccount(p) ==
  LET job == request[p] IN
  /\ job.at = "account"
  /\ IF Found(job.order.user) THEN Step(p, "existing")
     ELSE IF job.order.join THEN Step(p, "open") ELSE Answered(p)
  /\ UNCHANGED <<account, roster, audit>>
  /\ UnchangedRest

\* Emails are unique over deleted accounts too: the insert may throw.
OpenAccount(p) ==
  LET u == request[p].order.user IN
  /\ request[p].at = "open"
  /\ \/ Insert(u, TRUE) /\ Step(p, "existing")
     \/ InsertFails(u) /\ Answered(p)
  /\ UNCHANGED <<roster, audit>>
  /\ UnchangedRest

FindMember(p) ==
  LET job == request[p] IN
  /\ job.at = "existing"
  /\ IF RowOf(job.tenant, job.order.user) = {} THEN Step(p, "create") ELSE Answered(p)
  /\ UNCHANGED <<account, roster, audit>>
  /\ UnchangedRest

ToLog(p, t, u, role) ==
  request' = [request EXCEPT ![p] = [at |-> "log", tenant |-> t, user |-> u, role |-> role]]

Create(p) ==
  LET job == request[p]
      o == job.order
  IN /\ job.at = "create"
     /\ IF RowOf(job.tenant, o.user) = {}
        THEN /\ rows' = rows + 1
             /\ member' = member \cup
                  {[id |-> rows + 1, tenant |-> job.tenant, user |-> o.user, role |-> o.role]}
             /\ ToLog(p, job.tenant, o.user, o.role)
        ELSE Answered(p) /\ UNCHANGED roster
     /\ UNCHANGED <<account, audit>>
     /\ UnchangedRest

----------------------------------------------------------------------------
(* updateRole, remove *)

\* Only the store a non-admin acts in is looked at.
Target(p) ==
  LET job == request[p] IN
  {r \in member : r.id = job.order.id /\ (job.by \in Admins \/ r.tenant = job.tenant)}

\* What a manager may not do to a row.
Refused(job, r) ==
  /\ ~job.full
  /\ \/ r.role \in Protected
     \/ job.order.op = "update" /\ job.order.role \notin Assignable

\* Mutant of LosesOwner: only a removal is taken for the loss of an owner.
LosesOwnerByRemoval(o, r) == r.role = "OWNER" /\ o.op = "remove"

LosesOwner(o, r) == r.role = "OWNER" /\ (o.op = "update" => o.role # "OWNER")

FindTarget(p) ==
  LET job == request[p] IN
  /\ job.at = "target"
  /\ \/ Target(p) = {} /\ Answered(p)
     \/ \E r \in Target(p) :
          IF Refused(job, r) THEN Answered(p)
          ELSE request' = [request EXCEPT ![p] =
                 [at |-> IF LosesOwner(job.order, r) THEN "count" ELSE "write",
                  by |-> job.by, order |-> job.order, tenant |-> r.tenant, full |-> job.full]]
  /\ UNCHANGED <<account, roster, audit>>
  /\ UnchangedRest

\* assertNotLastOwner
CountOwners(p) ==
  /\ request[p].at = "count"
  /\ IF Cardinality(Owners(request[p].tenant)) <= 1 THEN Answered(p) ELSE Step(p, "write")
  /\ UNCHANGED <<account, roster, audit>>
  /\ UnchangedRest

\* By id; a row that is gone is an error.
Write(p) ==
  LET o == request[p].order IN
  /\ request[p].at = "write"
  /\ \/ /\ \A r \in member : r.id # o.id
        /\ Answered(p)
        /\ UNCHANGED member
     \/ \E r \in member :
          /\ r.id = o.id
          /\ member' = (member \ {r}) \cup
               (IF o.op = "update" THEN {[r EXCEPT !.role = o.role]} ELSE {})
          /\ ToLog(p, r.tenant, r.user, IF o.op = "update" THEN o.role ELSE None)
  /\ UNCHANGED <<account, rows, audit>>
  /\ UnchangedRest

\* The audit entry, best effort.
Log(p) ==
  LET job == request[p] IN
  /\ job.at = "log"
  /\ \/ audit' = [audit EXCEPT ![<<job.tenant, job.user>>] = job.role]
     \/ UNCHANGED audit
  /\ Answered(p)
  /\ UNCHANGED <<account, roster>>
  /\ UnchangedRest

\* The server stops: the request is gone, what it wrote is not.
Stop(p) ==
  /\ request[p].at # "idle"
  /\ Answered(p)
  /\ UNCHANGED <<account, status, cached, fetch, roster, audit, left, alone>>

Serve(p) ==
  \/ Acting(p)
  \/ FindAccount(p) \/ OpenAccount(p) \/ FindMember(p) \/ Create(p)
  \/ FindTarget(p) \/ CountOwners(p) \/ Write(p) \/ Log(p)

MemberNext ==
  \/ \E p \in Staff :
       \/ \E u \in Users, t \in Tenants \cup {None}, o \in Orders : Ask(p, u, t, o)
       \/ Serve(p)
       \/ Stop(p)
  \/ \E t \in Tenants :
       \/ \E v \in Visitors : Visit(v, t)
       \/ Expire(t)
       \/ \E state \in {"ACTIVE", "SUSPENDED"} : SetStatus(t, state)

\* A visitor's request goes on, and a cached tenant has a time to live.
MemberFairness ==
  /\ \A v \in Visitors : WF_memberVars(\E t \in Tenants : Visit(v, t) /\ fetch[v] # None)
  /\ \A t \in Tenants : WF_memberVars(Expire(t))

-----------------------------------------------------------------------------
(* Sign-in and store membership together. *)

signInState == <<linked, session, issued, held, call, spent, spentTwice, raced>>
storeState == <<status, cached, fetch, member, rows, audit, request, alone>>
accessVars == <<account, left, signInState, storeState>>

Init ==
  /\ account = [u \in Users |->
                  [state |-> IF u \in Admins \/ \E f \in Founders : f.user = u
                             THEN "active" ELSE "absent",
                   password |-> TRUE]]
  /\ left \in Mixes
  /\ SessionInit
  /\ MemberInit

Staffing ==
  /\ \E u \in Users :
       \/ \E password \in BOOLEAN : AddAccount(u, password)
       \/ \E state \in AccountStates \ {"absent"} : SetAccount(u, state)
  /\ UNCHANGED <<signInState, storeState>>

Next ==
  \/ SessionNext /\ UNCHANGED storeState
  \/ MemberNext /\ UNCHANGED signInState
  \/ Staffing

Spec == Init /\ [][Next]_accessVars /\ MemberFairness

-----------------------------------------------------------------------------
(* Properties *)

\* A store that has an owner keeps one: demoting and removing owners one request
\* at a time never leaves the store without (assertNotLastOwner).  Two at once
\* both count two owners.
AloneStoreHasOwner ==
  alone => \A f \in Founders : f.role = "OWNER" => Owners(f.tenant) # {}

\* Suspending a store takes hold: from some time on no request finds it live,
\* though resolveTenant's cache is never told and a read that began before may be
\* stored after (CacheUtil.remember).
SuspensionTakesHold ==
  \A t \in Tenants :
    <>[](status[t] = "SUSPENDED") =>
      <>[](cached[t] # "ACTIVE")

=============================================================================
