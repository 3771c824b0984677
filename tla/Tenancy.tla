------------------------------ MODULE Tenancy -------------------------------
(***************************************************************************)
(* Who may see and write which rows.  Two layers decide: the handlers,     *)
(* which scope a query to the caller's cooperative (and a farmer's to the  *)
(* farmer's own rows), and PostgreSQL's row-level security policies, which *)
(* read the caller from session settings that every query carries.  The    *)
(* policies apply when the server connects as the restricted role.         *)
(*                                                                         *)
(* A row is a record with the columns the two layers look at: coop (its    *)
(* cooperative), farmer (a delivery's farmer), farmers (those with a       *)
(* delivery in the batch), user (the linked account), id, deleted.  A      *)
(* handler is given the rows T of a table, and is the set it answers with. *)
(***************************************************************************)
EXTENDS Access, Naturals

CONSTANTS Cooperatives, Users, Farmers,
          None   \* no value: null or the empty setting

ASSUME TenancyAssumption ==
  None \notin Cooperatives \cup Users \cup Farmers \cup Role

-----------------------------------------------------------------------------
(* The caller's identity, and how it reaches the database. *)

\* DbContext: what a request's asynchronous scope carries.
Context == [user : Users \cup {None}, role : Role \cup {None},
            coop : Cooperatives \cup {None}, farmer : Farmers \cup {None},
            system : BOOLEAN, inTransaction : BOOLEAN]

\* dbContextScope opens a request's scope empty.
EmptyContext == [user |-> None, role |-> None, coop |-> None, farmer |-> None,
                 system |-> FALSE, inTransaction |-> FALSE]

\* systemContext marks the scope of a router that establishes an identity.
SystemContext(c) == [c EXCEPT !.system = TRUE]

RunAsSystem(c) == [SystemContext(c) EXCEPT !.inTransaction = FALSE]

RunInTransaction(c) == [c EXCEPT !.inTransaction = TRUE]

\* The farmer profile linked to an account, None if there is none.
ProfileOf(u, profiles) ==
  LET own == {f \in profiles : f.user = u /\ ~f.deleted}
  IN  IF own = {} THEN None ELSE (CHOOSE f \in own : TRUE).id

\* authenticate fills the scope from the verified token's claims.
Authenticate(c, token, profiles) ==
  [c EXCEPT !.user = token.sub, !.role = token.role, !.coop = token.coop,
            !.farmer = IF token.role = "FARMER"
                       THEN ProfileOf(token.sub, profiles) ELSE None]

\* contextSql: the settings put on a connection.
ContextSql(c) == [user |-> c.user, role |-> c.role, coop |-> c.coop,
                  farmer |-> c.farmer, system |-> c.system]

\* What a handler sends to the database: a query, or the settings of a scope.
Query == [kind |-> "query"]
SetConfig(c) == [kind |-> "set_config", settings |-> ContextSql(c)]

\* The client's extension, given a statement made in scope c.  own is what an
\* interactive transaction's connection has for settings; the result is what
\* the statement runs under, and what that connection has afterwards.  In a
\* scope marked as inside a transaction the statement goes to it as it is.  In
\* any other it is paired with the settings of c in a transaction of its own, on
\* a connection of its own, and what it sets is discarded at the commit.
AllOperations(c, own, statement) ==
  IF c.inTransaction
  THEN [under |-> own,
        own   |-> IF statement.kind = "query" THEN own ELSE statement.settings]
  ELSE [under |-> ContextSql(c), own |-> own]

\* withTransaction in scope c, as a run: own[n] is what its connection has
\* before the n-th statement, which runs under under[n].  The scope is marked
\* first; the settings of c are the first statement, the callback's follow.
WithTransaction(c, own, under) ==
  \A n \in Nat :
    LET statement == IF n = 0 THEN SetConfig(c) ELSE Query
        answer == AllOperations(RunInTransaction(c), own[n], statement)
    IN  under[n] = answer.under /\ own[n + 1] = answer.own

-----------------------------------------------------------------------------
(* The policies: what a query under settings s sees and may write. *)

Unrestricted(s) == s.system \/ s.role = "SUPER_ADMIN"

\* NOT app_is_farmer(), a definite boolean since the second migration of the
\* policies: true too while no role is set.
NotFarmer(s) == s.role # "FARMER"

\* A setting and a column are compared in SQL: a null equals nothing.
SameCoop(s, row) == s.coop # None /\ row.coop = s.coop

OwnFarmer(s, farmer) == s.farmer # None /\ farmer = s.farmer

\* deliveries_tenant, coffee_batches_tenant and farmers_tenant.
SeesDelivery(s, row) ==
  \/ Unrestricted(s)
  \/ SameCoop(s, row) /\ (NotFarmer(s) \/ OwnFarmer(s, row.farmer))

SeesBatch(s, row) ==
  \/ Unrestricted(s)
  \/ SameCoop(s, row) /\ (NotFarmer(s) \/ \E f \in row.farmers : OwnFarmer(s, f))

SeesFarmer(s, row) ==
  \/ Unrestricted(s)
  \/ SameCoop(s, row) /\ (NotFarmer(s) \/ OwnFarmer(s, row.id))

\* warehouses_tenant and batch_groups_tenant, and what each of the policies on
\* the cooperatives' data asks of a row that is written.
StaffOf(s, row) == Unrestricted(s) \/ (SameCoop(s, row) /\ NotFarmer(s))

\* users_tenant.
SeesUser(s, row) ==
  Unrestricted(s) \/ row.id = s.user \/ (SameCoop(s, row) /\ NotFarmer(s))

\* cooperatives_tenant: read one's own, write none.
SeesCooperative(s, id) == Unrestricted(s) \/ (s.coop # None /\ id = s.coop)

WritesCooperative(s) == Unrestricted(s)

\* The tables reached through a batch (processing records, transfers, stored
\* rows, lot members): what app_can_see_batch shows, and no farmer writes.
WritesThrough(s, batch) == SeesBatch(s, batch) /\ NotFarmer(s)

\* notifications_own.
SeesNotification(s, row) == Unrestricted(s) \/ (s.user # None /\ row.user = s.user)

\* audit_logs_read and audit_logs_append: a trace of anyone's action is taken,
\* one's own is read back.
SeesAudit(s, row) == SeesNotification(s, row)

AppendsAudit(s) == TRUE

\* buyers_read: a counterparty is no tenant's, so any role will do.
SeesBuyer(s) == Unrestricted(s) \/ s.role # None

WritesBuyer(s) == Unrestricted(s) \/ (s.role # None /\ NotFarmer(s))

-----------------------------------------------------------------------------
(* The handlers' own scoping; c is the authenticated caller's scope. *)

\* scopeCooperativeId, as the cooperatives the query then selects from; a
\* caller who belongs to none is refused.
ScopeCooperative(c, requested) ==
  IF c.role = "SUPER_ADMIN"
  THEN IF requested = None THEN Cooperatives ELSE {requested}
  ELSE {k \in Cooperatives : k = c.coop}

AssertOwnership(c, coop) ==
  c.role = "SUPER_ADMIN" \/ (c.coop # None /\ coop = c.coop)

\* farmerScopeId: who the caller's reads are narrowed to.  The profile found
\* at authentication, or one linked since; None refuses the caller.
FarmerScopeId(c, profiles) ==
  IF c.farmer # None THEN c.farmer ELSE ProfileOf(c.user, profiles)

\* A farmer is narrowed to one profile, everyone else to none in particular.
InFarmerScope(c, profiles, farmer) ==
  c.role = "FARMER" => /\ FarmerScopeId(c, profiles) # None
                       /\ farmer = FarmerScopeId(c, profiles)

\* A filter of the query string that was left out lets everything pass.
Asked(filter, value) == filter = None \/ filter = value

\* GET /deliveries: a farmer's own id replaces the one asked for.
ListDeliveries(c, q, profiles, T) ==
  {d \in T : /\ d.coop \in ScopeCooperative(c, q.coop)
             /\ InFarmerScope(c, profiles, d.farmer)
             /\ c.role = "FARMER" \/ Asked(q.farmer, d.farmer)}

\* GET /deliveries/:id
GetDelivery(c, profiles, T) ==
  {d \in T : AssertOwnership(c, d.coop) /\ InFarmerScope(c, profiles, d.farmer)}

\* batchesForFarmer: a delivery of the farmer's went into the batch.
BatchesForFarmer(c, profiles, b) ==
  c.role = "FARMER" => \E f \in b.farmers : InFarmerScope(c, profiles, f)

\* GET /batches
ListBatches(c, requested, profiles, T) ==
  {b \in T : /\ ~b.deleted
             /\ b.coop \in ScopeCooperative(c, requested)
             /\ BatchesForFarmer(c, profiles, b)}

\* assertBatchInScope of the batch routes: GET /batches/:id and its QR code,
\* and the status endpoint's check.
GetBatch(c, profiles, T) ==
  {b \in T : /\ ~b.deleted
             /\ AssertOwnership(c, b.coop)
             /\ BatchesForFarmer(c, profiles, b)}

\* assertBatchInScope of the reports (traceability sheet, its PDF, history,
\* movement), and the same check before a batch's processing records, before
\* its transfers and before deliveries are assigned to it.
BatchInCooperative(c, T) == {b \in T : ~b.deleted /\ AssertOwnership(c, b.coop)}

\* GET /farmers; GET, PATCH, DELETE /farmers/:id and the account routes.
ListFarmers(c, requested, T) ==
  {f \in T : ~f.deleted /\ f.coop \in ScopeCooperative(c, requested)}

FarmerAddressed(c, T) == {f \in T : ~f.deleted /\ AssertOwnership(c, f.coop)}

\* GET /warehouses and /warehouses/inventory (rows joined to their warehouse),
\* and GET /batch-groups.
ListOfCooperative(c, requested, T) ==
  {x \in T : x.coop \in ScopeCooperative(c, requested)}

\* GET /batch-groups/:id, and the check-out route's check.
AddressedInCooperative(c, T) == {x \in T : AssertOwnership(c, x.coop)}

\* GET /reports/cooperative/:cooperativeId/...: admitted as a whole.
ReportOn(c, coop) == AssertOwnership(c, coop)

\* The farmer statement's rows: a farmer's own id replaces the one asked for.
StatementRows(c, coop, asked, profiles, T) ==
  {d \in T : /\ ReportOn(c, coop)
             /\ d.coop = coop
             /\ InFarmerScope(c, profiles, d.farmer)
             /\ c.role = "FARMER" \/ Asked(asked, d.farmer)}

\* GET /users, and assertUserInScope before a change of an account: there a
\* null cooperative on either side is a mismatch.
ListUsers(c, requested, T) ==
  {u \in T : /\ ~u.deleted
             /\ \/ c.role = "SUPER_ADMIN" /\ Asked(requested, u.coop)
                \/ c.coop # None /\ c.role # "SUPER_ADMIN" /\ u.coop = c.coop}

UserManaged(c, T) ==
  {u \in T : ~u.deleted /\ (c.role = "SUPER_ADMIN" \/ (u.coop # None /\ u.coop = c.coop))}

\* GET /users/me
GetMe(c, T) == {u \in T : u.id = c.user}

\* GET /cooperatives, and GET /cooperatives/:id.
ListCooperatives(c) ==
  IF c.role = "SUPER_ADMIN" THEN Cooperatives ELSE {k \in Cooperatives : k = c.coop}

GetCooperative(c) == {k \in Cooperatives : AssertOwnership(c, k)}

\* PATCH /cooperatives/:id, and DELETE, which deactivates.
UpdateCooperative(c) ==
  {k \in Cooperatives : Authorize(c.role, ADMIN_ROLES) /\ AssertOwnership(c, k)}

DeactivateCooperative(c) ==
  {k \in Cooperatives : Authorize(c.role, {"SUPER_ADMIN"})}

\* GET /buyers: a buyer sees its own record.
ListBuyers(c, T) == {y \in T : c.role = "BUYER" => y.user = c.user}

\* POST /batches, /deliveries, /farmers, /warehouses: the row is created in a
\* cooperative the caller owns.
CreateIn(c) == {k \in Cooperatives : AssertOwnership(c, k)}
=============================================================================
