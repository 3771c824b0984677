--------------------------- MODULE Tenancy_proof ----------------------------
(***************************************************************************)
(* What the permission matrix, the guards and the registration rules of    *)
(* Access give, whatever is stored and whoever asks; and what each layer   *)
(* of Tenancy keeps by itself, and where the two agree.                    *)
(***************************************************************************)
EXTENDS Tenancy, Sums

-----------------------------------------------------------------------------
(* The roles that only read. *)

Readers == {"AUDITOR", "FARMER", "BUYER"}

\* The seed gives these roles view permissions and no others.
LEMMA ReadersOnlyView ==
  ASSUME NEW r \in Readers
  PROVE  DEFAULT_ROLE_PERMISSIONS[r] \subseteq VIEW_ONLY
<1>1. r \in Role
  BY DEF Readers, Role
<1>2. CASE r = "AUDITOR"
  <2>1. DEFAULT_ROLE_PERMISSIONS[r] = VIEW_ONLY \cup {<<"settings", "view">>}
    BY <1>1, <1>2 DEF DEFAULT_ROLE_PERMISSIONS
  <2>2. <<"settings", "view">> \in VIEW_ONLY
    BY DEF VIEW_ONLY, PERMISSIONS, View
  <2> QED BY <2>1, <2>2
<1>3. CASE r = "FARMER"
  <2>1. DEFAULT_ROLE_PERMISSIONS[r]
          = View({"dashboard", "deliveries", "batches", "settings"})
    BY <1>1, <1>3 DEF DEFAULT_ROLE_PERMISSIONS
  <2> QED BY <2>1 DEF VIEW_ONLY, PERMISSIONS, View
<1>4. CASE r = "BUYER"
  <2>1. DEFAULT_ROLE_PERMISSIONS[r]
          = View({"dashboard", "batches", "blockchain", "settings"})
    BY <1>1, <1>4 DEF DEFAULT_ROLE_PERMISSIONS
  <2> QED BY <2>1 DEF VIEW_ONLY, PERMISSIONS, View
<1> QED BY <1>2, <1>3, <1>4 DEF Readers

\* Every route that changes state asks for a permission that is not a view.
LEMMA WritesAskMoreThanView ==
  ASSUME NEW t \in GuardedRoutes, t.writes
  PROVE  \A p \in t.needs : p[2] # "view"
<1>1. CASE t \in BatchRoutes
  BY <1>1 DEF BatchRoutes, Reads, Writes
<1>2. CASE t \in DeliveryRoutes
  BY <1>2 DEF DeliveryRoutes, Reads, Writes
<1>3. CASE t \in FarmerRoutes
  BY <1>3 DEF FarmerRoutes, Reads, Writes
<1>4. CASE t \in ProcessingRoutes
  BY <1>4 DEF ProcessingRoutes, Reads, Writes
<1>5. CASE t \in WarehouseRoutes
  BY <1>5 DEF WarehouseRoutes, Reads, Writes
<1>6. CASE t \in LotRoutes
  BY <1>6 DEF LotRoutes, Reads, Writes
<1>7. CASE t \in ReportRoutes
  BY <1>7 DEF ReportRoutes, Reads
<1>8. CASE t \in UserRoutes
  BY <1>8 DEF UserRoutes, Reads, Writes
<1>9. CASE t \in PermissionRoutes
  BY <1>9 DEF PermissionRoutes, Reads, Writes
<1>10. CASE t \in SystemRoutes \cup AnnouncementRoutes
  BY <1>10 DEF SystemRoutes, AnnouncementRoutes, Writes
<1>11. CASE t \in {Reads("listTransfers", {<<"batches", "view">>})}
  BY <1>11 DEF Reads
<1> QED
  BY <1>1, <1>2, <1>3, <1>4, <1>5, <1>6, <1>7, <1>8, <1>9, <1>10, <1>11
  DEF GuardedRoutes

\* As seeded, an auditor, a farmer or a buyer reaches no handler that changes
\* the cooperative's data: neither one guarded by a permission (coffeeBatch,
\* delivery, farmer, processing, warehouse, lot, user, permission, system and
\* announcement routes) nor one guarded by a list of roles.
THEOREM ReadersChangeNothing ==
  ASSUME NEW r \in Readers
  PROVE  /\ \A t \in GuardedRoutes :
              t.writes => ~RequirePermission(DEFAULT_ROLE_PERMISSIONS, r, t.needs)
         /\ \A t \in RoleRoutes : t.writes => ~Authorize(r, t.needs)
<1>1. ASSUME NEW t \in GuardedRoutes, t.writes,
             RequirePermission(DEFAULT_ROLE_PERMISSIONS, r, t.needs)
      PROVE  FALSE
  <2>1. PICK p \in t.needs : RoleHasPermission(DEFAULT_ROLE_PERMISSIONS, r, p)
    BY <1>1 DEF RequirePermission
  <2>2. p \in VIEW_ONLY
    BY <2>1, ReadersOnlyView DEF RoleHasPermission, Readers
  <2>3. p[2] # "view"
    BY <1>1, <2>1, WritesAskMoreThanView
  <2> QED BY <2>2, <2>3 DEF VIEW_ONLY
<1>2. ASSUME NEW t \in RoleRoutes, t.writes
      PROVE  ~Authorize(r, t.needs)
  <2>1. t.needs \subseteq STAFF_ROLES
    <3>1. CASE t \in TransferRoutes
      BY <3>1 DEF TransferRoutes, Writes
    <3>2. CASE t \in BuyerRoutes
      BY <1>2, <3>2 DEF BuyerRoutes, Reads, Writes, STAFF_ROLES, ADMIN_ROLES
    <3>3. CASE t \in CooperativeRoutes
      BY <3>3 DEF CooperativeRoutes, Writes, STAFF_ROLES, ADMIN_ROLES
    <3> QED BY <3>1, <3>2, <3>3 DEF RoleRoutes
  <2> QED BY <2>1 DEF Authorize, Readers, STAFF_ROLES
<1> QED BY <1>1, <1>2

-----------------------------------------------------------------------------
(* The platform's owner, and the matrix it edits. *)

\* A guard that lists one permission, or two, asks for something.
LEMMA GuardsAsk ==
  /\ \A op, p : Reads(op, {p}).needs # {} /\ Writes(op, {p}).needs # {}
  /\ \A op, p, q : Reads(op, {p, q}).needs # {}
<1>1. \A p, q : {p} # {} /\ {p, q} # {}
  OBVIOUS
<1>2. \A op, needs : Reads(op, needs).needs = needs /\ Writes(op, needs).needs = needs
  BY DEF Reads, Writes
<1> QED BY <1>1, <1>2

\* Whatever the matrix has come to hold, the platform's owner passes every
\* guard: no edit locks it out of the edit that would undo it.
THEOREM OwnerNeverLockedOut ==
  ASSUME NEW matrix
  PROVE  /\ \A t \in GuardedRoutes :
              RequirePermission(matrix, "SUPER_ADMIN", t.needs)
         /\ \A t \in RoleRoutes : Authorize("SUPER_ADMIN", t.needs)
<1>1. ASSUME NEW t \in GuardedRoutes
      PROVE  t.needs # {}
  <2>1. CASE t \in BatchRoutes
    BY <2>1, GuardsAsk DEF BatchRoutes
  <2>2. CASE t \in DeliveryRoutes
    BY <2>2, GuardsAsk DEF DeliveryRoutes
  <2>3. CASE t \in FarmerRoutes
    BY <2>3, GuardsAsk DEF FarmerRoutes
  <2>4. CASE t \in ProcessingRoutes
    BY <2>4, GuardsAsk DEF ProcessingRoutes
  <2>5. CASE t \in WarehouseRoutes
    BY <2>5, GuardsAsk DEF WarehouseRoutes
  <2>6. CASE t \in LotRoutes
    BY <2>6, GuardsAsk DEF LotRoutes
  <2>7. CASE t \in ReportRoutes
    BY <2>7, GuardsAsk DEF ReportRoutes
  <2>8. CASE t \in UserRoutes
    BY <2>8, GuardsAsk DEF UserRoutes
  <2>9. CASE t \in PermissionRoutes
    BY <2>9, GuardsAsk DEF PermissionRoutes
  <2>10. CASE t \in SystemRoutes \cup AnnouncementRoutes
    BY <2>10, GuardsAsk DEF SystemRoutes, AnnouncementRoutes
  <2>11. CASE t \in {Reads("listTransfers", {<<"batches", "view">>})}
    BY <2>11, GuardsAsk
  <2> QED
    BY <2>1, <2>2, <2>3, <2>4, <2>5, <2>6, <2>7, <2>8, <2>9, <2>10, <2>11
    DEF GuardedRoutes
<1>2. ASSUME NEW t \in RoleRoutes
      PROVE  "SUPER_ADMIN" \in t.needs
  BY DEF RoleRoutes, TransferRoutes, BuyerRoutes, CooperativeRoutes, Reads,
         Writes, STAFF_ROLES, ADMIN_ROLES
<1> QED
  BY <1>1, <1>2 DEF RequirePermission, RoleHasPermission, Authorize

\* An edit of one role's permissions leaves every other role's as they were,
\* and gives the role exactly the keys of the catalogue it was sent.
THEOREM EditTouchesOneRole ==
  ASSUME NEW rows, NEW role \in Role, NEW keys
  PROVE  LoadMatrix(SetRolePermissions(rows, role, keys))
           = [LoadMatrix(rows) EXCEPT ![role] = keys \cap PERMISSIONS]
<1> DEFINE new == SetRolePermissions(rows, role, keys)
<1>1. ASSUME NEW r \in Role, NEW p \in PERMISSIONS
      PROVE  <<r, p>> \in new
               <=> IF r = role THEN p \in keys ELSE <<r, p>> \in rows
  BY DEF SetRolePermissions
<1>2. ASSUME NEW r \in Role
      PROVE  {p \in PERMISSIONS : <<r, p>> \in new}
               = IF r = role THEN keys \cap PERMISSIONS
                 ELSE {p \in PERMISSIONS : <<r, p>> \in rows}
  BY <1>1
<1> HIDE DEF new
<1>3. LoadMatrix(new)
        = [r \in Role |-> IF r = role THEN keys \cap PERMISSIONS
                          ELSE {p \in PERMISSIONS : <<r, p>> \in rows}]
  BY <1>2, Zenon DEF LoadMatrix
<1>4. [LoadMatrix(rows) EXCEPT ![role] = keys \cap PERMISSIONS]
        = [r \in Role |-> IF r = role THEN keys \cap PERMISSIONS
                          ELSE {p \in PERMISSIONS : <<r, p>> \in rows}]
  BY Zenon DEF LoadMatrix
<1> QED BY <1>3, <1>4 DEF new

\* What is stored for a matrix is read back as that matrix: grouping the rows
\* by role loses nothing, for the roles that hold nothing too.
THEOREM MatrixSurvivesStorage ==
  ASSUME NEW matrix \in [Role -> SUBSET PERMISSIONS]
  PROVE  LoadMatrix(RowsOf(matrix)) = matrix
<1>1. ASSUME NEW r \in Role, NEW p \in PERMISSIONS
      PROVE  <<r, p>> \in RowsOf(matrix) <=> p \in matrix[r]
  BY DEF RowsOf
<1>2. ASSUME NEW r \in Role
      PROVE  {p \in PERMISSIONS : <<r, p>> \in RowsOf(matrix)} = matrix[r]
  BY <1>1
<1> QED BY <1>2 DEF LoadMatrix

\* As seeded, only the platform's owner may edit the matrix, and only it and
\* the cooperatives' administrators may read the sales ledger.
THEOREM SeededReach ==
  ASSUME NEW r \in Role
  PROVE  /\ RequirePermission(DEFAULT_ROLE_PERMISSIONS, r, {<<"roles", "manage">>})
              => r = "SUPER_ADMIN"
         /\ RequirePermission(DEFAULT_ROLE_PERMISSIONS, r, {<<"reports", "financial">>})
              => r \in ADMIN_ROLES
<1>1. <<"roles", "manage">> \notin VIEW_ONLY /\ <<"reports", "financial">> \notin VIEW_ONLY
  BY DEF VIEW_ONLY
<1>2. CASE r \in Readers
  BY <1>1, <1>2, ReadersOnlyView
  DEF RequirePermission, RoleHasPermission, ADMIN_ROLES, Readers
<1>3. CASE r = "COOPERATIVE_STAFF"
  <2>1. /\ <<"roles", "manage">> \notin DEFAULT_ROLE_PERMISSIONS[r]
        /\ <<"reports", "financial">> \notin DEFAULT_ROLE_PERMISSIONS[r]
    BY <1>3 DEF DEFAULT_ROLE_PERMISSIONS
  <2> QED BY <1>3, <2>1 DEF RequirePermission, RoleHasPermission
<1>4. CASE r = "COOPERATIVE_ADMIN"
  <2>1. <<"roles", "manage">> \notin DEFAULT_ROLE_PERMISSIONS[r]
    BY <1>4 DEF DEFAULT_ROLE_PERMISSIONS
  <2> QED BY <1>4, <2>1 DEF RequirePermission, RoleHasPermission, ADMIN_ROLES
<1>5. CASE r = "SUPER_ADMIN"
  BY <1>5 DEF ADMIN_ROLES
<1> QED BY <1>2, <1>3, <1>4, <1>5 DEF Role, Readers

-----------------------------------------------------------------------------
\* Registration never hands out the platform's own role, and an actor who is
\* not its owner hands out no role of an administrator or an auditor and puts
\* the account in the actor's own cooperative, whatever the request asked for.
THEOREM GrantsDownward ==
  ASSUME NEW actor, NEW role, NEW asked, NEW none,
         RegisterAdmits(actor, role, asked, none)
  PROVE  /\ role # "SUPER_ADMIN"
         /\ actor.role # "SUPER_ADMIN" =>
              /\ role \notin ADMIN_ROLES \cup {"AUDITOR"}
              /\ CooperativeGiven(actor, asked) = actor.coop
<1>1. role # "SUPER_ADMIN"
  BY DEF RegisterAdmits, Registrable
<1>2. ASSUME actor.role # "SUPER_ADMIN"
      PROVE  role \in {"COOPERATIVE_STAFF", "FARMER", "BUYER"}
  BY <1>2 DEF RegisterAdmits, GRANTABLE_ROLES
<1>3. ASSUME actor.role # "SUPER_ADMIN"
      PROVE  CooperativeGiven(actor, asked) = actor.coop
  BY <1>3 DEF CooperativeGiven
<1> QED BY <1>1, <1>2, <1>3 DEF ADMIN_ROLES

-----------------------------------------------------------------------------
(* Callers. *)

Token == [sub : Users, role : Role, coop : Cooperatives \cup {None}]

Profile == [id : Farmers, user : Users \cup {None}, deleted : BOOLEAN,
            coop : Cooperatives]

\* The scope of a request once authenticate has run.
Caller(token, profiles) == Authenticate(EmptyContext, token, profiles)

-----------------------------------------------------------------------------
(* The identity a query carries. *)

\* The same identity, with the policies stepped around.
AsSystem(s) == [user |-> s.user, role |-> s.role, coop |-> s.coop,
                farmer |-> s.farmer, system |-> TRUE]

\* A marked scope, and a system region opened in a scope.
LEMMA Scopes ==
  ASSUME NEW c \in Context
  PROVE  /\ RunInTransaction(c) \in Context /\ RunInTransaction(c).inTransaction
         /\ ContextSql(RunInTransaction(c)) = ContextSql(c)
         /\ ~RunAsSystem(c).inTransaction
         /\ ContextSql(RunAsSystem(c)) = AsSystem(ContextSql(c))
<1> DEFINE d == RunInTransaction(c)
           e == RunAsSystem(c)
<1>1. /\ d \in Context
      /\ d.user = c.user /\ d.role = c.role /\ d.coop = c.coop
      /\ d.farmer = c.farmer /\ d.system = c.system /\ d.inTransaction = TRUE
  BY DEF RunInTransaction, Context
<1>2. /\ e.user = c.user /\ e.role = c.role /\ e.coop = c.coop
      /\ e.farmer = c.farmer /\ e.system = TRUE /\ e.inTransaction = FALSE
  BY DEF RunAsSystem, SystemContext, Context
<1> HIDE DEF d, e
<1>3. d.inTransaction /\ ContextSql(d) = ContextSql(c)
  BY <1>1 DEF ContextSql
<1>4. ~e.inTransaction /\ ContextSql(e) = AsSystem(ContextSql(c))
  BY <1>2 DEF ContextSql, AsSystem
<1> QED BY <1>1, <1>3, <1>4 DEF d, e

\* Whatever settings the pool's connection comes with, every statement of a
\* transaction's callback runs under the identity of the request that opened
\* it, however many came before (withTransaction marks the scope, then puts the
\* settings on the transaction's own connection).
THEOREM TransactionsRunAsTheirCaller ==
  ASSUME NEW c \in Context, NEW own, NEW under, WithTransaction(c, own, under)
  PROVE  \A n \in Nat \ {0} : under[n] = ContextSql(c)
<1> DEFINE d == RunInTransaction(c)
           Bad == {n \in Nat : own[n + 1] # ContextSql(c)}
<1>1. /\ d.inTransaction
      /\ \A n \in Nat : /\ under[n] = own[n]
                        /\ n = 0 => own[n + 1] = ContextSql(c)
                        /\ n # 0 => own[n + 1] = own[n]
  <2>1. d.inTransaction
    BY Scopes
  <2>2. SetConfig(c).kind = "set_config" /\ SetConfig(c).settings = ContextSql(c)
    BY DEF SetConfig
  <2>3. Query.kind = "query"
    BY DEF Query
  <2>4. \A x, st : /\ AllOperations(d, x, st).under = x
                   /\ AllOperations(d, x, st).own
                        = IF st.kind = "query" THEN x ELSE st.settings
    BY <2>1 DEF AllOperations
  <2>5. AllOperations(d, own[0], SetConfig(c)).own = ContextSql(c)
    BY <2>2, <2>4
  <2>6. \A x : AllOperations(d, x, Query).own = x
    BY <2>3, <2>4
  <2> HIDE DEF d
  <2>7. \A n \in Nat :
          LET st == IF n = 0 THEN SetConfig(c) ELSE Query
          IN  under[n] = AllOperations(d, own[n], st).under
              /\ own[n + 1] = AllOperations(d, own[n], st).own
    BY DEF WithTransaction, d
  <2> QED BY <2>1, <2>4, <2>5, <2>6, <2>7
<1>2. Bad = {}
  <2> SUFFICES ASSUME Bad # {} PROVE FALSE
    OBVIOUS
  <2>1. PICK m \in Bad : \A n \in Bad : m <= n
    BY LeastNat
  <2>2. m \in Nat /\ m # 0 /\ own[m + 1] # ContextSql(c)
    BY <1>1, <2>1
  <2>3. m - 1 \in Nat /\ m - 1 \notin Bad /\ (m - 1) + 1 = m
    BY <2>1, <2>2
  <2>4. own[m] = ContextSql(c)
    BY <2>3
  <2> QED BY <1>1, <2>2, <2>4
<1> SUFFICES ASSUME NEW n \in Nat \ {0} PROVE under[n] = ContextSql(c)
  OBVIOUS
<1>3. n - 1 \in Nat /\ (n - 1) + 1 = n
  OBVIOUS
<1>4. own[n] = ContextSql(c)
  BY <1>2, <1>3
<1> QED BY <1>1, <1>4

\* The other ways to reach the database, and why the mark comes first.  A
\* statement outside a transaction, and one of a region run as the system inside
\* a transaction, carries its own settings to its own connection and leaves the
\* transaction's alone.  Were the settings made before the mark, they would go
\* the same way: the callback would run under whatever its connection came with.
THEOREM MarkBeforeSettings ==
  ASSUME NEW c \in Context, NEW own, NEW statement
  PROVE  /\ ~c.inTransaction =>
              AllOperations(c, own, statement) = [under |-> ContextSql(c), own |-> own]
         /\ AllOperations(RunAsSystem(RunInTransaction(c)), own, statement)
              = [under |-> AsSystem(ContextSql(c)), own |-> own]
         /\ ~c.inTransaction =>
              AllOperations(RunInTransaction(c),
                            AllOperations(c, own, SetConfig(c)).own, Query).under = own
<1>1. ASSUME ~c.inTransaction, NEW st
      PROVE  AllOperations(c, own, st) = [under |-> ContextSql(c), own |-> own]
  BY <1>1 DEF AllOperations
<1>2. /\ ~RunAsSystem(RunInTransaction(c)).inTransaction
      /\ ContextSql(RunAsSystem(RunInTransaction(c))) = AsSystem(ContextSql(c))
  BY Scopes
<1>3. AllOperations(RunAsSystem(RunInTransaction(c)), own, statement)
        = [under |-> AsSystem(ContextSql(c)), own |-> own]
  BY <1>2 DEF AllOperations
<1>4. AllOperations(RunInTransaction(c), own, Query).under = own
  BY Scopes DEF AllOperations
<1> QED BY <1>1, <1>3, <1>4

\* What authenticate leaves in the scope, field by field.
LEMMA CallerFields ==
  ASSUME NEW token \in Token, NEW profiles \in SUBSET Profile
  PROVE  LET c == Caller(token, profiles)
         IN  /\ c \in Context
             /\ c.user = token.sub /\ c.role = token.role /\ c.coop = token.coop
             /\ c.role = "FARMER" => c.farmer = ProfileOf(token.sub, profiles)
             /\ c.role # "FARMER" => c.farmer = None
             /\ ~c.system /\ ~c.inTransaction
<1> DEFINE found == ProfileOf(token.sub, profiles)
<1>1. found \in Farmers \cup {None}
  <2> DEFINE own == {f \in profiles : f.user = token.sub /\ ~f.deleted}
  <2>1. CASE own = {}
    BY <2>1 DEF ProfileOf
  <2>2. CASE own # {}
    <3>1. (CHOOSE f \in own : TRUE) \in own
      BY <2>2
    <3>2. (CHOOSE f \in own : TRUE) \in Profile
      BY <3>1
    <3>3. (CHOOSE f \in own : TRUE).id \in Farmers
      BY <3>2 DEF Profile
    <3> QED BY <2>2, <3>3 DEF ProfileOf
  <2> QED BY <2>1, <2>2
<1> HIDE DEF found
<1> DEFINE farmer == IF token.role = "FARMER" THEN found ELSE None
<1>2. farmer \in Farmers \cup {None}
  BY <1>1
<1>3. Caller(token, profiles)
        = [EmptyContext EXCEPT !.user = token.sub, !.role = token.role,
                               !.coop = token.coop, !.farmer = farmer]
  BY DEF Caller, Authenticate, found
<1>4. /\ farmer = IF token.role = "FARMER" THEN ProfileOf(token.sub, profiles)
                 ELSE None
      /\ token.sub \in Users /\ token.role \in Role
      /\ token.coop \in Cooperatives \cup {None}
  BY DEF found, Token
<1> HIDE DEF farmer
<1>5. Caller(token, profiles)
        = [user |-> token.sub, role |-> token.role, coop |-> token.coop,
           farmer |-> farmer, system |-> FALSE, inTransaction |-> FALSE]
  BY <1>3 DEF EmptyContext
<1> QED BY <1>2, <1>4, <1>5 DEF Context

\* A farmer's profile, found at authentication or looked up again, is one.
LEMMA OneProfile ==
  ASSUME NEW token \in Token, NEW profiles \in SUBSET Profile,
         token.role = "FARMER"
  PROVE  FarmerScopeId(Caller(token, profiles), profiles)
           = Caller(token, profiles).farmer
BY CallerFields DEF FarmerScopeId

\* The settings of an authenticated request.
LEMMA CallerSettings ==
  ASSUME NEW token \in Token, NEW profiles \in SUBSET Profile
  PROVE  LET c == Caller(token, profiles)
             s == ContextSql(c)
         IN  /\ s.user = c.user /\ s.role = c.role /\ s.coop = c.coop
             /\ s.farmer = c.farmer /\ ~s.system
             /\ Unrestricted(s) <=> c.role = "SUPER_ADMIN"
             /\ NotFarmer(s) <=> c.role # "FARMER"
<1> DEFINE c == Caller(token, profiles)
<1>1. c.role = token.role /\ c.role \in Role /\ ~c.system
  BY CallerFields DEF Token
<1> HIDE DEF c
<1> QED BY <1>1 DEF ContextSql, Unrestricted, NotFarmer, c

-----------------------------------------------------------------------------
(* The handlers by themselves. *)

\* A caller who is not the platform's owner is answered with rows of its own
\* cooperative only, and a farmer with its own deliveries and the batches they
\* went into, whatever filters the request carries and even where no policy
\* applies: the scoping of the delivery, batch, farmer, warehouse, lot,
\* statement and user handlers.
THEOREM HandlersIsolate ==
  ASSUME NEW token \in Token, token.role # "SUPER_ADMIN",
         NEW profiles \in SUBSET Profile, NEW T, NEW q, NEW asked, NEW coop
  PROVE  LET c == Caller(token, profiles)
         IN  /\ \A d \in ListDeliveries(c, q, profiles, T)
                  \cup GetDelivery(c, profiles, T)
                  \cup StatementRows(c, coop, asked, profiles, T) :
                  /\ d.coop = c.coop
                  /\ c.role = "FARMER" => c.farmer # None /\ d.farmer = c.farmer
             /\ \A b \in ListBatches(c, asked, profiles, T)
                  \cup GetBatch(c, profiles, T) :
                  /\ b.coop = c.coop
                  /\ c.role = "FARMER" => c.farmer # None /\ c.farmer \in b.farmers
             /\ \A x \in BatchInCooperative(c, T) \cup ListFarmers(c, asked, T)
                  \cup FarmerAddressed(c, T) \cup ListOfCooperative(c, asked, T)
                  \cup AddressedInCooperative(c, T) \cup ListUsers(c, asked, T)
                  \cup UserManaged(c, T) :
                  x.coop = c.coop
<1> DEFINE c == Caller(token, profiles)
<1>1. c.role = token.role
  BY CallerFields
<1>2. c.role # "SUPER_ADMIN"
  BY <1>1
<1>3. c.role = "FARMER" => FarmerScopeId(c, profiles) = c.farmer
  BY <1>1, OneProfile
<1> HIDE DEF c
<1>4. \A x : AssertOwnership(c, x) => x = c.coop
  BY <1>2 DEF AssertOwnership
<1>5. \A r, x : x \in ScopeCooperative(c, r) => x = c.coop
  BY <1>2 DEF ScopeCooperative
<1>6. \A f : InFarmerScope(c, profiles, f) /\ c.role = "FARMER"
               => c.farmer # None /\ f = c.farmer
  BY <1>3 DEF InFarmerScope
<1>7. ASSUME NEW d \in ListDeliveries(c, q, profiles, T)
               \cup GetDelivery(c, profiles, T)
               \cup StatementRows(c, coop, asked, profiles, T)
      PROVE  /\ d.coop = c.coop
             /\ c.role = "FARMER" => c.farmer # None /\ d.farmer = c.farmer
  BY <1>4, <1>5, <1>6 DEF ListDeliveries, GetDelivery, StatementRows,
     ReportOn
<1>8. ASSUME NEW b \in ListBatches(c, asked, profiles, T)
               \cup GetBatch(c, profiles, T)
      PROVE  /\ b.coop = c.coop
             /\ c.role = "FARMER" => c.farmer # None /\ c.farmer \in b.farmers
  BY <1>4, <1>5, <1>6 DEF ListBatches, GetBatch, BatchesForFarmer
<1>9. ASSUME NEW x \in BatchInCooperative(c, T) \cup ListFarmers(c, asked, T)
               \cup FarmerAddressed(c, T) \cup ListOfCooperative(c, asked, T)
               \cup AddressedInCooperative(c, T) \cup ListUsers(c, asked, T)
               \cup UserManaged(c, T)
      PROVE  x.coop = c.coop
  BY <1>2, <1>4, <1>5 DEF BatchInCooperative, ListFarmers, FarmerAddressed,
     ListOfCooperative, AddressedInCooperative, ListUsers, UserManaged
<1> QED BY <1>7, <1>8, <1>9 DEF c

-----------------------------------------------------------------------------
(* The policies by themselves. *)

\* Under the settings of a caller who is not the platform's owner, the policies
\* show rows of its own cooperative only (and its own account), and show a
\* farmer nothing but its own profile, its deliveries and the batches they went
\* into: a handler that forgot to scope a query would still not leak.
THEOREM PoliciesIsolate ==
  ASSUME NEW token \in Token, token.role # "SUPER_ADMIN",
         NEW profiles \in SUBSET Profile, NEW row
  PROVE  LET c == Caller(token, profiles)
             s == ContextSql(c)
         IN  /\ SeesDelivery(s, row) \/ SeesBatch(s, row) \/ SeesFarmer(s, row)
                  \/ StaffOf(s, row) => row.coop = c.coop
             /\ SeesUser(s, row) => row.id = c.user \/ row.coop = c.coop
             /\ c.role = "FARMER" =>
                  /\ SeesDelivery(s, row) => row.farmer = c.farmer
                  /\ SeesBatch(s, row) => c.farmer \in row.farmers
                  /\ SeesFarmer(s, row) => row.id = c.farmer
                  /\ SeesUser(s, row) => row.id = c.user
                  /\ ~StaffOf(s, row) /\ ~WritesThrough(s, row)
BY CallerFields, CallerSettings
   DEF SeesDelivery, SeesBatch, SeesFarmer, StaffOf, SeesUser, WritesThrough,
       SameCoop, OwnFarmer

\* A statement that no identity came with is shown no cooperative's row and may
\* write none: one of a request that never authenticated, or one that a handler
\* made in a marked scope but sent past its transaction, to a connection of the
\* pool with its settings discarded.  It is the comparison with the caller's
\* cooperative that keeps it out: NOT app_is_farmer() holds of it.  All that is
\* left to it is to append to the audit trail.
THEOREM NoIdentityNoRows ==
  ASSUME NEW c \in Context, NEW left,
         NEW s \in {AllOperations(EmptyContext, left, Query).under,
                    AllOperations(RunInTransaction(c), ContextSql(EmptyContext),
                                  Query).under},
         NEW row, row.id # None, NEW k \in Cooperatives
  PROVE  /\ NotFarmer(s)
         /\ ~SeesDelivery(s, row) /\ ~SeesBatch(s, row) /\ ~SeesFarmer(s, row)
         /\ ~StaffOf(s, row) /\ ~WritesThrough(s, row) /\ ~SeesUser(s, row)
         /\ ~SeesCooperative(s, k) /\ ~WritesCooperative(s)
         /\ ~SeesBuyer(s) /\ ~WritesBuyer(s)
         /\ ~SeesNotification(s, row) /\ ~SeesAudit(s, row) /\ AppendsAudit(s)
<1>1. s = ContextSql(EmptyContext)
  <2>1. AllOperations(EmptyContext, left, Query).under = ContextSql(EmptyContext)
    BY DEF AllOperations, EmptyContext
  <2>2. AllOperations(RunInTransaction(c), ContextSql(EmptyContext), Query).under
          = ContextSql(EmptyContext)
    BY Scopes DEF AllOperations
  <2> QED BY <2>1, <2>2
<1>2. s.user = None /\ s.role = None /\ s.coop = None /\ s.farmer = None /\ ~s.system
  BY <1>1 DEF ContextSql, EmptyContext
<1>3. None # "SUPER_ADMIN" /\ None # "FARMER"
  BY TenancyAssumption DEF Role
<1>4. NotFarmer(s)
  BY <1>2, <1>3 DEF NotFarmer
<1>5. ~Unrestricted(s)
  BY <1>2, <1>3 DEF Unrestricted
<1>6. \A x : ~SameCoop(s, x)
  BY <1>2 DEF SameCoop
<1>7. ~SeesNotification(s, row)
  BY <1>2, <1>5 DEF SeesNotification
<1>8. ~SeesBatch(s, row)
  BY <1>5, <1>6 DEF SeesBatch
<1> QED
  BY <1>2, <1>4, <1>5, <1>6, <1>7, <1>8
  DEF SeesDelivery, SeesFarmer, StaffOf, SeesUser, WritesThrough, SeesCooperative,
      WritesCooperative, SeesBuyer, WritesBuyer, SeesAudit, AppendsAudit

-----------------------------------------------------------------------------
(* The two together. *)

\* Turning the policies on takes no row from an answer: what a handler answers
\* with when it sees every row, the policies show its caller.  For staff,
\* auditors and the platform's owner this is so of every read; for a farmer of
\* the reads that narrow to its own rows.
THEOREM PoliciesKeepAnswers ==
  ASSUME NEW token \in Token, NEW profiles \in SUBSET Profile,
         NEW T, NEW q, NEW asked, NEW coop
  PROVE  LET c == Caller(token, profiles)
             s == ContextSql(c)
         IN  /\ \A d \in ListDeliveries(c, q, profiles, T)
                  \cup GetDelivery(c, profiles, T)
                  \cup StatementRows(c, coop, asked, profiles, T) :
                  d.coop # None => SeesDelivery(s, d)
             /\ \A b \in ListBatches(c, asked, profiles, T)
                  \cup GetBatch(c, profiles, T) :
                  b.coop # None => SeesBatch(s, b)
             /\ \A u \in GetMe(c, T) : SeesUser(s, u)
             /\ c.role # "FARMER" =>
                  /\ \A f \in ListFarmers(c, asked, T) \cup FarmerAddressed(c, T) :
                       f.coop # None => SeesFarmer(s, f)
                  /\ \A b \in BatchInCooperative(c, T) :
                       b.coop # None => SeesBatch(s, b)
                  /\ \A x \in ListOfCooperative(c, asked, T)
                       \cup AddressedInCooperative(c, T) :
                       x.coop # None => StaffOf(s, x)
                  /\ \A u \in ListUsers(c, asked, T) : SeesUser(s, u)
<1> DEFINE c == Caller(token, profiles)
           s == ContextSql(c)
<1>1. /\ s.user = c.user /\ s.role = c.role /\ s.coop = c.coop
      /\ s.farmer = c.farmer
      /\ Unrestricted(s) <=> c.role = "SUPER_ADMIN"
      /\ NotFarmer(s) <=> c.role # "FARMER"
  BY CallerSettings
<1>2. c.role = "FARMER" => FarmerScopeId(c, profiles) = c.farmer
  BY CallerFields, OneProfile
<1> HIDE DEF c, s
<1>3. \A x : AssertOwnership(c, x) => c.role = "SUPER_ADMIN" \/ (x = c.coop /\ c.coop # None)
  BY DEF AssertOwnership
<1>4. \A r, x : x \in ScopeCooperative(c, r) => c.role = "SUPER_ADMIN" \/ x = c.coop
  BY DEF ScopeCooperative
<1>5. \A f : InFarmerScope(c, profiles, f) => c.role # "FARMER" \/ OwnFarmer(s, f)
  BY <1>1, <1>2 DEF InFarmerScope, OwnFarmer
<1>6. \A x : x.coop # None /\ (c.role = "SUPER_ADMIN" \/ x.coop = c.coop)
               => Unrestricted(s) \/ SameCoop(s, x)
  BY <1>1 DEF SameCoop
<1>7. ASSUME NEW d \in ListDeliveries(c, q, profiles, T)
               \cup GetDelivery(c, profiles, T)
               \cup StatementRows(c, coop, asked, profiles, T),
             d.coop # None
      PROVE  SeesDelivery(s, d)
  BY <1>1, <1>3, <1>4, <1>5, <1>6, <1>7
  DEF ListDeliveries, GetDelivery, StatementRows, ReportOn, SeesDelivery
<1>8. ASSUME NEW b \in ListBatches(c, asked, profiles, T)
               \cup GetBatch(c, profiles, T),
             b.coop # None
      PROVE  SeesBatch(s, b)
  BY <1>1, <1>3, <1>4, <1>5, <1>6, <1>8
  DEF ListBatches, GetBatch, BatchesForFarmer, SeesBatch
<1>9. \A u \in GetMe(c, T) : SeesUser(s, u)
  BY <1>1 DEF GetMe, SeesUser
<1>10. ASSUME c.role # "FARMER"
       PROVE  /\ \A f \in ListFarmers(c, asked, T) \cup FarmerAddressed(c, T) :
                   f.coop # None => SeesFarmer(s, f)
              /\ \A b \in BatchInCooperative(c, T) :
                   b.coop # None => SeesBatch(s, b)
              /\ \A x \in ListOfCooperative(c, asked, T)
                   \cup AddressedInCooperative(c, T) :
                   x.coop # None => StaffOf(s, x)
              /\ \A u \in ListUsers(c, asked, T) : SeesUser(s, u)
  <2>1. \A f \in ListFarmers(c, asked, T) \cup FarmerAddressed(c, T) :
          f.coop # None => SeesFarmer(s, f)
    BY <1>1, <1>3, <1>4, <1>6, <1>10 DEF ListFarmers, FarmerAddressed, SeesFarmer
  <2>2. \A b \in BatchInCooperative(c, T) : b.coop # None => SeesBatch(s, b)
    BY <1>1, <1>3, <1>6, <1>10 DEF BatchInCooperative, SeesBatch
  <2>3. \A x \in ListOfCooperative(c, asked, T) \cup AddressedInCooperative(c, T) :
          x.coop # None => StaffOf(s, x)
    BY <1>1, <1>3, <1>4, <1>6, <1>10
    DEF ListOfCooperative, AddressedInCooperative, StaffOf
  <2>4. \A u \in ListUsers(c, asked, T) : SeesUser(s, u)
    BY <1>1, <1>10 DEF ListUsers, SeesUser, SameCoop
  <2> QED BY <2>1, <2>2, <2>3, <2>4
<1> QED BY <1>7, <1>8, <1>9, <1>10 DEF c, s

\* The reads of a batch's records, transfers, ledger and sheet check only the
\* batch's cooperative.  Over what the policies show, they too reach only
\* batches a farmer delivered to.
THEOREM PoliciesNarrowFarmers ==
  ASSUME NEW token \in Token, token.role = "FARMER",
         NEW profiles \in SUBSET Profile, NEW T
  PROVE  LET c == Caller(token, profiles)
             shown == {b \in T : SeesBatch(ContextSql(c), b)}
         IN  \A b \in BatchInCooperative(c, shown) : c.farmer \in b.farmers
<1>1. token.role # "SUPER_ADMIN" /\ Caller(token, profiles).role = "FARMER"
  BY CallerFields
<1> QED BY <1>1, PoliciesIsolate DEF BatchInCooperative

\* The two layers differ on one write: the handler lets a cooperative's
\* administrator edit its cooperative's profile, the policy on cooperatives
\* lets only the platform's owner write one.
THEOREM CooperativeUpdateDiffers ==
  ASSUME NEW token \in Token, token.role = "COOPERATIVE_ADMIN",
         token.coop \in Cooperatives, NEW profiles \in SUBSET Profile
  PROVE  LET c == Caller(token, profiles)
         IN  /\ token.coop \in UpdateCooperative(c)
             /\ ~WritesCooperative(ContextSql(c))
<1> DEFINE c == Caller(token, profiles)
<1>1. c.role = token.role /\ c.coop = token.coop
  BY CallerFields
<1>2. ~Unrestricted(ContextSql(c))
  BY <1>1, CallerSettings
<1>3. token.coop # None
  BY TenancyAssumption
<1> HIDE DEF c
<1> QED
  BY <1>1, <1>2, <1>3
  DEF c, UpdateCooperative, WritesCooperative, Authorize, ADMIN_ROLES, AssertOwnership

\* Elsewhere the two layers agree on the directory and on what is created: a
\* caller lists and opens just the cooperatives that the policy shows it; who
\* may deactivate one may write it; the rows of a cooperative that a handler
\* lets staff create rows in are accepted; and a buyer lists its own record.
THEOREM DirectoriesAgree ==
  ASSUME NEW token \in Token, NEW profiles \in SUBSET Profile, NEW T
  PROVE  LET c == Caller(token, profiles)
             s == ContextSql(c)
         IN  /\ ListCooperatives(c) = {k \in Cooperatives : SeesCooperative(s, k)}
             /\ GetCooperative(c) = ListCooperatives(c)
             /\ DeactivateCooperative(c) # {} => WritesCooperative(s)
             /\ c.role # "FARMER" =>
                  \A k \in CreateIn(c), row \in [coop : Cooperatives] :
                    row.coop = k => StaffOf(s, row)
             /\ c.role = "BUYER" => \A y \in ListBuyers(c, T) : y.user = c.user
<1> DEFINE c == Caller(token, profiles)
           s == ContextSql(c)
<1>1. /\ s.role = c.role /\ s.coop = c.coop
      /\ Unrestricted(s) <=> c.role = "SUPER_ADMIN"
      /\ NotFarmer(s) <=> c.role # "FARMER"
  BY CallerSettings
<1>2. None \notin Cooperatives
  BY TenancyAssumption
<1> HIDE DEF c, s
<1>3. /\ ListCooperatives(c) = {k \in Cooperatives : SeesCooperative(s, k)}
      /\ GetCooperative(c) = ListCooperatives(c)
  BY <1>1, <1>2
  DEF ListCooperatives, GetCooperative, AssertOwnership, SeesCooperative
<1>4. DeactivateCooperative(c) # {} => WritesCooperative(s)
  BY <1>1 DEF DeactivateCooperative, Authorize, WritesCooperative
<1>5. c.role # "FARMER" =>
        \A k \in CreateIn(c), row \in [coop : Cooperatives] :
          row.coop = k => StaffOf(s, row)
  BY <1>1, <1>2 DEF CreateIn, AssertOwnership, StaffOf, SameCoop
<1>6. c.role = "BUYER" => \A y \in ListBuyers(c, T) : y.user = c.user
  BY DEF ListBuyers
<1> QED
  BY <1>3, <1>4, <1>5, <1>6 DEF c, s
=============================================================================
