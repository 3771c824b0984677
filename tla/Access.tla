------------------------------- MODULE Access -------------------------------
(***************************************************************************)
(* Who may call what: the catalogue of permissions, the matrix the seed    *)
(* installs, and the guard each router puts before its handlers.           *)
(*                                                                         *)
(* A permission is a pair, <<resource, act>>, for the key resource:act.  A *)
(* route is its handler, what the guard asks for (any one of a set of      *)
(* permissions, or one of a set of roles), and whether the handler changes *)
(* state.  How the matrix is cached between its edits is Gate's subject.   *)
(***************************************************************************)

Role == {"SUPER_ADMIN", "COOPERATIVE_ADMIN", "COOPERATIVE_STAFF", "FARMER",
         "BUYER", "AUDITOR"}

STAFF_ROLES == {"SUPER_ADMIN", "COOPERATIVE_ADMIN", "COOPERATIVE_STAFF"}

ADMIN_ROLES == {"SUPER_ADMIN", "COOPERATIVE_ADMIN"}

View(resources) == {<<x, "view">> : x \in resources}

PERMISSIONS ==
  View({"dashboard", "farmers", "deliveries", "batches", "processing",
        "warehouse", "lots", "reports", "blockchain", "users", "roles",
        "settings"})
  \cup {<<"farmers", "create">>, <<"farmers", "manage-account">>,
        <<"deliveries", "create">>, <<"batches", "create">>,
        <<"batches", "transition">>, <<"processing", "create">>,
        <<"warehouse", "create">>, <<"warehouse", "store">>,
        <<"warehouse", "remove">>, <<"lots", "manage">>,
        <<"reports", "financial">>, <<"users", "manage">>,
        <<"roles", "manage">>, <<"settings", "manage">>,
        <<"system", "maintenance">>}

\* The keys that end in ":view".
VIEW_ONLY == {p \in PERMISSIONS : p[2] = "view"}

DEFAULT_ROLE_PERMISSIONS == [r \in Role |->
  CASE r = "SUPER_ADMIN" -> PERMISSIONS
    [] r = "COOPERATIVE_ADMIN" -> PERMISSIONS \
         {<<"roles", "manage">>, <<"system", "maintenance">>}
    [] r = "COOPERATIVE_STAFF" -> PERMISSIONS \
         {<<"farmers", "manage-account">>, <<"warehouse", "create">>,
          <<"reports", "financial">>, <<"users", "view">>,
          <<"users", "manage">>, <<"roles", "view">>, <<"roles", "manage">>,
          <<"settings", "manage">>, <<"system", "maintenance">>}
    [] r = "AUDITOR" -> VIEW_ONLY \cup {<<"settings", "view">>}
    [] r = "FARMER" -> View({"dashboard", "deliveries", "batches", "settings"})
    [] r = "BUYER" -> View({"dashboard", "batches", "blockchain", "settings"})]

-----------------------------------------------------------------------------
(* The guards. *)

\* The matrix is the rows of role_permissions, as pairs <<role, permission>>.
RowsOf(matrix) == {x \in Role \X PERMISSIONS : x[2] \in matrix[x[1]]}

\* loadMatrix groups the rows by role; a role without rows holds nothing.
LoadMatrix(rows) == [r \in Role |-> {p \in PERMISSIONS : <<r, p>> \in rows}]

\* PUT /permissions/:role replaces the role's rows by the keys it is sent,
\* those of the catalogue.
SetRolePermissions(rows, role, keys) ==
  {x \in rows : x[1] # role} \cup {<<role, p>> : p \in keys \cap PERMISSIONS}

RoleHasPermission(matrix, role, p) ==
  role = "SUPER_ADMIN" \/ p \in matrix[role]

\* authorize(...): one of the roles listed.
Authorize(role, allowed) == role \in allowed

\* requirePermission(...): any one of the permissions listed.
RequirePermission(matrix, role, needs) ==
  \E p \in needs : RoleHasPermission(matrix, role, p)

Reads(op, needs) == [op |-> op, needs |-> needs, writes |-> FALSE]
Writes(op, needs) == [op |-> op, needs |-> needs, writes |-> TRUE]

BatchRoutes ==
  {Writes("createBatch", {<<"batches", "create">>}),
   Reads("listBatches", {<<"batches", "view">>}),
   Reads("getBatch", {<<"batches", "view">>}),
   Reads("getBatchQr", {<<"batches", "view">>}),
   Writes("updateBatchStatus", {<<"batches", "transition">>})}

DeliveryRoutes ==
  {Writes("createDelivery", {<<"deliveries", "create">>}),
   Reads("listDeliveries", {<<"deliveries", "view">>}),
   Reads("getDelivery", {<<"deliveries", "view">>}),
   Writes("assignDeliveries", {<<"deliveries", "create">>})}

FarmerRoutes ==
  {Writes("createFarmer", {<<"farmers", "create">>}),
   Reads("listFarmers", {<<"farmers", "view">>}),
   Reads("getFarmer", {<<"farmers", "view">>}),
   Writes("updateFarmer", {<<"farmers", "create">>}),
   Writes("deleteFarmer", {<<"farmers", "create">>}),
   Writes("createAccount", {<<"farmers", "manage-account">>}),
   Writes("resetPassword", {<<"farmers", "manage-account">>})}

ProcessingRoutes ==
  {Writes("startProcessing", {<<"processing", "create">>}),
   Reads("listProcessing", {<<"processing", "view">>})}

WarehouseRoutes ==
  {Writes("createWarehouse", {<<"warehouse", "create">>}),
   Reads("listWarehouses", {<<"warehouse", "view">>}),
   Reads("listInventory", {<<"warehouse", "view">>}),
   Writes("store", {<<"warehouse", "store">>}),
   Writes("remove", {<<"warehouse", "remove">>})}

LotRoutes ==
  {Writes("createLot", {<<"lots", "manage">>}),
   Reads("listLots", {<<"lots", "view">>}),
   Reads("getLot", {<<"lots", "view">>}),
   Writes("sellLot", {<<"lots", "manage">>}),
   Writes("confirmLot", {<<"lots", "manage">>})}

ReportRoutes ==
  {Reads("summary", {<<"reports", "view">>}),
   Reads("dashboard", {<<"reports", "view">>}),
   Reads("farmerStatement", {<<"reports", "view">>, <<"deliveries", "view">>}),
   Reads("processingYield", {<<"reports", "view">>}),
   Reads("inventorySnapshot", {<<"reports", "view">>}),
   Reads("salesLedger", {<<"reports", "financial">>}),
   Reads("traceability", {<<"reports", "view">>}),
   Reads("traceabilityPdf", {<<"reports", "view">>}),
   Reads("history", {<<"blockchain", "view">>}),
   Reads("movement", {<<"reports", "view">>})}

UserRoutes ==
  {Writes("register", {<<"users", "manage">>}),
   Reads("listUsers", {<<"users", "view">>}),
   Writes("updateUserStatus", {<<"users", "manage">>}),
   Writes("setMaintenanceAccess", {<<"users", "manage">>})}

PermissionRoutes ==
  {Reads("getMatrix", {<<"roles", "view">>}),
   Writes("setRolePermissions", {<<"roles", "manage">>})}

SystemRoutes == {Writes("setMaintenance", {<<"system", "maintenance">>})}

AnnouncementRoutes == {Writes("createNotification", {<<"users", "manage">>})}

\* The routes a permission guards.
GuardedRoutes ==
  BatchRoutes \cup DeliveryRoutes \cup FarmerRoutes \cup ProcessingRoutes
    \cup WarehouseRoutes \cup LotRoutes \cup ReportRoutes \cup UserRoutes
    \cup PermissionRoutes \cup SystemRoutes \cup AnnouncementRoutes
    \cup {Reads("listTransfers", {<<"batches", "view">>})}

\* The routes a list of roles guards: here "needs" is that list.
TransferRoutes ==
  {Writes("initiateTransfer", STAFF_ROLES), Writes("confirmTransfer", STAFF_ROLES)}

BuyerRoutes ==
  {Writes("createBuyer", STAFF_ROLES),
   Reads("listBuyers", STAFF_ROLES \cup {"AUDITOR", "BUYER"}),
   Writes("verifyBuyer", ADMIN_ROLES)}

CooperativeRoutes ==
  {Writes("createCooperative", {"SUPER_ADMIN"}),
   Writes("updateCooperative", ADMIN_ROLES),
   Writes("deactivateCooperative", {"SUPER_ADMIN"})}

RoleRoutes == TransferRoutes \cup BuyerRoutes \cup CooperativeRoutes

-----------------------------------------------------------------------------
(* Registering an account: what the actor may grant, and where. *)

\* What registerSchema lets through at all.
Registrable == {"COOPERATIVE_ADMIN", "COOPERATIVE_STAFF", "FARMER", "BUYER"}

GRANTABLE_ROLES(role) ==
  CASE role = "SUPER_ADMIN" -> Role
    [] role = "COOPERATIVE_ADMIN" -> {"COOPERATIVE_STAFF", "FARMER", "BUYER"}
    [] OTHER -> {}

\* The cooperative the new account gets: the one asked for counts only when
\* the platform's owner asks.
CooperativeGiven(actor, asked) ==
  IF actor.role = "SUPER_ADMIN" THEN asked ELSE actor.coop

\* A request for an account of this role passes every check of the service;
\* none stands for no cooperative.
RegisterAdmits(actor, role, asked, none) ==
  /\ role \in Registrable
  /\ role \in GRANTABLE_ROLES(actor.role)
  /\ CooperativeGiven(actor, asked) # none \/ role = "BUYER"
=============================================================================
