------------------------------ MODULE Notices -------------------------------
(***************************************************************************)
(* Notifications.  After an operation has committed, its handler tells the *)
(* people it concerns: first the cooperative's staff, then the one person  *)
(* waiting for it, then the farmers whose coffee it is about.  Each of     *)
(* these is a query or an insert of its own, and the first that fails ends *)
(* the emission, which reports nothing.  Meanwhile accounts are suspended  *)
(* and reinstated, and users read and delete what they were told.          *)
(*                                                                         *)
(* An event is one operation's emission, and keeps its state once over.    *)
(***************************************************************************)
EXTENDS Tenancy

CONSTANTS
  RoleOf,        \* user -> role
  CoopOf,        \* user -> cooperative, or None
  Batches,
  BatchCoop,     \* batch -> its cooperative
  Contributors,  \* batch -> linked accounts of the farmers who delivered to it
  Events,        \* how many operations may be notified of
  Readers        \* bound: the users who read and delete what they are told

ASSUME NoticesAssumption ==
  /\ RoleOf \in [Users -> Role]
  /\ CoopOf \in [Users -> Cooperatives \cup {None}]
  /\ BatchCoop \in [Batches -> Cooperatives]
  /\ Contributors \in [Batches -> SUBSET Users]
  /\ \A b \in Batches : \A u \in Contributors[b] :
       RoleOf[u] = "FARMER" /\ CoopOf[u] = BatchCoop[b]
  /\ Readers \subseteq Users
  /\ None \notin Batches

VARIABLES
  active,    \* the users whose status is ACTIVE
  event,     \* event -> its emission
  inbox,     \* the rows of notifications
  told       \* history: every row ever inserted

vars == <<active, event, inbox, told>>

\* "work" stands for what only the staff hears of.
Kind == {"deliveryCreated", "work", "exported", "transferInitiated",
         "transferConfirmed", "userStatus", "system", "announcement"}

Part == {"staff", "person", "farmers"}

Stage == {"none", "resolve", "staff", "person", "farmers", "done", "failed"}

\* What an operation passes on: the batch, the user who acted, the person it
\* concerns (the delivery's farmer, the transfer's initiator, the account
\* changed or addressed); and the recipients its first query returned.
Emission == [stage : Stage, kind : Kind \cup {None}, batch : Batches \cup {None},
             actor : Users \cup {None}, person : Users \cup {None},
             staff : SUBSET Users]

NoEmission == [stage |-> "none", kind |-> None, batch |-> None, actor |-> None,
               person |-> None, staff |-> {}]

Telling == [event : Events, part : Part, to : Users]

TypeOK ==
  /\ active \subseteq Users
  /\ event \in [Events -> Emission]
  /\ told \subseteq Telling
  /\ inbox \subseteq [row : Telling, read : BOOLEAN]

Init ==
  /\ active = Users
  /\ event = [e \in Events |-> NoEmission]
  /\ inbox = {}
  /\ told = {}

-----------------------------------------------------------------------------
\* The settings of a user's own queries.
SettingsOf(u) == [user |-> u, role |-> RoleOf[u], coop |-> CoopOf[u],
                  farmer |-> None, system |-> FALSE]

OPS_ROLES == {"COOPERATIVE_ADMIN", "COOPERATIVE_STAFF"}

\* Slip: the cooperative is left to the policies.
RecipientsAnywhere(coop, roles, actor) ==
  {u \in active \ {actor} :
     /\ RoleOf[u] \in roles
     /\ SeesUser(SettingsOf(actor), [id |-> u, coop |-> CoopOf[u]])}

\* The cooperative's active users of these roles except the actor, as far as
\* the actor's own policies show them.
RecipientsIn(coop, roles, actor) ==
  {u \in active \ {actor} :
     /\ CoopOf[u] = coop /\ RoleOf[u] \in roles
     /\ SeesUser(SettingsOf(actor), [id |-> u, coop |-> CoopOf[u]])}

\* Who the first query of an emission returns: a sale that awaits confirmation
\* is the administrators' affair, maintenance everybody's.
FirstRecipients(m) ==
  CASE m.kind = "system" -> active \ {m.actor}
    [] m.kind = "transferInitiated" ->
         RecipientsIn(BatchCoop[m.batch], {"COOPERATIVE_ADMIN"}, m.actor)
    [] OTHER -> RecipientsIn(BatchCoop[m.batch], OPS_ROLES, m.actor)

\* Slips: the initiator is told though already among the staff; a farmer
\* without an account is told.
PersonTwice(m) ==
  IF m.kind = "transferConfirmed" THEN {m.person} \ {None, m.actor}
  ELSE IF m.kind = "deliveryCreated" THEN {m.person} \ {None, m.actor}
  ELSE IF m.kind \in {"userStatus", "announcement"} THEN {m.person} ELSE {}

PersonOrNobody(m) ==
  IF m.kind = "transferConfirmed" THEN ({m.person} \ {None, m.actor}) \ m.staff
  ELSE IF m.kind = "deliveryCreated" THEN {m.person} \ {m.actor}
  ELSE IF m.kind \in {"userStatus", "announcement"} THEN {m.person} ELSE {}

\* The one person an emission is addressed to besides the staff.
PersonOf(m) ==
  CASE m.kind = "transferConfirmed" -> ({m.person} \ {None, m.actor}) \ m.staff
    [] m.kind = "deliveryCreated" -> {m.person} \ {None, m.actor}
    [] m.kind \in {"userStatus", "announcement"} -> {m.person}
    [] OTHER -> {}

\* Slip: the farmers hear of the export alone.
TellsFarmersAtExport == {"exported"}

\* The emissions that go on to the contributing farmers.
TellsFarmers == {"exported", "transferConfirmed"}

\* The contributing farmers with an account, each once, without the actor.
ContributingFarmers(m) == Contributors[m.batch] \ {m.actor}

-----------------------------------------------------------------------------
(* Emitting. *)

\* Insert a row for each recipient, as the system.
Insert(e, part, recipients) ==
  LET rows == {[event |-> e, part |-> part, to |-> u] : u \in recipients}
  IN  /\ told' = told \cup rows
      /\ inbox' = inbox \cup {[row |-> x, read |-> FALSE] : x \in rows}

Unused(e) == event[e].stage = "none"

Begin(e, stage, kind, b, actor, person) ==
  event' = [event EXCEPT ![e] =
    [stage |-> stage, kind |-> kind, batch |-> b, actor |-> actor,
     person |-> person, staff |-> {}]]

MayActOn(u, b) ==
  RoleOf[u] \in STAFF_ROLES /\ AssertOwnership(SettingsOf(u), BatchCoop[b])

\* A delivery of a farmer of the cooperative was registered; the farmer may or
\* may not have an account.
DeliveryCreated(e, b, actor, person) ==
  /\ Unused(e)
  /\ MayActOn(actor, b)
  /\ person # None => RoleOf[person] = "FARMER" /\ CoopOf[person] = BatchCoop[b]
  /\ Begin(e, "resolve", "deliveryCreated", b, actor, person)
  /\ UNCHANGED <<active, inbox, told>>

StaffAffair(e, kind, b, actor) ==
  /\ Unused(e)
  /\ MayActOn(actor, b)
  /\ Begin(e, "resolve", kind, b, actor, None)
  /\ UNCHANGED <<active, inbox, told>>

DeliveriesAssigned(e, b, actor) == StaffAffair(e, "work", b, actor)

\* The status endpoint sells nothing, but it exports what was sold.
BatchStatusChanged(e, b, actor) ==
  \E kind \in {"work", "exported"} : StaffAffair(e, kind, b, actor)

ProcessingRecorded(e, b, actor) == StaffAffair(e, "work", b, actor)

WarehouseStored(e, b, actor) == StaffAffair(e, "work", b, actor)

TransferInitiated(e, b, actor) == StaffAffair(e, "transferInitiated", b, actor)

\* A transfer was confirmed; initiated_by may be null.
TransferConfirmed(e, b, actor, initiator) ==
  /\ Unused(e)
  /\ MayActOn(actor, b)
  /\ initiator # None => MayActOn(initiator, b)
  /\ Begin(e, "resolve", "transferConfirmed", b, actor, initiator)
  /\ UNCHANGED <<active, inbox, told>>

\* PATCH /users/:id/status commits, then tells the account's holder, unless
\* they changed it themselves.
SetUserStatus(e, actor, u, on) ==
  /\ Unused(e)
  /\ RoleOf[actor] \in ADMIN_ROLES
  /\ UserManaged(SettingsOf(actor),
                 {[id |-> u, coop |-> CoopOf[u], deleted |-> FALSE]}) # {}
  /\ active' = IF on THEN active \cup {u} ELSE active \ {u}
  /\ IF u = actor THEN UNCHANGED event
     ELSE Begin(e, "person", "userStatus", None, actor, u)
  /\ UNCHANGED <<inbox, told>>

\* PATCH /system/maintenance announces itself to every active user.
Maintenance(e, actor) ==
  /\ Unused(e)
  /\ RoleOf[actor] = "SUPER_ADMIN"
  /\ Begin(e, "resolve", "system", None, actor, None)
  /\ UNCHANGED <<active, inbox, told>>

\* POST /notifications addresses one user, who may be the sender.
Announce(e, actor, u) ==
  /\ Unused(e)
  /\ RoleOf[actor] \in ADMIN_ROLES
  /\ Begin(e, "person", "announcement", None, actor, u)
  /\ UNCHANGED <<active, inbox, told>>

\* The query for the recipients.
Resolve(e) ==
  /\ event[e].stage = "resolve"
  /\ event' = [event EXCEPT ![e].stage = "staff",
                            ![e].staff = FirstRecipients(event[e])]
  /\ UNCHANGED <<active, inbox, told>>

\* The insert for them all: one statement, every row or none.
TellStaff(e) ==
  /\ event[e].stage = "staff"
  /\ Insert(e, "staff", event[e].staff)
  /\ event' = [event EXCEPT ![e].stage = "person"]
  /\ UNCHANGED active

TellPerson(e) ==
  /\ event[e].stage = "person"
  /\ Insert(e, "person", PersonOf(event[e]))
  /\ event' = [event EXCEPT ![e].stage =
       IF event[e].kind \in TellsFarmers THEN "farmers" ELSE "done"]
  /\ UNCHANGED active

TellFarmers(e) ==
  /\ event[e].stage = "farmers"
  /\ Insert(e, "farmers", ContributingFarmers(event[e]))
  /\ event' = [event EXCEPT ![e].stage = "done"]
  /\ UNCHANGED active

\* safely: a query or an insert fails, and the rest is not sent.
Fail(e) ==
  /\ event[e].stage \in {"resolve", "staff", "person", "farmers"}
  /\ event' = [event EXCEPT ![e].stage = "failed"]
  /\ UNCHANGED <<active, inbox, told>>

-----------------------------------------------------------------------------
(* Reading: every route is keyed by the caller's own id. *)

ListForUser(u) == {n \in inbox : n.row.to = u}

CountUnread(u) == {n \in ListForUser(u) : ~n.read}

\* Marking is idempotent: a row already read is found, and reported as read.
MarkAsRead(u, n) ==
  /\ n \in CountUnread(u)
  /\ inbox' = (inbox \ {n}) \cup {[n EXCEPT !.read = TRUE]}
  /\ UNCHANGED <<active, event, told>>

MarkAllAsRead(u) ==
  /\ CountUnread(u) # {}
  /\ inbox' = (inbox \ CountUnread(u))
                \cup {[n EXCEPT !.read = TRUE] : n \in CountUnread(u)}
  /\ UNCHANGED <<active, event, told>>

Delete(u, n) ==
  /\ n \in ListForUser(u)
  /\ inbox' = inbox \ {n}
  /\ UNCHANGED <<active, event, told>>

Next ==
  \/ \E e \in Events :
       \/ \E b \in Batches, a \in Users, p \in Users \cup {None} :
            DeliveryCreated(e, b, a, p) \/ TransferConfirmed(e, b, a, p)
       \/ \E b \in Batches, a \in Users :
            \/ DeliveriesAssigned(e, b, a) \/ BatchStatusChanged(e, b, a)
            \/ ProcessingRecorded(e, b, a) \/ WarehouseStored(e, b, a)
            \/ TransferInitiated(e, b, a)
       \/ \E a, u \in Users : \/ \E on \in BOOLEAN : SetUserStatus(e, a, u, on)
                              \/ Announce(e, a, u)
       \/ \E a \in Users : Maintenance(e, a)
       \/ Resolve(e) \/ TellStaff(e) \/ TellPerson(e) \/ TellFarmers(e) \/ Fail(e)
  \/ \E u \in Readers :
       \/ MarkAllAsRead(u)
       \/ \E n \in inbox : MarkAsRead(u, n) \/ Delete(u, n)

Spec == Init /\ [][Next]_vars

-----------------------------------------------------------------------------
\* Nobody is told of one operation twice, as staff and as its initiator or as
\* a farmer, and nobody but the sender of an announcement is told of what they
\* did themselves: however the recipients' accounts change between the query
\* and the inserts.
ToldOnce ==
  /\ \A x, y \in told : x.event = y.event /\ x.to = y.to => x = y
  /\ \A x \in told : event[x.event].kind # "announcement"
                       => x.to # event[x.event].actor

\* An emission about a confirmed sale that ran to its end has told the farmers
\* whose coffee it was, and whoever opened the transfer, unless they confirmed
\* it themselves: suspended or not, on the staff or not.
OutcomeHeard ==
  \A e \in Events :
    event[e].kind = "transferConfirmed" /\ event[e].stage = "done" =>
      \A u \in (Contributors[event[e].batch] \cup {event[e].person})
                 \ {None, event[e].actor} :
        \E x \in told : x.event = e /\ x.to = u

\* An operation's notices stay inside its cooperative: nobody of another one
\* is told of a batch, a delivery or a sale (the platform's owner, who belongs
\* to none, only of a sale it opened).
StaysInCooperative ==
  \A x \in told :
    LET m == event[x.event]
    IN  m.batch # None => \/ CoopOf[x.to] = BatchCoop[m.batch]
                          \/ RoleOf[x.to] = "SUPER_ADMIN" /\ x.to = m.person
=============================================================================
