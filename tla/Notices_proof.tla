---------------------------- MODULE Notices_proof ---------------------------
(***************************************************************************)
(* Theorems about Notices, for any users, batches and events.              *)
(*                                                                         *)
(* Three parts of an emission write rows, and none can name somebody an    *)
(* earlier one named: the staff and the farmers by their roles, the person *)
(* by the recipients found at the start, which are kept in the emission.   *)
(* So what matters is what an emission is about (EmissionOK), that a row   *)
(* was written by the part it names and after that part's turn (RowOK),    *)
(* and that a part whose turn is over has written every row (Delivered).   *)
(***************************************************************************)
EXTENDS Notices, TLAPS

OfBatch == {"deliveryCreated", "work", "exported", "transferInitiated",
            "transferConfirmed"}

Addressed == {"userStatus", "announcement"}

\* Whom an emission m may concern, and whom its first query may have found.
EmissionOK(m) ==
  m.stage # "none" =>
    /\ m.actor \in Users
    /\ m.kind \in Kind
    /\ m.kind \in OfBatch => m.batch \in Batches
    /\ m.kind \notin OfBatch => m.batch = None
    /\ m.kind = "deliveryCreated" /\ m.person # None =>
         RoleOf[m.person] = "FARMER" /\ CoopOf[m.person] = BatchCoop[m.batch]
    /\ m.kind = "transferConfirmed" /\ m.person # None => MayActOn(m.person, m.batch)
    /\ m.kind \in Addressed =>
         /\ m.person \in Users
         /\ m.staff = {}
         /\ m.stage \notin {"resolve", "staff", "farmers"}
    /\ m.kind = "userStatus" => m.person # m.actor
    /\ m.stage = "farmers" => m.kind \in TellsFarmers
    /\ m.actor \notin m.staff
    /\ m.kind # "system" =>
         \A u \in m.staff : RoleOf[u] \in OPS_ROLES /\ CoopOf[u] = BatchCoop[m.batch]

\* A row x of the emission m.
RowOK(x, m) ==
  /\ m.stage \notin {"none", "resolve", "staff"}
  /\ x.part = "staff" => x.to \in m.staff
  /\ x.part = "person" => x.to \in PersonOf(m) /\ m.stage # "person"
  /\ x.part = "farmers" =>
       x.to \in ContributingFarmers(m) /\ m.stage = "done" /\ m.kind \in TellsFarmers

Row(e, part, u) == [event |-> e, part |-> part, to |-> u]

\* With the rows T, the parts of m, the emission of e, whose turn is over have
\* told everybody.
Delivered(T, e, m) ==
  /\ m.stage \in {"person", "farmers", "done"} =>
       \A u \in m.staff : Row(e, "staff", u) \in T
  /\ m.stage \in {"farmers", "done"} =>
       \A u \in PersonOf(m) : Row(e, "person", u) \in T
  /\ m.stage = "done" /\ m.kind \in TellsFarmers =>
       \A u \in ContributingFarmers(m) : Row(e, "farmers", u) \in T

Inv ==
  /\ TypeOK
  /\ \A e \in Events : EmissionOK(event[e]) /\ Delivered(told, e, event[e])
  /\ \A x \in told : RowOK(x, event[x.event])
LEMMA InitInv == Init => Inv
<1> SUFFICES ASSUME Init PROVE Inv
  OBVIOUS
<1>1. NoEmission \in Emission
  BY DEF NoEmission, Emission, Stage
<1>2. TypeOK
  BY <1>1 DEF Init, TypeOK
<1>3. \A e \in Events : EmissionOK(event[e]) /\ Delivered(told, e, event[e])
  BY DEF Init, NoEmission, EmissionOK, Delivered
<1> QED BY <1>2, <1>3 DEF Inv, Init

-----------------------------------------------------------------------------
(* One emission moves. *)

\* A step of one event's emission, which writes rows of that event alone.
LEMMA EmissionStep ==
  ASSUME Inv, NEW e \in Events, NEW m \in Emission,
         event' = [event EXCEPT ![e] = m],
         active' \subseteq Users, inbox' \subseteq [row : Telling, read : BOOLEAN],
         told \subseteq told', told' \subseteq Telling,
         \A x \in told' : x \notin told => x.event = e,
         EmissionOK(m), Delivered(told', e, m),
         \A x \in told' : x.event = e => RowOK(x, m)
  PROVE  Inv'
<1>1. TypeOK'
  BY DEF Inv, TypeOK
<1>2. event'[e] = m /\ \A d \in Events \ {e} : event'[d] = event[d]
  BY DEF Inv, TypeOK
<1>3. ASSUME NEW d \in Events PROVE (EmissionOK(event[d]) /\ Delivered(told, d, event[d]))'
  <2>1. CASE d = e
    BY <2>1, <1>2
  <2>2. CASE d # e
    <3>1. EmissionOK(event[d]) /\ Delivered(told, d, event[d])
      BY DEF Inv
    <3>2. event'[d] = event[d]
      BY <2>2, <1>2
    <3>3. Delivered(told', d, event'[d])
      BY <3>1, <3>2 DEF Delivered
    <3> QED BY <3>1, <3>2, <3>3
  <2> QED BY <2>1, <2>2
<1>4. ASSUME NEW x \in told' PROVE RowOK(x, event'[x.event])
  <2>1. CASE x.event = e
    BY <2>1, <1>2
  <2>2. CASE x.event # e
    <3>1. x \in told
      BY <2>2
    <3>2. x.event \in Events
      BY <3>1 DEF Inv, TypeOK, Telling
    <3> QED BY <2>2, <1>2, <3>1, <3>2 DEF Inv
  <2> QED BY <2>1, <2>2
<1> QED BY <1>1, <1>3, <1>4 DEF Inv

\* An operation that tells nobody yet begins an emission.
LEMMA BeginStep ==
  ASSUME Inv, NEW e \in Events, Unused(e), NEW m \in Emission,
         event' = [event EXCEPT ![e] = m], active' \subseteq Users,
         UNCHANGED <<inbox, told>>,
         EmissionOK(m), m.stage \in {"resolve", "person"}, m.staff = {}
  PROVE  Inv'
<1>1. \A x \in told : x.event # e
  BY DEF Inv, RowOK, Unused
<1>2. Delivered(told', e, m)
  BY DEF Delivered
<1>3. /\ inbox' \subseteq [row : Telling, read : BOOLEAN] /\ told' \subseteq Telling
      /\ told \subseteq told' /\ \A x \in told' : x \in told
  BY DEF Inv, TypeOK
<1> QED BY <1>1, <1>2, <1>3, EmissionStep

\* What Insert writes, and that it keeps the types.
LEMMA InsertFacts ==
  ASSUME Inv, NEW e \in Events, NEW part \in Part, NEW S \in SUBSET Users,
         Insert(e, part, S)
  PROVE  /\ told \subseteq told' /\ told' \subseteq Telling
         /\ inbox' \subseteq [row : Telling, read : BOOLEAN]
         /\ \A x \in told' : x \notin told =>
              x.event = e /\ x.part = part /\ x.to \in S
         /\ \A u \in S : Row(e, part, u) \in told'
<1> DEFINE rows == {[event |-> e, part |-> part, to |-> u] : u \in S}
<1>1. rows \subseteq Telling
  BY DEF Telling
<1>2. told' = told \cup rows /\ inbox' = inbox \cup {[row |-> x, read |-> FALSE] : x \in rows}
  BY DEF Insert
<1>3. \A u \in S : Row(e, part, u) \in rows
  BY DEF Row
<1>4. \A x \in rows : x.event = e /\ x.part = part /\ x.to \in S
  OBVIOUS
<1> HIDE DEF rows
<1>5. {[row |-> x, read |-> FALSE] : x \in rows} \subseteq [row : Telling, read : BOOLEAN]
  <2>1. \A x \in rows : [row |-> x, read |-> FALSE] \in [row : Telling, read : BOOLEAN]
    BY <1>1
  <2> QED BY <2>1
<1>6. told' \subseteq Telling /\ inbox' \subseteq [row : Telling, read : BOOLEAN]
  BY <1>1, <1>2, <1>5 DEF Inv, TypeOK
<1> QED BY <1>2, <1>3, <1>4, <1>6

LEMMA NoneIsNoUser == None \notin Users
BY TenancyAssumption

LEMMA DeliveryCreatedInv ==
  ASSUME Inv, NEW e \in Events, NEW b \in Batches, NEW a \in Users,
         NEW p \in Users \cup {None}, DeliveryCreated(e, b, a, p)
  PROVE  Inv'
<1> DEFINE m == [stage |-> "resolve", kind |-> "deliveryCreated", batch |-> b,
                 actor |-> a, person |-> p, staff |-> {}]
<1>1. m \in Emission
  BY DEF Emission, Stage, Kind
<1>2. EmissionOK(m)
  BY DEF EmissionOK, Kind, OfBatch, Addressed, DeliveryCreated
<1>3. event' = [event EXCEPT ![e] = m] /\ Unused(e) /\ UNCHANGED <<active, inbox, told>>
  BY DEF DeliveryCreated, Begin
<1>4. active' \subseteq Users
  BY <1>3 DEF Inv, TypeOK
<1>5. m.stage \in {"resolve", "person"} /\ m.staff = {}
  OBVIOUS
<1> HIDE DEF m
<1> QED BY <1>1, <1>2, <1>3, <1>4, <1>5, BeginStep

LEMMA TransferConfirmedInv ==
  ASSUME Inv, NEW e \in Events, NEW b \in Batches, NEW a \in Users,
         NEW p \in Users \cup {None}, TransferConfirmed(e, b, a, p)
  PROVE  Inv'
<1> DEFINE m == [stage |-> "resolve", kind |-> "transferConfirmed", batch |-> b,
                 actor |-> a, person |-> p, staff |-> {}]
<1>1. m \in Emission
  BY DEF Emission, Stage, Kind
<1>2. EmissionOK(m)
  BY DEF EmissionOK, Kind, OfBatch, Addressed, TransferConfirmed
<1>3. event' = [event EXCEPT ![e] = m] /\ Unused(e) /\ UNCHANGED <<active, inbox, told>>
  BY DEF TransferConfirmed, Begin
<1>4. active' \subseteq Users
  BY <1>3 DEF Inv, TypeOK
<1>5. m.stage \in {"resolve", "person"} /\ m.staff = {}
  OBVIOUS
<1> HIDE DEF m
<1> QED BY <1>1, <1>2, <1>3, <1>4, <1>5, BeginStep

LEMMA StaffAffairInv ==
  ASSUME Inv, NEW e \in Events, NEW b \in Batches, NEW a \in Users,
         NEW kind \in {"work", "exported", "transferInitiated"},
         StaffAffair(e, kind, b, a)
  PROVE  Inv'
<1> DEFINE m == [stage |-> "resolve", kind |-> kind, batch |-> b,
                 actor |-> a, person |-> None, staff |-> {}]
<1>1. m \in Emission
  BY DEF Emission, Stage, Kind
<1>2. EmissionOK(m)
  BY DEF EmissionOK, Kind, OfBatch, Addressed
<1>3. event' = [event EXCEPT ![e] = m] /\ Unused(e) /\ UNCHANGED <<active, inbox, told>>
  BY DEF StaffAffair, Begin
<1>4. active' \subseteq Users
  BY <1>3 DEF Inv, TypeOK
<1>5. m.stage \in {"resolve", "person"} /\ m.staff = {}
  OBVIOUS
<1> HIDE DEF m
<1> QED BY <1>1, <1>2, <1>3, <1>4, <1>5, BeginStep

\* The operations that concern a person or everybody, and no batch.
LEMMA AddressedInv ==
  ASSUME Inv, NEW e \in Events, NEW a \in Users, Unused(e),
         NEW stage, NEW kind, NEW p,
         \/ stage = "resolve" /\ kind = "system" /\ p = None
         \/ stage = "person" /\ kind = "announcement" /\ p \in Users
         \/ stage = "person" /\ kind = "userStatus" /\ p \in Users \ {a},
         Begin(e, stage, kind, None, a, p),
         active' \subseteq Users, UNCHANGED <<inbox, told>>
  PROVE  Inv'
<1> DEFINE m == [stage |-> stage, kind |-> kind, batch |-> None,
                 actor |-> a, person |-> p, staff |-> {}]
<1>1. m \in Emission
  BY DEF Emission, Stage, Kind
<1>2. EmissionOK(m)
  BY DEF EmissionOK, Kind, OfBatch, Addressed
<1>3. event' = [event EXCEPT ![e] = m]
  BY DEF Begin
<1>4. m.stage \in {"resolve", "person"} /\ m.staff = {}
  OBVIOUS
<1> HIDE DEF m
<1> QED BY <1>1, <1>2, <1>3, <1>4, BeginStep

LEMMA SetUserStatusInv ==
  ASSUME Inv, NEW e \in Events, NEW a \in Users, NEW u \in Users,
         NEW on \in BOOLEAN, SetUserStatus(e, a, u, on)
  PROVE  Inv'
<1>1. active' \subseteq Users /\ Unused(e) /\ UNCHANGED <<inbox, told>>
  BY DEF SetUserStatus, Inv, TypeOK
<1>2. CASE u = a
  <2>1. UNCHANGED <<event, inbox, told>>
    BY <1>2 DEF SetUserStatus
  <2> QED BY <1>1, <2>1 DEF Inv, TypeOK, Delivered
<1>3. CASE u # a
  <2>1. Begin(e, "person", "userStatus", None, a, u)
    BY <1>3 DEF SetUserStatus
  <2> QED BY <1>1, <1>3, <2>1, AddressedInv
<1> QED BY <1>2, <1>3

-----------------------------------------------------------------------------
(* The parts of an emission. *)

\* What the first query finds.
LEMMA RecipientFacts ==
  ASSUME Inv, NEW m \in Emission
  PROVE  /\ FirstRecipients(m) \subseteq Users \ {m.actor}
         /\ m.kind # "system" => \A u \in FirstRecipients(m) :
              RoleOf[u] \in OPS_ROLES /\ CoopOf[u] = BatchCoop[m.batch]
<1>1. active \subseteq Users
  BY DEF Inv, TypeOK
<1>2. CASE m.kind = "system"
  BY <1>1, <1>2 DEF FirstRecipients
<1>3. CASE m.kind = "transferInitiated"
  BY <1>1, <1>3 DEF FirstRecipients, RecipientsIn, OPS_ROLES
<1>4. CASE m.kind \notin {"system", "transferInitiated"}
  BY <1>1, <1>4 DEF FirstRecipients, RecipientsIn
<1> QED BY <1>2, <1>3, <1>4

LEMMA ResolveInv ==
  ASSUME Inv, NEW e \in Events, Resolve(e)
  PROVE  Inv'
<1> DEFINE q == event[e]
           S == FirstRecipients(q)
           m == [q EXCEPT !.stage = "staff", !.staff = S]
<1>1. q \in Emission /\ EmissionOK(q) /\ q.stage = "resolve"
  BY DEF Inv, TypeOK, Resolve
<1>2. event' = [event EXCEPT ![e] = m] /\ UNCHANGED <<active, inbox, told>>
  BY DEF Resolve, Inv, TypeOK
<1>3. /\ S \subseteq Users /\ q.actor \notin S
      /\ q.kind # "system" => \A u \in S :
           RoleOf[u] \in OPS_ROLES /\ CoopOf[u] = BatchCoop[q.batch]
  BY <1>1, RecipientFacts
<1> HIDE DEF S, q
<1>4. /\ m \in Emission /\ m.stage = "staff" /\ m.kind = q.kind /\ m.batch = q.batch
      /\ m.actor = q.actor /\ m.person = q.person /\ m.staff = S
  BY <1>1, <1>3 DEF Emission, Stage
<1> HIDE DEF m
<1>5. EmissionOK(m)
  BY <1>1, <1>3, <1>4 DEF EmissionOK, Addressed
<1>6. \A x \in told : x.event # e
  BY <1>1 DEF Inv, RowOK, q
<1>7. Delivered(told', e, m)
  BY <1>4 DEF Delivered
<1>8. /\ active' \subseteq Users /\ inbox' \subseteq [row : Telling, read : BOOLEAN]
      /\ told \subseteq told' /\ told' \subseteq Telling /\ \A x \in told' : x \in told
  BY <1>2 DEF Inv, TypeOK
<1> QED BY <1>2, <1>4, <1>5, <1>6, <1>7, <1>8, EmissionStep

\* An emission that only goes on to stage v.
LEMMA StageFacts ==
  ASSUME Inv, NEW e \in Events, NEW v \in Stage,
         event' = [event EXCEPT ![e].stage = v]
  PROVE  LET q == event[e]
             m == [q EXCEPT !.stage = v]
         IN  /\ q \in Emission /\ EmissionOK(q) /\ Delivered(told, e, q)
             /\ m \in Emission /\ event' = [event EXCEPT ![e] = m]
             /\ m.stage = v /\ m.kind = q.kind /\ m.batch = q.batch
             /\ m.actor = q.actor /\ m.person = q.person /\ m.staff = q.staff
             /\ PersonOf(m) = PersonOf(q)
             /\ ContributingFarmers(m) = ContributingFarmers(q)
<1> DEFINE q == event[e]
           m == [q EXCEPT !.stage = v]
<1>1. q \in Emission /\ EmissionOK(q) /\ Delivered(told, e, q)
  BY DEF Inv, TypeOK
<1>2. event' = [event EXCEPT ![e] = m]
  BY DEF Inv, TypeOK
<1> HIDE DEF q
<1>3. /\ m \in Emission
      /\ m.stage = v /\ m.kind = q.kind /\ m.batch = q.batch
      /\ m.actor = q.actor /\ m.person = q.person /\ m.staff = q.staff
  BY <1>1 DEF Emission
<1> HIDE DEF m
<1>4. PersonOf(m) = PersonOf(q) /\ ContributingFarmers(m) = ContributingFarmers(q)
  BY <1>3 DEF PersonOf, ContributingFarmers
<1> QED BY <1>1, <1>2, <1>3, <1>4 DEF q, m

\* Who the later parts name are users.
LEMMA PartsNameUsers ==
  ASSUME NEW m \in Emission, EmissionOK(m), m.stage # "none"
  PROVE  /\ PersonOf(m) \subseteq Users
         /\ m.kind \in TellsFarmers => ContributingFarmers(m) \subseteq Users
<1>1. PersonOf(m) \subseteq Users
  <2>1. CASE m.kind \in Addressed
    <3>1. m.person \in Users
      BY <2>1 DEF EmissionOK
    <3> QED BY <2>1, <3>1 DEF Addressed, PersonOf
  <2>2. CASE m.kind \notin Addressed
    BY <2>2 DEF Emission, PersonOf, Addressed
  <2> QED BY <2>1, <2>2
<1>2. m.kind \in TellsFarmers => m.batch \in Batches
  BY DEF EmissionOK, TellsFarmers, OfBatch
<1> QED BY <1>1, <1>2, NoticesAssumption DEF ContributingFarmers

LEMMA TellStaffInv ==
  ASSUME Inv, NEW e \in Events, TellStaff(e)
  PROVE  Inv'
<1> DEFINE q == event[e]
           m == [q EXCEPT !.stage = "person"]
<1>1. q.stage = "staff" /\ Insert(e, "staff", q.staff) /\ active' = active
  BY DEF TellStaff
<1>2. /\ q \in Emission /\ EmissionOK(q)
      /\ m \in Emission /\ event' = [event EXCEPT ![e] = m]
      /\ m.stage = "person" /\ m.kind = q.kind /\ m.batch = q.batch
      /\ m.actor = q.actor /\ m.person = q.person /\ m.staff = q.staff
  BY StageFacts DEF TellStaff, Stage
<1>3. \A x \in told : x.event # e
  BY <1>1 DEF Inv, RowOK
<1> HIDE DEF q, m
<1>4. q.staff \in SUBSET Users
  BY <1>2 DEF Emission
<1>5. /\ told \subseteq told' /\ told' \subseteq Telling
      /\ inbox' \subseteq [row : Telling, read : BOOLEAN]
      /\ \A x \in told' : x \notin told => x.event = e /\ x.part = "staff" /\ x.to \in q.staff
      /\ \A u \in q.staff : Row(e, "staff", u) \in told'
  BY <1>1, <1>4, InsertFacts DEF Part
<1>6. EmissionOK(m)
  BY <1>1, <1>2 DEF EmissionOK
<1>7. Delivered(told', e, m)
  BY <1>2, <1>5 DEF Delivered
<1>8. \A x \in told' : x.event = e => RowOK(x, m)
  BY <1>2, <1>3, <1>5 DEF RowOK
<1>9. active' \subseteq Users
  BY <1>1 DEF Inv, TypeOK
<1> QED BY <1>2, <1>5, <1>6, <1>7, <1>8, <1>9, EmissionStep

LEMMA TellPersonInv ==
  ASSUME Inv, NEW e \in Events, TellPerson(e)
  PROVE  Inv'
<1> DEFINE q == event[e]
           v == IF q.kind \in TellsFarmers THEN "farmers" ELSE "done"
           m == [q EXCEPT !.stage = v]
<1>1. /\ q.stage = "person" /\ Insert(e, "person", PersonOf(q)) /\ active' = active
      /\ event' = [event EXCEPT ![e].stage = v]
  BY DEF TellPerson
<1>2. v \in Stage
  BY DEF Stage
<1>3. /\ q \in Emission /\ EmissionOK(q) /\ Delivered(told, e, q)
      /\ m \in Emission /\ event' = [event EXCEPT ![e] = m]
      /\ m.stage = v /\ m.kind = q.kind /\ m.batch = q.batch
      /\ m.actor = q.actor /\ m.person = q.person /\ m.staff = q.staff
      /\ PersonOf(m) = PersonOf(q)
  <2> HIDE DEF v
  <2> QED BY <1>1, <1>2, StageFacts
<1>4. \A x \in told : x.event = e => RowOK(x, q)
  BY DEF Inv
<1>5. (v = "farmers" <=> m.kind \in TellsFarmers) /\ v \in {"farmers", "done"}
  BY <1>3
<1> HIDE DEF q, m, v
<1>6. PersonOf(q) \in SUBSET Users
  BY <1>1, <1>3, PartsNameUsers
<1>7. /\ told \subseteq told' /\ told' \subseteq Telling
      /\ inbox' \subseteq [row : Telling, read : BOOLEAN]
      /\ \A x \in told' : x \notin told => x.event = e /\ x.part = "person" /\ x.to \in PersonOf(q)
      /\ \A u \in PersonOf(q) : Row(e, "person", u) \in told'
  BY <1>1, <1>6, InsertFacts DEF Part
<1>8. EmissionOK(m)
  <2>1. v = "farmers" => m.kind \notin Addressed
    BY <1>5 DEF TellsFarmers, Addressed
  <2> QED BY <1>1, <1>3, <1>5, <2>1 DEF EmissionOK
<1>9. Delivered(told', e, m)
  <2>1. \A u \in q.staff : Row(e, "staff", u) \in told
    BY <1>1, <1>3 DEF Delivered
  <2> QED BY <1>3, <1>5, <1>7, <2>1 DEF Delivered
<1>10. \A x \in told' : x.event = e => RowOK(x, m)
  BY <1>1, <1>3, <1>4, <1>5, <1>7 DEF RowOK
<1>11. active' \subseteq Users
  BY <1>1 DEF Inv, TypeOK
<1> QED BY <1>3, <1>7, <1>8, <1>9, <1>10, <1>11, EmissionStep

LEMMA TellFarmersInv ==
  ASSUME Inv, NEW e \in Events, TellFarmers(e)
  PROVE  Inv'
<1> DEFINE q == event[e]
           m == [q EXCEPT !.stage = "done"]
<1>1. /\ q.stage = "farmers" /\ Insert(e, "farmers", ContributingFarmers(q))
      /\ active' = active
  BY DEF TellFarmers
<1>2. /\ q \in Emission /\ EmissionOK(q) /\ Delivered(told, e, q)
      /\ m \in Emission /\ event' = [event EXCEPT ![e] = m]
      /\ m.stage = "done" /\ m.kind = q.kind /\ m.batch = q.batch
      /\ m.actor = q.actor /\ m.person = q.person /\ m.staff = q.staff
      /\ PersonOf(m) = PersonOf(q)
      /\ ContributingFarmers(m) = ContributingFarmers(q)
  BY StageFacts DEF TellFarmers, Stage
<1>3. \A x \in told : x.event = e => RowOK(x, q)
  BY DEF Inv
<1> HIDE DEF q, m
<1>4. q.kind \in TellsFarmers /\ ContributingFarmers(q) \in SUBSET Users
  <2>1. q.kind \in TellsFarmers
    BY <1>1, <1>2 DEF EmissionOK
  <2> QED BY <1>1, <1>2, <2>1, PartsNameUsers
<1>5. /\ told \subseteq told' /\ told' \subseteq Telling
      /\ inbox' \subseteq [row : Telling, read : BOOLEAN]
      /\ \A x \in told' : x \notin told =>
           x.event = e /\ x.part = "farmers" /\ x.to \in ContributingFarmers(q)
      /\ \A u \in ContributingFarmers(q) : Row(e, "farmers", u) \in told'
  BY <1>1, <1>4, InsertFacts DEF Part
<1>6. EmissionOK(m)
  BY <1>1, <1>2 DEF EmissionOK
<1>7. Delivered(told', e, m)
  <2>1. /\ \A u \in q.staff : Row(e, "staff", u) \in told
        /\ \A u \in PersonOf(q) : Row(e, "person", u) \in told
    BY <1>1, <1>2 DEF Delivered
  <2> QED BY <1>2, <1>5, <2>1 DEF Delivered
<1>8. \A x \in told' : x.event = e => RowOK(x, m)
  BY <1>1, <1>2, <1>3, <1>4, <1>5 DEF RowOK
<1>9. active' \subseteq Users
  BY <1>1 DEF Inv, TypeOK
<1> QED BY <1>2, <1>5, <1>6, <1>7, <1>8, <1>9, EmissionStep

LEMMA FailInv ==
  ASSUME Inv, NEW e \in Events, Fail(e)
  PROVE  Inv'
<1> DEFINE q == event[e]
           m == [q EXCEPT !.stage = "failed"]
<1>1. /\ q.stage \in {"resolve", "staff", "person", "farmers"}
      /\ UNCHANGED <<active, inbox, told>>
  BY DEF Fail
<1>2. /\ EmissionOK(q)
      /\ m \in Emission /\ event' = [event EXCEPT ![e] = m]
      /\ m.stage = "failed" /\ m.kind = q.kind /\ m.batch = q.batch
      /\ m.actor = q.actor /\ m.person = q.person /\ m.staff = q.staff
      /\ PersonOf(m) = PersonOf(q)
  BY StageFacts DEF Fail, Stage
<1>3. \A x \in told : x.event = e => RowOK(x, q)
  BY DEF Inv
<1> HIDE DEF q, m
<1>4. EmissionOK(m)
  BY <1>1, <1>2 DEF EmissionOK
<1>5. Delivered(told', e, m)
  BY <1>2 DEF Delivered
<1>6. \A x \in told' : x.event = e => RowOK(x, m)
  BY <1>1, <1>2, <1>3 DEF RowOK
<1>7. /\ active' \subseteq Users /\ inbox' \subseteq [row : Telling, read : BOOLEAN]
      /\ told \subseteq told' /\ told' \subseteq Telling /\ \A x \in told' : x \in told
  BY <1>1 DEF Inv, TypeOK
<1> QED BY <1>2, <1>4, <1>5, <1>6, <1>7, EmissionStep

-----------------------------------------------------------------------------
(* Reading moves no emission. *)

LEMMA InboxStep ==
  ASSUME Inv, UNCHANGED <<active, event, told>>,
         inbox' \subseteq [row : Telling, read : BOOLEAN]
  PROVE  Inv'
BY DEF Inv, TypeOK, Delivered

LEMMA ReadingInv ==
  ASSUME Inv, NEW u \in Readers,
         \/ MarkAllAsRead(u)
         \/ \E n \in inbox : MarkAsRead(u, n) \/ Delete(u, n)
  PROVE  Inv'
<1> DEFINE Rows == [row : Telling, read : BOOLEAN]
<1>1. inbox \subseteq Rows
  BY DEF Inv, TypeOK
<1>2. \A n \in Rows : [n EXCEPT !.read = TRUE] \in Rows
  OBVIOUS
<1> HIDE DEF Rows
<1>3. CASE MarkAllAsRead(u)
  <2>1. CountUnread(u) \subseteq Rows
    BY <1>1 DEF CountUnread, ListForUser
  <2>2. inbox' \subseteq Rows
    BY <1>1, <1>2, <1>3, <2>1 DEF MarkAllAsRead
  <2> QED BY <1>3, <2>2, InboxStep DEF MarkAllAsRead, Rows
<1>4. ASSUME NEW n \in inbox, MarkAsRead(u, n) \/ Delete(u, n) PROVE Inv'
  <2>1. inbox' \subseteq Rows
    BY <1>1, <1>2, <1>4 DEF MarkAsRead, Delete
  <2> QED BY <1>4, <2>1, InboxStep DEF MarkAsRead, Delete, Rows
<1> QED BY <1>3, <1>4

-----------------------------------------------------------------------------
LEMMA NextInv == Inv /\ [Next]_vars => Inv'
<1> SUFFICES ASSUME Inv, [Next]_vars PROVE Inv'
  OBVIOUS
<1>1. CASE UNCHANGED vars
  BY <1>1 DEF vars, Inv, TypeOK, Delivered
<1>2. ASSUME NEW e \in Events, NEW b \in Batches, NEW a \in Users,
             NEW p \in Users \cup {None},
             DeliveryCreated(e, b, a, p) \/ TransferConfirmed(e, b, a, p)
      PROVE  Inv'
  BY <1>2, DeliveryCreatedInv, TransferConfirmedInv
<1>3. ASSUME NEW e \in Events, NEW b \in Batches, NEW a \in Users,
             \/ DeliveriesAssigned(e, b, a) \/ BatchStatusChanged(e, b, a)
             \/ ProcessingRecorded(e, b, a) \/ WarehouseStored(e, b, a)
             \/ TransferInitiated(e, b, a)
      PROVE  Inv'
  BY <1>3, StaffAffairInv
     DEF DeliveriesAssigned, BatchStatusChanged, ProcessingRecorded,
         WarehouseStored, TransferInitiated
<1>4. ASSUME NEW e \in Events, NEW a \in Users, NEW u \in Users,
             NEW on \in BOOLEAN, SetUserStatus(e, a, u, on)
      PROVE  Inv'
  BY <1>4, SetUserStatusInv
<1>5. ASSUME NEW e \in Events, NEW a \in Users, NEW u \in Users, Announce(e, a, u)
      PROVE  Inv'
  <2>1. /\ Unused(e) /\ Begin(e, "person", "announcement", None, a, u)
        /\ UNCHANGED <<inbox, told>> /\ active' \subseteq Users
    BY <1>5 DEF Announce, Inv, TypeOK
  <2> QED BY <2>1, AddressedInv
<1>6. ASSUME NEW e \in Events, NEW a \in Users, Maintenance(e, a)
      PROVE  Inv'
  <2>1. /\ Unused(e) /\ Begin(e, "resolve", "system", None, a, None)
        /\ UNCHANGED <<inbox, told>> /\ active' \subseteq Users
    BY <1>6 DEF Maintenance, Inv, TypeOK
  <2> QED BY <2>1, AddressedInv
<1>7. ASSUME NEW e \in Events,
             Resolve(e) \/ TellStaff(e) \/ TellPerson(e) \/ TellFarmers(e) \/ Fail(e)
      PROVE  Inv'
  BY <1>7, ResolveInv, TellStaffInv, TellPersonInv, TellFarmersInv, FailInv
<1>8. ASSUME NEW u \in Readers,
             \/ MarkAllAsRead(u)
             \/ \E n \in inbox : MarkAsRead(u, n) \/ Delete(u, n)
      PROVE  Inv'
  BY <1>8, ReadingInv
<1> QED BY <1>1, <1>2, <1>3, <1>4, <1>5, <1>6, <1>7, <1>8 DEF Next

\* However emissions, failures, suspensions and reading interleave, a row was
\* written by its own part of an emission and after that part's turn, and a part
\* whose turn is over has told everybody.
THEOREM Invariance == Spec => []Inv
<1> QED BY InitInv, NextInv, PTL DEF Spec

\* Every variable keeps its type (notification.service.ts).
THEOREM TypeSafe == Spec => []TypeOK
<1>1. Inv => TypeOK
  BY DEF Inv
<1> QED BY <1>1, Invariance, PTL

LEMMA InvToldOnce == Inv => ToldOnce
<1> SUFFICES ASSUME Inv PROVE ToldOnce
  OBVIOUS
<1>1. ASSUME NEW x \in told
      PROVE  LET m == event[x.event]
             IN  /\ x \in Telling /\ m \in Emission /\ EmissionOK(m) /\ RowOK(x, m)
                 /\ m.stage # "none"
  <2>1. x \in Telling
    BY DEF Inv, TypeOK
  <2>2. x.event \in Events
    BY <2>1 DEF Telling
  <2> QED BY <2>1, <2>2 DEF Inv, TypeOK, RowOK
<1>2. ASSUME NEW x \in told, NEW y \in told, x.event = y.event, x.to = y.to
      PROVE  x.part = y.part
  <2> DEFINE m == event[x.event]
  <2>1. /\ x \in Telling /\ y \in Telling /\ m \in Emission /\ EmissionOK(m)
        /\ RowOK(x, m) /\ RowOK(y, m) /\ m.stage # "none"
    BY <1>1, <1>2
  <2>2. x.part \in Part /\ y.part \in Part /\ x.to \in Users
    BY <2>1 DEF Telling
  <2> HIDE DEF m
  <2>3. m.kind \in TellsFarmers => m.batch \in Batches /\ m.kind # "system"
    BY <2>1 DEF EmissionOK, TellsFarmers, OfBatch
  <2>4. ASSUME NEW a \in told, NEW b \in told, RowOK(a, m), RowOK(b, m),
               a.part = "staff", b.part = "farmers", a.to = b.to
        PROVE  FALSE
    <3>1. a.to \in m.staff /\ b.to \in Contributors[m.batch] /\ m.kind \in TellsFarmers
      BY <2>4 DEF RowOK, ContributingFarmers
    <3>2. RoleOf[a.to] \in OPS_ROLES
      BY <2>1, <2>3, <3>1 DEF EmissionOK
    <3>3. RoleOf[b.to] = "FARMER"
      BY <2>3, <3>1, NoticesAssumption
    <3> QED BY <2>4, <3>2, <3>3 DEF OPS_ROLES
  <2>5. ASSUME NEW a \in told, NEW b \in told, RowOK(a, m), RowOK(b, m),
               a.part = "person", b.part = "farmers", a.to = b.to
        PROVE  FALSE
    <3>1. a.to \in PersonOf(m) /\ b.to \in Contributors[m.batch] /\ m.kind \in TellsFarmers
      BY <2>5 DEF RowOK, ContributingFarmers
    <3>2. m.kind = "transferConfirmed" /\ a.to = m.person /\ m.person # None
      BY <3>1 DEF PersonOf, TellsFarmers
    <3>3. RoleOf[a.to] \in STAFF_ROLES
      BY <2>1, <3>2 DEF EmissionOK, MayActOn
    <3>4. RoleOf[b.to] = "FARMER"
      BY <2>3, <3>1, NoticesAssumption
    <3> QED BY <2>5, <3>3, <3>4 DEF STAFF_ROLES
  <2>6. ASSUME NEW a \in told, NEW b \in told, RowOK(a, m), RowOK(b, m),
               a.part = "staff", b.part = "person", a.to = b.to
        PROVE  FALSE
    <3>1. a.to \in m.staff /\ b.to \in PersonOf(m)
      BY <2>6 DEF RowOK
    <3>2. m.kind # "transferConfirmed"
      BY <2>6, <3>1 DEF PersonOf
    <3>3. m.kind \notin Addressed
      BY <2>1, <3>1 DEF EmissionOK
    <3>4. m.kind = "deliveryCreated" /\ b.to = m.person /\ m.person # None
      BY <3>1, <3>2, <3>3 DEF PersonOf, Addressed
    <3>5. RoleOf[b.to] = "FARMER" /\ RoleOf[a.to] \in OPS_ROLES
      BY <2>1, <3>1, <3>4 DEF EmissionOK
    <3> QED BY <2>6, <3>5 DEF OPS_ROLES
  <2> QED BY <1>2, <2>1, <2>2, <2>4, <2>5, <2>6 DEF Part
<1>3. ASSUME NEW x \in told, NEW y \in told, x.event = y.event, x.to = y.to
      PROVE  x = y
  <2>1. x \in Telling /\ y \in Telling
    BY <1>1
  <2>2. x.part = y.part
    BY <1>2, <1>3
  <2> QED BY <1>3, <2>1, <2>2 DEF Telling
<1>4. ASSUME NEW x \in told, event[x.event].kind # "announcement"
      PROVE  x.to # event[x.event].actor
  <2> DEFINE m == event[x.event]
  <2>1. /\ x \in Telling /\ EmissionOK(m) /\ RowOK(x, m) /\ m.stage # "none"
    BY <1>1
  <2>2. m.kind # "announcement"
    BY <1>4
  <2>3. x.part \in Part
    BY <2>1 DEF Telling
  <2> SUFFICES x.to # m.actor
    OBVIOUS
  <2> HIDE DEF m
  <2>4. CASE x.part = "staff"
    BY <2>1, <2>4 DEF EmissionOK, RowOK
  <2>5. CASE x.part = "farmers"
    BY <2>1, <2>5 DEF RowOK, ContributingFarmers
  <2>6. CASE x.part = "person"
    <3>1. x.to \in PersonOf(m)
      BY <2>1, <2>6 DEF RowOK
    <3>2. m.kind = "userStatus" => m.person # m.actor
      BY <2>1 DEF EmissionOK
    <3> QED BY <2>2, <3>1, <3>2 DEF PersonOf
  <2> QED BY <2>3, <2>4, <2>5, <2>6 DEF Part
<1> QED BY <1>3, <1>4 DEF ToldOnce

\* Nobody is told of one operation twice, nor of what they did themselves,
\* though the recipients' accounts change between the query and the inserts:
\* the initiator is compared with the recipients found, not with the accounts.
THEOREM ToldOnceSafe == Spec => []ToldOnce
<1> QED BY InvToldOnce, Invariance, PTL

LEMMA InvOutcomeHeard == Inv => OutcomeHeard
<1> SUFFICES ASSUME Inv, NEW e \in Events,
                    event[e].kind = "transferConfirmed", event[e].stage = "done",
                    NEW u \in (Contributors[event[e].batch] \cup {event[e].person})
                                 \ {None, event[e].actor}
             PROVE  \E x \in told : x.event = e /\ x.to = u
  BY DEF OutcomeHeard
<1> DEFINE m == event[e]
<1>1. Delivered(told, e, m) /\ m.kind = "transferConfirmed" /\ m.stage = "done"
  BY DEF Inv
<1>2. \A part : Row(e, part, u).event = e /\ Row(e, part, u).to = u
  BY DEF Row
<1>3. u \in (Contributors[m.batch] \cup {m.person}) \ {None, m.actor}
  OBVIOUS
<1> HIDE DEF m
<1>4. CASE u \in Contributors[m.batch]
  <2>1. u \in ContributingFarmers(m)
    BY <1>3, <1>4 DEF ContributingFarmers
  <2>2. Row(e, "farmers", u) \in told
    BY <1>1, <2>1 DEF Delivered, TellsFarmers
  <2> QED BY <1>2, <2>2
<1>5. CASE u = m.person /\ u \in m.staff
  <2>1. Row(e, "staff", u) \in told
    BY <1>1, <1>5 DEF Delivered
  <2> QED BY <1>2, <2>1
<1>6. CASE u = m.person /\ u \notin m.staff
  <2>1. u \in PersonOf(m)
    BY <1>1, <1>3, <1>6 DEF PersonOf
  <2>2. Row(e, "person", u) \in told
    BY <1>1, <2>1 DEF Delivered
  <2> QED BY <1>2, <2>2
<1> QED BY <1>3, <1>4, <1>5, <1>6

\* An emission of a confirmed sale that ran to its end has told the farmers
\* whose coffee it was and whoever opened the transfer (notifyTransferConfirmed).
THEOREM OutcomeSafe == Spec => []OutcomeHeard
<1> QED BY InvOutcomeHeard, Invariance, PTL

LEMMA InvStaysInCooperative == Inv => StaysInCooperative
<1> SUFFICES ASSUME Inv, NEW x \in told, event[x.event].batch # None
             PROVE  LET m == event[x.event]
                    IN  \/ CoopOf[x.to] = BatchCoop[m.batch]
                        \/ RoleOf[x.to] = "SUPER_ADMIN" /\ x.to = m.person
  BY DEF StaysInCooperative
<1> DEFINE m == event[x.event]
<1>1. x \in Telling
  BY DEF Inv, TypeOK
<1>2. x.event \in Events /\ x.part \in Part /\ x.to \in Users
  BY <1>1 DEF Telling
<1>3. EmissionOK(m) /\ RowOK(x, m) /\ m.stage # "none" /\ m.batch # None
  BY <1>2 DEF Inv, RowOK
<1> SUFFICES \/ CoopOf[x.to] = BatchCoop[m.batch]
             \/ RoleOf[x.to] = "SUPER_ADMIN" /\ x.to = m.person
  OBVIOUS
<1> HIDE DEF m
<1>4. m.kind \in OfBatch /\ m.batch \in Batches
  BY <1>3 DEF EmissionOK
<1>5. CASE x.part = "staff"
  <2>1. x.to \in m.staff /\ m.kind # "system"
    BY <1>3, <1>4, <1>5 DEF RowOK, OfBatch
  <2> QED BY <1>3, <2>1 DEF EmissionOK
<1>6. CASE x.part = "farmers"
  <2>1. x.to \in Contributors[m.batch]
    BY <1>3, <1>6 DEF RowOK, ContributingFarmers
  <2> QED BY <1>4, <2>1, NoticesAssumption
<1>7. CASE x.part = "person"
  <2>1. x.to \in PersonOf(m) /\ x.to # None
    BY <1>2, <1>3, <1>7, NoneIsNoUser DEF RowOK
  <2>2. x.to = m.person
    BY <2>1 DEF PersonOf
  <2>3. CASE m.kind = "deliveryCreated"
    BY <1>3, <2>1, <2>2, <2>3 DEF EmissionOK
  <2>4. CASE m.kind = "transferConfirmed"
    <3>1. MayActOn(x.to, m.batch)
      BY <1>3, <2>1, <2>2, <2>4 DEF EmissionOK
    <3> QED BY <2>2, <3>1 DEF MayActOn, AssertOwnership, SettingsOf
  <2>5. m.kind \in {"deliveryCreated", "transferConfirmed"}
    BY <1>4, <2>1 DEF PersonOf, OfBatch
  <2> QED BY <2>3, <2>4, <2>5
<1> QED BY <1>2, <1>5, <1>6, <1>7 DEF Part

\* An operation's notices stay inside its cooperative, whoever acts and whoever
\* opened the sale; the platform's owner alone hears from outside, and only of a
\* sale it opened (recipientsIn, assertCooperativeOwnership).
THEOREM CoopSafe == Spec => []StaysInCooperative
<1> QED BY InvStaysInCooperative, Invariance, PTL
=============================================================================
