----------------------------- MODULE Lifecycle ------------------------------
(***************************************************************************)
(* What the state machine of coffeeBatch.service.ts promises of a batch's  *)
(* status, whoever changes it and through whichever endpoint: it starts    *)
(* REGISTERED and every change is one legal transition.  Custody is        *)
(* checked against Spec, the abstract specification of the status column.  *)
(***************************************************************************)
EXTENDS BatchStatus

CONSTANT Batches

VARIABLE status

Init == status = [b \in Batches |-> "REGISTERED"]

\* Batch b stays where it is, or moves one legal transition on.
Move(b) == status'[b] = status[b] \/ status'[b] \in AllowedTransitions[status[b]]

\* The sale of a lot moves all its members in one commit.
Next ==
  /\ status' \in [Batches -> Status]
  /\ \A b \in Batches : Move(b)

Spec == Init /\ [][Next]_status
=============================================================================
