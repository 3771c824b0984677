--------------------------- MODULE LedgerHistory ----------------------------
(***************************************************************************)
(* What the ledger of a batch promises its readers: a history that only    *)
(* grows, at its end, and in which an event is settled once and for ever.  *)
(* The abstract specification that Ledger implements.                      *)
(***************************************************************************)
EXTENDS Sequences, Integers

CONSTANTS Batches, Payloads

VARIABLE history   \* batch -> the events a reader sees, oldest first

Entry == [payload : Payloads, status : {"PENDING", "CONFIRMED", "FAILED"}]

Init == history = [b \in Batches |-> <<>>]

Record(b, p) ==
  history' = [history EXCEPT ![b] = Append(@, [payload |-> p, status |-> "PENDING"])]

Settle(b, i, s) ==
  /\ i \in DOMAIN history[b]
  /\ history[b][i].status = "PENDING"
  /\ history' = [history EXCEPT ![b][i].status = s]

Next ==
  \E b \in Batches :
    \/ \E p \in Payloads : Record(b, p)
    \/ \E i \in DOMAIN history[b], s \in {"CONFIRMED", "FAILED"} : Settle(b, i, s)

Spec == Init /\ [][Next]_history
=============================================================================
