---------------------------- MODULE BatchStatus -----------------------------
(***************************************************************************)
(* The vocabulary of a coffee batch's life, as coffeeBatch.service.ts      *)
(* declares it: its statuses and the table of legal moves between them.    *)
(***************************************************************************)

(* The BatchStatus enumeration. *)
Status == {"REGISTERED", "IN_PROCESSING", "PROCESSED", "IN_STORAGE",
           "IN_TRANSIT", "SOLD", "EXPORTED", "REJECTED"}

(* ALLOWED_TRANSITIONS: the statuses a batch may move to from each one. *)
AllowedTransitions ==
  [s \in Status |->
     CASE s = "REGISTERED"    -> {"IN_PROCESSING", "REJECTED"}
       [] s = "IN_PROCESSING" -> {"PROCESSED", "REJECTED"}
       [] s = "PROCESSED"     -> {"IN_STORAGE", "REJECTED"}
       [] s = "IN_STORAGE"    -> {"IN_TRANSIT", "SOLD", "REJECTED"}
       [] s = "IN_TRANSIT"    -> {"SOLD", "IN_STORAGE"}
       [] s = "SOLD"          -> {"EXPORTED"}
       [] s \in {"EXPORTED", "REJECTED"} -> {}]

\* Statuses a batch reaches only through a warehouse.
PastStorage == {"IN_STORAGE", "IN_TRANSIT", "SOLD", "EXPORTED"}

\* Statuses a batch reaches only through a processing run.
PastProcessing == {"IN_PROCESSING", "PROCESSED"} \cup PastStorage
=============================================================================
