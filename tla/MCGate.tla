------------------------------- MODULE MCGate -------------------------------
(* Small instances of Gate for TLC. *)
EXTENDS Gate, TLC

CONSTANTS
  LongTTL, ShortTTL,   \* the times to live, CACHE_TTL_MS the longer
  Writer               \* a server that changes rows and takes no other request

MCTTL == [k \in Rows |-> IF k = "matrix" THEN LongTTL ELSE ShortTTL]

WriterOnlyWrites == \A r \in Requests :
  req[r].server = Writer => req[r].stage = "invalidate"

\* In one behaviour one of the rows changes, any number of times.
OneRowChanges == \A j, k \in Rows : by[j] # None /\ by[k] # None => j = k

InstanceSpec == Init /\ [][Next /\ WriterOnlyWrites' /\ OneRowChanges']_vars

Symmetry == Permutations(Requests)
=============================================================================
