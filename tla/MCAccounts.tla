----------------------------- MODULE MCAccounts -----------------------------
(* Small instances of Accounts for TLC. *)
EXTENDS Accounts, TLC

CONSTANT Idlers   \* users whose account may be issued but is never used

\* An idler neither logs in nor is written to again.
IdlersUnused == \A u \in Idlers :
  /\ account[u] \in {NoAccount, FarmerUser}
  /\ \A r \in Requests : req[r].user # u

InstanceSpec == Init /\ [][Next /\ IdlersUnused']_vars

Symmetry == Permutations(Requests)
=============================================================================
