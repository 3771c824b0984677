----------------------------- MODULE MCCustody ------------------------------
(* Small instances of Custody for TLC. *)
EXTENDS Custody, TLC

CONSTANT CapacityKg   \* the capacity every warehouse of the instance declares

MCCapacity == [w \in Warehouses |-> CapacityKg]

Symmetry == Permutations(Batches) \cup Permutations(Warehouses)
            \cup Permutations(Requests) \cup Permutations(RowIds)
=============================================================================
