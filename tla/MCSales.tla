------------------------------ MODULE MCSales -------------------------------
(* Small instances of Sales, with its reports, for TLC. *)
EXTENDS Reports, TLC

CONSTANT CapacityKg   \* the capacity every warehouse of the instance declares

MCCapacity == [w \in Warehouses |-> CapacityKg]

\* Every lot of the instance combines all its batches.
MCMembers == [g \in Lots |-> Batches]

\* The states of a season in which every batch has been processed and stored:
\* Custody reaches them, one after the other, before any sale.
StoredInit ==
  /\ status = [b \in Batches |-> "IN_STORAGE"]
  /\ total = [b \in Batches |-> 1]
  /\ processed = Batches
  /\ \E id \in [Batches -> RowIds], w \in Warehouses :
       /\ \A a, b \in Batches : id[a] = id[b] => a = b
       /\ inventory = [i \in RowIds |->
            IF \E b \in Batches : id[b] = i
            THEN [batch |-> CHOOSE b \in Batches : id[b] = i, wh |-> w,
                  kg |-> 1, open |-> TRUE]
            ELSE NoRow]
  /\ ledger = [b \in Batches |-> {"PROCESSING_COMPLETED", "WAREHOUSE_STORED"}]
  /\ whLock = [w \in Warehouses |-> None]
  /\ req = [r \in Requests |-> Idle]
  /\ transfer = [t \in Transfers |-> NoTransfer]
  /\ lot = [g \in Lots |-> None]
  /\ handovers = [t \in Transfers |-> 0]
  /\ sale = [s \in Sellers |-> NoSale]

StoredSpec == StoredInit /\ [][SalesNext]_allVars

Symmetry == Permutations(Batches) \cup Permutations(Warehouses)
            \cup Permutations(Requests) \cup Permutations(RowIds)
            \cup Permutations(Sellers) \cup Permutations(Transfers)
=============================================================================
