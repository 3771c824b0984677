------------------------------ MODULE MCLedger ------------------------------
(* Small instances of Ledger for TLC. *)
EXTENDS Ledger, TLC

\* SHA-256 over the joined fields, taken as injective.
MCBlockHash(prev, payload, batch, time) == <<prev, payload, batch, time>>

Symmetry == Permutations(Writers) \cup Permutations(Payloads)
            \cup Permutations(Batches)
=============================================================================
