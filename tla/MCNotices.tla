----------------------------- MODULE MCNotices ------------------------------
(* Small instances of Notices for TLC. *)
EXTENDS Notices, TLC

CONSTANTS owner, admin, staff, other, farmer, k1, k2

MCRoleOf == owner :> "SUPER_ADMIN" @@ admin :> "COOPERATIVE_ADMIN"
            @@ staff :> "COOPERATIVE_STAFF" @@ other :> "COOPERATIVE_STAFF"
            @@ farmer :> "FARMER"

MCCoopOf == owner :> None @@ admin :> k1 @@ staff :> k1 @@ other :> k2
            @@ farmer :> k1

MCBatchCoop == [b \in Batches |-> k1]

MCContributors == [b \in Batches |-> {farmer}]

Symmetry == Permutations(Events)
=============================================================================
