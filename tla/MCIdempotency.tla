--------------------------- MODULE MCIdempotency ----------------------------
(* Instances of Idempotency for TLC. *)
EXTENDS Idempotency, TLC

Symmetry == Permutations(Req) \cup Permutations(Key) \cup Permutations(Body)
            \cup Permutations(Shard)
=============================================================================
