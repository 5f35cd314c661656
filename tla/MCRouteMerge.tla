---------------------------- MODULE MCRouteMerge ----------------------------
(* Instances of RouteMerge for TLC. *)
EXTENDS RouteMerge, TLC

CONSTANTS a1, a2

RouterSymmetry == Permutations(Router)

(* One entity: a payment's key hashes to a1. *)
OneRoute == {[e \in Entity |-> a1]}
(* Two entities: both keys on one aggregator partition, one on each, or    *)
(* the second absent.                                                      *)
SharedSplitOrAbsent ==
    {[e \in Entity |-> IF e = 0 THEN a1 ELSE b] : b \in {a1, a2, None}}
=============================================================================
