------------------------------ MODULE Scoring ------------------------------
(***************************************************************************)
(* What the pipeline promises about decisions: every payment is decided    *)
(* once (a decision sent again is the same decision), on exactly the       *)
(* features one engine computes that scores the payments one after the     *)
(* other in event-time order (internal/features/replay.go and engine.go,   *)
(* ScoreAndUpdate), whatever is partitioned, sent again or restarted.      *)
(***************************************************************************)
EXTENDS Naturals, FiniteSets

CONSTANTS Payments,   \* payments are numbered in event-time order
          Entities,
          Key,        \* [Payments -> [Entities -> keys and NoKey]]
          NoKey

VARIABLE decided      \* [Payments -> the contents of its decisions]

(* The velocity state of one key is the set of payments added to it; an    *)
(* entity without a key has no features.                                   *)
NoFeatures == {0}

(* The state of a key once the payments before p have been added to it.    *)
StateBefore(p, e) == {q \in Payments : q < p /\ Key[q][e] = Key[p][e]}

ScoreAndUpdate(p) ==
  [payment |-> p,
   features |-> [e \in Entities |-> IF Key[p][e] = NoKey THEN NoFeatures ELSE StateBefore(p, e)]]

Init == decided = [p \in Payments |-> {}]

Decide(p) ==
  /\ decided[p] = {}
  /\ decided' = [decided EXCEPT ![p] = {ScoreAndUpdate(p)}]

Next == \E p \in Payments : Decide(p)

Safety == Init /\ [][Next]_decided

Spec == Safety /\ \A p \in Payments : WF_decided(Decide(p))
=============================================================================
