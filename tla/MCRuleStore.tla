---------------------------- MODULE MCRuleStore ----------------------------
(***************************************************************************)
(* A small instance of RuleStore: three rule texts, one of them needing a  *)
(* list only one of the two list sets has, a rule that stays live across   *)
(* versions, a shadow rule that is dropped and comes back, and a second    *)
(* one beside it.                                                          *)
(***************************************************************************)
EXTENDS RuleStore, TLC

CONSTANTS t0, t1, t2, la, lb, block, trial, probe

MCTexts == {t0, t1, t2}
MCLists == {la, lb}
MCCompiles == (MCTexts \X MCLists) \ {<<t2, lb>>}
MCBodies == {<<t0, None>>, <<t1, None>>, <<t1, lb>>, <<t2, None>>}
MCLiveRules == (t0 :> {block}) @@ (t1 :> {block}) @@ (t2 :> {})
MCShadowRules == (t0 :> {}) @@ (t1 :> {trial}) @@ (t2 :> {trial, probe})
=============================================================================
