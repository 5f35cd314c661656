------------------------------ MODULE MCJoiner ------------------------------
(* Two payments of one source share a card; only the second has an email.  *)
(* Cards and emails live on different aggregators.                         *)
EXTENDS Joiner, TLC
CONSTANTS s1, a1, a2, card, email, k1, k2
MCKey == (1 :> (card :> k1 @@ email :> NoKey)) @@ (2 :> (card :> k1 @@ email :> k2))
MCOf == s1 :> <<1, 2>>
MCAggOf == k1 :> a1 @@ k2 :> a2
MCReleased == a1 :> <<<<1, card>>, <<2, card>>>> @@ a2 :> <<<<2, email>>>>
=============================================================================
