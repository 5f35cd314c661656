----------------------------- MODULE MCWebhook -----------------------------
(* A payment that succeeds and a dispute on it opened and closed in the    *)
(* same second, so that reordering matters.                                *)
EXTENDS Webhook, TLC
CONSTANTS succ, open, close, noise, pay, dis
MCInfo == (succ :> [type |-> "succeeded", created |-> 1, payment |-> pay, dispute |-> Nil, status |-> "ok"])
       @@ (open :> [type |-> "created", created |-> 2, payment |-> pay, dispute |-> dis, status |-> "lost"])
       @@ (close :> [type |-> "closed", created |-> 2, payment |-> pay, dispute |-> dis, status |-> "won"])
       @@ (noise :> [type |-> "other", created |-> 2, payment |-> pay, dispute |-> dis, status |-> "ok"])
=============================================================================
