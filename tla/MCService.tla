----------------------------- MODULE MCService -----------------------------
(***************************************************************************)
(* Six parts of the service that share no state, checked in one run: the  *)
(* initial state chooses one, and only its variables ever change; the      *)
(* others stay as they start.                                              *)
(***************************************************************************)
EXTENDS DecisionLog, SyncMap, BacktestCache, EventTimeGuard, Webhook, RuleStore

CONSTANTS succ, open, close1, noise, pay, dis, t0, t1, t2, la, lb, block, trial, probe

VARIABLE part

(* A payment that succeeds, and a dispute on it that opens and closes in   *)
(* the same second, so that reordering matters.                            *)
MCInfo == [e \in {succ, open, close1, noise} |->
            CASE e = succ   -> [type |-> "succeeded", created |-> 1, payment |-> pay, dispute |-> Nil, status |-> "ok"]
              [] e = open   -> [type |-> "created", created |-> 2, payment |-> pay, dispute |-> dis, status |-> "lost"]
              [] e = close1 -> [type |-> "closed", created |-> 2, payment |-> pay, dispute |-> dis, status |-> "won"]
              [] e = noise  -> [type |-> "other", created |-> 2, payment |-> pay, dispute |-> dis, status |-> "ok"]]

(* Three rule texts, one of them needing a list only one of the two list   *)
(* sets has, a rule that stays live across versions, a shadow rule that is *)
(* dropped and comes back, and a second one beside it.                     *)
MCCompiles == ({t0, t1, t2} \X {la, lb}) \ {<<t2, lb>>}
MCBodies == {<<t0, None>>, <<t1, lb>>, <<t2, None>>}
MCLiveRules == (t0 :> {block}) @@ (t1 :> {block}) @@ (t2 :> {})
MCShadowRules == (t0 :> {}) @@ (t1 :> {trial}) @@ (t2 :> {trial, probe})

partVars == <<logVars, mapVars, cacheVars, guardVars, hookVars, ruleVars>>
vars == <<part, partVars>>

Init ==
  /\ part \in {"log", "map", "cache", "guard", "hook", "rules"}
  /\ LogInit /\ MapInit /\ CacheInit /\ GuardInit /\ HookInit /\ RulesInit
  /\ part # "guard" => wall = 0
  /\ part # "hook" => hasLog

Log == part = "log" /\ LogNext /\ UNCHANGED <<part, mapVars, cacheVars, guardVars, hookVars, ruleVars>>
Map == part = "map" /\ MapNext /\ UNCHANGED <<part, logVars, cacheVars, guardVars, hookVars, ruleVars>>
Cache == part = "cache" /\ CacheNext /\ UNCHANGED <<part, logVars, mapVars, guardVars, hookVars, ruleVars>>
Guard == part = "guard" /\ GuardNext /\ UNCHANGED <<part, logVars, mapVars, cacheVars, hookVars, ruleVars>>
Hook == part = "hook" /\ HookNext /\ UNCHANGED <<part, logVars, mapVars, cacheVars, guardVars, ruleVars>>
Rules == part = "rules" /\ RulesNext /\ UNCHANGED <<part, logVars, mapVars, cacheVars, guardVars, hookVars>>

Next == Log \/ Map \/ Cache \/ Guard \/ Hook \/ Rules

(* The goroutines of the decision log are scheduled: its writer runs, a    *)
(* request returns from put, a Sync sends when there is room and Close     *)
(* proceeds once it holds the lock.                                        *)
rest == <<part, mapVars, cacheVars, guardVars, hookVars, ruleVars>>
Fairness ==
  /\ WF_vars(part = "log" /\ Writer /\ UNCHANGED rest)
  /\ WF_vars(part = "log" /\ CloseLock /\ UNCHANGED rest)
  /\ WF_vars(part = "log" /\ CloseEnd /\ UNCHANGED rest)
  /\ \A s \in Syncers : WF_vars(part = "log" /\ SyncSend(s) /\ UNCHANGED rest)
  /\ \A p \in Putters : WF_vars(part = "log" /\ Putting(p) /\ UNCHANGED rest)

Spec == Init /\ [][Next]_vars /\ Fairness

(* A payment in put, a reader in Sync and Close all get through, also when *)
(* the channel is full, a Sync waits inside the lock and Close waits for   *)
(* it.                                                                     *)
AllReturn ==
  /\ \A p \in Putters : PutBusy(p) ~> ~PutBusy(p)
  /\ \A s \in Syncers : SyncBusy(s) ~> ~SyncBusy(s)
  /\ CloseBusy ~> ~CloseBusy
=============================================================================
