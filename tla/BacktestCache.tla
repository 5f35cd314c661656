--------------------------- MODULE BacktestCache ---------------------------
(***************************************************************************)
(* The cached Backtester of internal/service/backtests.go.  A request asks *)
(* for the rule version it read; the label version is read before the lock *)
(* and names what is cached, while the labels themselves are laid over the *)
(* table later, under the lock, when webhooks may have added more.         *)
(*                                                                         *)
(* A Backtester is the rule version and the labels it was built from; the  *)
(* label store is the number of its changes.                               *)
(***************************************************************************)
EXTENDS Integers

CONSTANTS Testers, MaxLabels, MaxRules, MaxTests, Nothing

VARIABLES
  labelVersion,   \* LabelStore.version: one per change
  liveRules,      \* the live rule version
  cached,         \* [rules, labels] the Backtester was built from, or Nothing
  cachedRules, cachedLbls,
  tester,         \* [Testers -> [at, rules, lv, got]]
  holder,         \* the request that holds mu, or Nothing
  tests

cacheVars == <<labelVersion, liveRules, cached, cachedRules, cachedLbls, tester, holder, tests>>

LabelChange ==
  /\ labelVersion < MaxLabels
  /\ labelVersion' = labelVersion + 1
  /\ UNCHANGED <<liveRules, cached, cachedRules, cachedLbls, tester, holder, tests>>

DeployRules ==
  /\ liveRules < MaxRules
  /\ liveRules' = liveRules + 1
  /\ UNCHANGED <<labelVersion, cached, cachedRules, cachedLbls, tester, holder, tests>>

(* The handler loads the live rules; get then reads the label version. *)
Request(t) ==
  /\ tester[t].at = "idle" /\ tests < MaxTests
  /\ tests' = tests + 1
  /\ tester' = [tester EXCEPT ![t] = [at |-> "labels", rules |-> liveRules, lv |-> 0, got |-> Nothing]]
  /\ UNCHANGED <<labelVersion, liveRules, cached, cachedRules, cachedLbls, holder>>

ReadVersion(t) ==
  /\ tester[t].at = "labels"
  /\ tester' = [tester EXCEPT ![t] = [@ EXCEPT !.at = "lock", !.lv = labelVersion]]
  /\ UNCHANGED <<labelVersion, liveRules, cached, cachedRules, cachedLbls, holder, tests>>

(* What makes the cached Backtester good for a request. *)
Hit(t) == cached # Nothing /\ cachedRules = tester[t].rules /\ cachedLbls = tester[t].lv

Lookup(t) ==
  /\ tester[t].at = "lock" /\ holder = Nothing
  /\ IF Hit(t)
     THEN /\ tester' = [tester EXCEPT ![t] = [@ EXCEPT !.at = "idle", !.got = cached]]
          /\ UNCHANGED holder
     ELSE /\ tester' = [tester EXCEPT ![t].at = "overlay"]
          /\ holder' = t
  /\ UNCHANGED <<labelVersion, liveRules, cached, cachedRules, cachedLbls, tests>>

(* labels.Known takes the label store's mutex once. *)
Overlay(t) ==
  /\ tester[t].at = "overlay"
  /\ tester' = [tester EXCEPT ![t] = [@ EXCEPT !.at = "store",
                  !.got = [rules |-> tester[t].rules, labels |-> labelVersion]]]
  /\ UNCHANGED <<labelVersion, liveRules, cached, cachedRules, cachedLbls, holder, tests>>

(* The version the Backtester is filed under. *)
VersionNow(t) == labelVersion
VersionRead(t) == tester[t].lv

Store(t) ==
  /\ tester[t].at = "store"
  /\ cached' = tester[t].got
  /\ cachedRules' = tester[t].rules
  /\ cachedLbls' = VersionRead(t)
  /\ holder' = Nothing
  /\ tester' = [tester EXCEPT ![t].at = "idle"]
  /\ UNCHANGED <<labelVersion, liveRules, tests>>

CacheInit ==
  /\ labelVersion = 0 /\ liveRules = 1 /\ cached = Nothing /\ cachedRules = 0 /\ cachedLbls = 0
  /\ tester = [t \in Testers |-> [at |-> "idle", rules |-> 0, lv |-> 0, got |-> Nothing]]
  /\ holder = Nothing /\ tests = 0

CacheNext ==
  \/ LabelChange \/ DeployRules
  \/ \E t \in Testers : Request(t) \/ ReadVersion(t) \/ Lookup(t) \/ Overlay(t) \/ Store(t)

CacheSpec == CacheInit /\ [][CacheNext]_cacheVars

-----------------------------------------------------------------------------
(* A backtest never runs on stale evidence: what a request got has the     *)
(* rules it asked for and at least the labels there were when it asked,    *)
(* whoever built it and whatever arrived while it was built.               *)
NeverStale ==
  \A t \in Testers :
    tester[t].at = "idle" /\ tester[t].got # Nothing =>
      tester[t].got.rules = tester[t].rules /\ tester[t].got.labels >= tester[t].lv
=============================================================================
