--------------------------- MODULE EventTimeGuard ---------------------------
(***************************************************************************)
(* Service.checkCreated of internal/service/assess.go: an event time too   *)
(* far in the future is refused before it reaches the velocity state, and  *)
(* the latest one accepted is kept in an atomic word that concurrent       *)
(* requests raise with compare-and-swap.                                   *)
(***************************************************************************)
EXTENDS Integers, FiniteSets

CONSTANTS Checks,        \* requests
          MaxCreated,    \* event times are 1..MaxCreated; later is "after the year 3000"
          MaxSkew        \* a negative skew switches the check off

VARIABLES
  wall,       \* the wall clock
  latest,     \* Service.latestCreated
  check,      \* [Checks -> [at, created, seen]]: seen is the loaded latest
  accepted    \* event times accepted, whose request returned

guardVars == <<wall, latest, check, accepted>>

Later(a, b) == IF a > b THEN a ELSE b

LoadLatest(r) ==
  /\ check[r].at = "idle"
  /\ \E c \in 1..(MaxCreated + 1) :
       check' = [check EXCEPT ![r] = [at |-> "loaded", created |-> c, seen |-> latest]]
  /\ UNCHANGED <<wall, latest, accepted>>

TooLate(r) == \/ check[r].created > MaxCreated
              \/ MaxSkew >= 0 /\ check[r].created > Later(check[r].seen, wall) + MaxSkew

RefuseLate(r) ==
  /\ check[r].at = "loaded" /\ TooLate(r)
  /\ check' = [check EXCEPT ![r].at = "refused"]
  /\ UNCHANGED <<wall, latest, accepted>>

Pass(r) ==
  /\ check[r].at = "loaded" /\ ~TooLate(r)
  /\ check' = [check EXCEPT ![r].at = "raise"]
  /\ UNCHANGED <<wall, latest, accepted>>

(* One round of the loop: done, swapped, or lost the race and loads again. *)
SwapsBlindly(r) == TRUE
Swaps(r) == latest = check[r].seen

Raise(r) ==
  LET c == check[r].created
  IN  /\ check[r].at = "raise"
      /\ IF c > check[r].seen /\ ~Swaps(r)
         THEN /\ check' = [check EXCEPT ![r].seen = latest]
              /\ UNCHANGED <<latest, accepted>>
         ELSE /\ latest' = IF c > check[r].seen THEN c ELSE latest
              /\ accepted' = accepted \cup {c}
              /\ check' = [check EXCEPT ![r].at = "accepted"]
      /\ UNCHANGED wall

WallTick ==
  /\ wall < MaxCreated
  /\ wall' = wall + 1
  /\ UNCHANGED <<latest, check, accepted>>

GuardInit ==
  /\ wall \in {0, 1} /\ latest = 0 /\ accepted = {}
  /\ check = [r \in Checks |-> [at |-> "idle", created |-> 1, seen |-> 0]]

GuardNext == WallTick \/ \E r \in Checks : LoadLatest(r) \/ RefuseLate(r) \/ Pass(r) \/ Raise(r)

GuardSpec == GuardInit /\ [][GuardNext]_guardVars

-----------------------------------------------------------------------------
(* The latest accepted event time is exact however requests race: a lost   *)
(* update would lower the bound, and refuse a replay that is in order.     *)
LatestIsMax ==
  /\ \A c \in accepted : c <= latest
  /\ latest # 0 => latest \in accepted
=============================================================================
