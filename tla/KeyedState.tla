----------------------------- MODULE KeyedState -----------------------------
(***************************************************************************)
(* The keyed velocity stores of internal/features in use (keyed.go): both  *)
(* kinds side by side, fed the same payments, in any order of their times; *)
(* swept at any time, and restored from a snapshot of themselves.          *)
(*                                                                         *)
(* history is what the stores may know of a key by definition: the         *)
(* payments recorded since it was last idle or swept.                      *)
(***************************************************************************)
EXTENDS VelocityState

CONSTANTS StoreKeys,  \* [id, distinct], distinct for an entity that tracks cards
          Moments,    \* times of payments, of reads and of sweeps
          Cards,      \* of payments, NoCard among them
          Amount      \* of the n-th payment; the bound on the payments is its length

\* What init, checkTTL and NewBucketed panic about otherwise.
ASSUME ConfigAssumption ==
    /\ Windows \in Seq(Nat \ {0}) /\ Windows # <<>>
    /\ \A v, w \in W : v < w => Windows[v] < Windows[w]
    /\ DistinctWindow \in W
    /\ TTL \in Nat /\ \A w \in W : Windows[w] <= TTL
    /\ Plan \in [W -> Nat \ {0}] /\ \A w \in W : Windows[w] % Plan[w] = 0
    /\ DistinctCap \in Nat \ {0} /\ CardSlack \in Nat
ASSUME PaymentsAssumption ==
    /\ Moments \subseteq Int
    /\ Amount \in Seq(Int)  \* that of risk_fields may be negative (assess.go:257-261)
    /\ \A k \in StoreKeys : k.distinct \in BOOLEAN

VARIABLES store,      \* per kind, the entry of each key that has one
          history,
          paid        \* payments recorded so far
storeVars == <<store, history, paid>>

Event == [t : Moments, milli : Int, card : Cards]
StoreInit == /\ store = [kind \in Kinds |-> <<>>]
             /\ history = [k \in StoreKeys |-> <<>>]
             /\ paid = 0

\* ReadAdd of one payment's event for one of its keys; Amount bounds their number.
Pay(k, t, card) ==
    LET ev == [t |-> t, milli |-> Amount[paid + 1], card |-> card]
    IN  /\ paid < Len(Amount)
        /\ paid' = paid + 1
        /\ store' = [kind \in Kinds |-> ReadAdd(kind, store[kind], k, ev).m]
        /\ history' = [history EXCEPT ![k] = Recorded(@, ev)]

\* EvictIdle, at the time of whatever payment it is the turn of.
Sweep(now) ==
    /\ UNCHANGED paid
    /\ store' = [kind \in Kinds |-> EvictIdle(store[kind], now)]
    /\ history' = [k \in StoreKeys |-> IF history[k] # <<>> /\ now - Last(history[k]).t >= TTL
                                       THEN <<>> ELSE history[k]]

\* Snapshot, and Restore into an empty store.
Restart ==
    /\ UNCHANGED <<history, paid>>
    /\ store' = [kind \in Kinds |-> Restarted(kind, store[kind])]

StoreNext == \/ \E k \in StoreKeys, t \in Moments, card \in Cards : Pay(k, t, card)
             \/ \E now \in Moments : Sweep(now)
             \/ Restart
StoreSpec == StoreInit /\ [][StoreNext]_storeVars

-----------------------------------------------------------------------------
ReadOf(kind, k, now) == Read(kind, store[kind], k, now)

\* The types of the state.
TypeOK == /\ history \in [StoreKeys -> Seq(Event)]
          /\ paid \in 0 .. Len(Amount)
          /\ \A kind \in Kinds : DOMAIN store[kind] \subseteq StoreKeys

\* Running totals, walked forward by reads that commit nothing and by adds that
\* do, rebuilt by a restart: at any time the exact store reads as the history
\* says, to the payment, the cent and the card (exact.go:34-38, state.go:103-106).
ExactReads == \A k \in StoreKeys, now \in Moments :
                ReadOf("exact", k, now) = HistoryRead(history[k], k, now)

\* The bucketed store never undercounts payments, and what it counts and adds up
\* beyond the window is what is in one bucket at most (bucketed.go:35-42).
BucketedBound == \A k \in StoreKeys, now \in Moments :
                   WithinABucket(history[k], k, now, ReadOf("bucketed", k, now))

\* However many payments a key makes, what is kept of it is bounded: the exact
\* entry by the longest window, the bucketed one by its buckets and, the cards
\* no longer counted included, by the cap (exact.go:14-15, bucketed.go:28-44,
\* 195-205).
MemoryBounded ==
    /\ \A k \in DOMAIN store["exact"] :
         LET e == store["exact"][k]
         IN  \A i \in DOMAIN e.ev : e.ev[i].t > e.last - Windows[Len(Windows)]
    /\ \A k \in DOMAIN store["bucketed"] :
         LET e == store["bucketed"][k]
         IN  /\ \A w \in W : Len(e.win[w]) <= Windows[w] \div Plan[w] + 1
             /\ e.distinct <= DistinctCap
             /\ Cardinality(DOMAIN e.cards) <= 2 * DistinctCap + CardSlack

\* A snapshot is never one that Restore refuses (exact.go:191-212,
\* bucketed.go:275-307), and a store restored from it makes the same snapshot
\* (snapshot_test.go:14-16).
Restorable ==
    /\ \A k \in DOMAIN store["exact"] :
         LET s == EncodeExact(store["exact"][k])
         IN  Decodable(s) /\ EncodeExact(DecodeExact(s)) = s
    /\ \A k \in DOMAIN store["bucketed"] :
         LET s == EncodeBucketed(store["bucketed"][k])
         IN  DecodableBuckets(s) /\ EncodeBucketed(DecodeBucketed(s)) = s

\* A step that changes no answer at t.
SameAt(t) == \A kind \in Kinds, k \in StoreKeys : Read(kind, store'[kind], k, t) = ReadOf(kind, k, t)
\* A sweep frees only what any payment no earlier than it would find idle
\* (state.go:112-115), and restored stores answer as before (snapshot_test.go:18).
UpkeepInvisible ==
    [][/\ \A now \in Moments : <<Sweep(now)>>_storeVars => \A t \in Moments : t >= now => SameAt(t)
       /\ <<Restart>>_storeVars => \A t \in Moments : SameAt(t)]_storeVars
=============================================================================
