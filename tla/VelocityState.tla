--------------------------- MODULE VelocityState ----------------------------
(***************************************************************************)
(* The per-key velocity state of internal/features: the exact history of a *)
(* key and its bucketed approximation, behind one keyed store with an idle *)
(* time, eviction and snapshots.                                           *)
(*                                                                         *)
(* An event is [t, milli, card].  Both entries keep running totals per     *)
(* window; a read takes back what has left a window without writing, and   *)
(* the next add commits the same walk.                                     *)
(***************************************************************************)
EXTENDS Integers, Sequences, FiniteSets, FiniteSetsExt, SequencesExt, Functions

CONSTANTS Windows,        \* lengths of the trailing windows, increasing
          DistinctWindow, \* the window distinct cards are counted in
          TTL,            \* a key idle this long is forgotten
          Plan,           \* bucket width per window, dividing it
          DistinctCap,    \* distinct cards a bucketed key counts at most
          CardSlack,      \* entries its card map may hold besides twice those it counts
          NoCard          \* the card of an event without one

W == DOMAIN Windows
\* A map with one key set.
Put(f, x, y) == [z \in DOMAIN f \cup {x} |-> IF z = x THEN y ELSE f[z]]
Zero         == [w \in W |-> 0]
Unseen(distinct) == [seen |-> FALSE, first |-> 0, last |-> 0, count |-> Zero, sum |-> Zero,
                     distinct |-> IF distinct THEN 0 ELSE -1]
Clamped(e, ev) == IF e.started /\ ev.t < e.last THEN [ev EXCEPT !.t = e.last] ELSE ev
Touched(e, t)  == [e EXCEPT !.first = IF e.started THEN @ ELSE t, !.last = t, !.started = TRUE]

-----------------------------------------------------------------------------
(* Exact: every event of the longest window.  Sequence numbers of events   *)
(* start at base; start[w] is the oldest one still in window w.            *)

NewExact(distinct) ==
    [ev |-> <<>>, base |-> 0, start |-> Zero, count |-> Zero, milli |-> Zero,
     tracks |-> distinct, cards |-> <<>>, distinct |-> 0,
     first |-> 0, last |-> 0, started |-> FALSE]

End(e)      == e.base + Len(e.ev)
EvAt(e, s)  == e.ev[s - e.base + 1]
\* The events that have left window w since its start, oldest first.
Left(e, w, now) ==
    {s \in e.start[w] .. End(e) - 1 :
       \A r \in e.start[w] .. s : EvAt(e, r).t <= now - Windows[w]}
MilliOf(e, S)   == SumFunction([s \in S |-> EvAt(e, s).milli])
\* Of those, the ones that are the latest of their card.
AnyOfCard(e, S) == {s \in S : e.tracks /\ EvAt(e, s).card \in DOMAIN e.cards}  \* mutant
LatestOfCard(e, S) == {s \in S : /\ e.tracks /\ EvAt(e, s).card # NoCard
                                 /\ EvAt(e, s).card \in DOMAIN e.cards
                                 /\ e.cards[EvAt(e, s).card] = s}

ReadExact(e, now) ==
    [seen |-> TRUE, first |-> e.first, last |-> e.last,
     count |-> [w \in W |-> e.count[w] - Cardinality(Left(e, w, now))],
     sum   |-> [w \in W |-> e.milli[w] - MilliOf(e, Left(e, w, now))],
     distinct |-> IF e.tracks
                  THEN e.distinct - Cardinality(LatestOfCard(e, Left(e, DistinctWindow, now)))
                  ELSE -1]

\* dropOldest, for all the events gone[w] of each window w at once.
DropOldest(e, gone) ==
    LET cards == {EvAt(e, s).card : s \in LatestOfCard(e, gone[DistinctWindow])}
    IN  [e EXCEPT !.count    = [w \in W |-> @[w] - Cardinality(gone[w])],
                  !.milli    = [w \in W |-> @[w] - MilliOf(e, gone[w])],
                  !.start    = [w \in W |-> @[w] + Cardinality(gone[w])],
                  !.cards    = Restrict(@, DOMAIN @ \ cards),
                  !.distinct = @ - Cardinality(cards)]

\* expire: commit what a read at now sees, then free what no window holds.
KeepFront(e) == e  \* mutant
FreeFront(e) == LET old == e.start[Len(Windows)] - e.base
                IN  [e EXCEPT !.ev = SubSeq(@, old + 1, Len(@)), !.base = @ + old]
ExpireExact(e, now) == FreeFront(DropOldest(e, [w \in W |-> Left(e, w, now)]))

Push(e, x) ==
    LET isNew == x.card # NoCard /\ x.card \notin DOMAIN e.cards
    IN  [e EXCEPT !.ev = Append(@, x),
                  !.count = [w \in W |-> @[w] + 1],
                  !.milli = [w \in W |-> @[w] + x.milli],
                  !.distinct = IF e.tracks /\ isNew THEN @ + 1 ELSE @,
                  !.cards = IF e.tracks /\ x.card # NoCard
                            THEN Put(@, x.card, End(e)) ELSE @]

AddExact(e, ev0) == LET ev == Clamped(e, ev0)
                    IN  Touched(Push(ExpireExact(e, ev.t), ev), ev.t)

EncodeNumbered(e) == [first |-> e.first, last |-> e.last, ev |-> e.ev, tracks |-> e.tracks,
                      starts |-> e.start]  \* mutant
EncodeExact(e) == [first |-> e.first, last |-> e.last, ev |-> e.ev, tracks |-> e.tracks,
                   starts |-> [w \in W |-> e.start[w] - e.base]]
\* Starts that do not nest, or leave the front of the history unused, are refused.
Decodable(s) == /\ \A w \in W : s.starts[w] <= Len(s.ev)
                /\ \A w \in W \ {1} : s.starts[w] <= s.starts[w - 1]
                /\ s.starts[Len(Windows)] = 0
\* Totals and cards are rebuilt: every event pushed, then the starts dropped to.
StartedAnew(e, s) == [e EXCEPT !.last = s.last, !.started = TRUE]  \* mutant
Started(e, s)  == [e EXCEPT !.first = s.first, !.last = s.last, !.started = TRUE]
Pushed(e, evs) == LET upTo[n \in 0 .. Len(evs)] == IF n = 0 THEN e ELSE Push(upTo[n - 1], evs[n])
                  IN  upTo[Len(evs)]
DecodeExact(s) == DropOldest(Pushed(Started(NewExact(s.tracks), s), s.ev),
                             [w \in W |-> 0 .. s.starts[w] - 1])

-----------------------------------------------------------------------------
(* Bucketed: per window, the non-empty buckets of a fixed width, oldest    *)
(* first.  lastCards counts the cards whose latest event a bucket holds.   *)

NewBucketed(distinct) ==
    [win |-> [w \in W |-> <<>>], count |-> Zero, milli |-> Zero, tracks |-> distinct,
     cards |-> <<>>, distinct |-> 0, first |-> 0, last |-> 0, started |-> FALSE]

BucketOf(w, t)     == t \div Plan[w]
OldestWhole(w, now) == BucketOf(w, now) - Windows[w] \div Plan[w] + 1  \* mutant
Oldest(w, now)     == BucketOf(w, now) - Windows[w] \div Plan[w]
\* The buckets at the front that have left window w.
Expired(e, w, now) == {i \in DOMAIN e.win[w] : \A j \in 1 .. i : e.win[w][j].idx < Oldest(w, now)}
CountIn(q, S)      == SumFunction([i \in S |-> q[i].count])
MilliIn(q, S)      == SumFunction([i \in S |-> q[i].milli])
CardsIn(q, S)      == SumFunction([i \in S |-> q[i].lastCards])

ReadBucketed(e, now) ==
    [seen |-> TRUE, first |-> e.first, last |-> e.last,
     count |-> [w \in W |-> e.count[w] - CountIn(e.win[w], Expired(e, w, now))],
     sum   |-> [w \in W |-> e.milli[w] - MilliIn(e.win[w], Expired(e, w, now))],
     distinct |-> IF e.tracks
                  THEN e.distinct - CardsIn(e.win[DistinctWindow], Expired(e, DistinctWindow, now))
                  ELSE -1]

ExpireBucketed(e, now) ==
    LET gone == [w \in W |-> Expired(e, w, now)]
    IN  [e EXCEPT !.win   = [w \in W |-> SubSeq(@[w], Cardinality(gone[w]) + 1, Len(@[w]))],
                  !.count = [w \in W |-> @[w] - CountIn(e.win[w], gone[w])],
                  !.milli = [w \in W |-> @[w] - MilliIn(e.win[w], gone[w])],
                  !.distinct = @ - CardsIn(e.win[DistinctWindow], gone[DistinctWindow])]

\* addToBucket: one payment more in the newest bucket, a new one if it is another's.
InNewest(q, idx, milli) ==
    LET p == IF q # <<>> /\ Last(q).idx = idx THEN q
             ELSE Append(q, [idx |-> idx, count |-> 0, milli |-> 0, lastCards |-> 0])
    IN  [p EXCEPT ![Len(p)].count = @ + 1, ![Len(p)].milli = @ + milli]
AddToBuckets(e, ev) ==
    [e EXCEPT !.win   = [w \in W |-> InNewest(@[w], BucketOf(w, ev.t), ev.milli)],
              !.count = [w \in W |-> @[w] + 1],
              !.milli = [w \in W |-> @[w] + ev.milli]]

Moved(q, card, from, to) ==
    [i \in DOMAIN q |-> [q[i] EXCEPT !.lastCards = @ + (IF q[i].idx = to THEN 1 ELSE 0)
                                                     - (IF q[i].idx = from THEN 1 ELSE 0)]]
OneCardMore(q) == [q EXCEPT ![Len(q)].lastCards = @ + 1]
\* A live card moves to the newest bucket, a new one is counted up to the cap.
CountCard(e, card) ==
    LET q   == e.win[DistinctWindow]
        cur == Last(q).idx
        live == card \in DOMAIN e.cards /\ e.cards[card] >= Head(q).idx
    IN  CASE live -> [e EXCEPT !.win[DistinctWindow] = Moved(q, card, e.cards[card], cur),
                               !.cards[card] = cur]
          [] ~live /\ e.distinct < DistinctCap ->
               [e EXCEPT !.win[DistinctWindow] = OneCardMore(q),
                         !.cards = Put(@, card, cur), !.distinct = @ + 1]
          [] OTHER -> e
\* Entries of expired buckets linger until the map is mostly stale.
NeverSwept(e) == e  \* mutant
SweepCards(e) ==
    IF Cardinality(DOMAIN e.cards) <= 2 * e.distinct + CardSlack THEN e
    ELSE [e EXCEPT !.cards = Restrict(@, {c \in DOMAIN @ : @[c] >= Head(e.win[DistinctWindow]).idx})]
AddCard(e, card) == SweepCards(CountCard(e, card))

AddBucketed(e, ev0) ==
    LET ev    == Clamped(e, ev0)
        added == AddToBuckets(ExpireBucketed(e, ev.t), ev)
    IN  Touched(IF e.tracks /\ ev.card # NoCard THEN AddCard(added, ev.card) ELSE added, ev.t)

\* The buckets and the live cards; totals and lastCards are rebuilt.
EncodeBucketed(e) ==
    LET q == e.win[DistinctWindow]
    IN  [first |-> e.first, last |-> e.last, tracks |-> e.tracks,
         win   |-> [w \in W |-> [i \in DOMAIN e.win[w] |->
                      [idx |-> e.win[w][i].idx, count |-> e.win[w][i].count, milli |-> e.win[w][i].milli]]],
         cards |-> IF q = <<>> THEN <<>>
                   ELSE Restrict(e.cards, {c \in DOMAIN e.cards : e.cards[c] >= Head(q).idx})]
\* No more buckets than a window has, in order, none empty; no more cards than
\* the cap, each in a bucket of the distinct window.
DecodableBuckets(s) ==
    /\ \A w \in W : LET q == s.win[w]
                     IN  /\ Len(q) <= Windows[w] \div Plan[w] + 1
                         /\ \A i \in DOMAIN q : q[i].count > 0 /\ (i > 1 => q[i - 1].idx < q[i].idx)
    /\ Cardinality(DOMAIN s.cards) <= DistinctCap
    /\ \A c \in DOMAIN s.cards : \E i \in DOMAIN s.win[DistinctWindow] :
         s.win[DistinctWindow][i].idx = s.cards[c]
DecodeBucketed(s) ==
    LET LastIn(w, idx) == IF w = DistinctWindow THEN Cardinality({c \in DOMAIN s.cards : s.cards[c] = idx}) ELSE 0
    IN  [Started(NewBucketed(s.tracks), s) EXCEPT
           !.win   = [w \in W |-> [i \in DOMAIN s.win[w] |->
                        [idx |-> s.win[w][i].idx, count |-> s.win[w][i].count, milli |-> s.win[w][i].milli,
                         lastCards |-> LastIn(w, s.win[w][i].idx)]]],
           !.count = [w \in W |-> CountIn(s.win[w], DOMAIN s.win[w])],
           !.milli = [w \in W |-> MilliIn(s.win[w], DOMAIN s.win[w])],
           !.cards = s.cards, !.distinct = Cardinality(DOMAIN s.cards)]

-----------------------------------------------------------------------------
(* The keyed store, over either kind of entry.                             *)

Kinds == {"exact", "bucketed"}
NewEntry(kind, distinct) == IF kind = "exact" THEN NewExact(distinct) ELSE NewBucketed(distinct)
ReadEntry(kind, e, now)  == IF kind = "exact" THEN ReadExact(e, now) ELSE ReadBucketed(e, now)
AddEntry(kind, e, ev)    == IF kind = "exact" THEN AddExact(e, ev) ELSE AddBucketed(e, ev)

IsIdle(e, now)    == now - e.last >= TTL
Live(m, k, now)   == k \in DOMAIN m /\ ~IsIdle(m[k], now)

\* A key is [id, distinct], distinct for an entity that tracks cards.
Read(kind, m, k, now) == IF Live(m, k, now) THEN ReadEntry(kind, m[k], now)
                         ELSE Unseen(k.distinct)
ReadAdd(kind, m, k, ev) ==
    LET e == IF Live(m, k, ev.t) THEN m[k] ELSE NewEntry(kind, k.distinct)
    IN  [read |-> Read(kind, m, k, ev.t), m |-> Put(m, k, AddEntry(kind, e, ev))]
EvictOlder(m, now) == Restrict(m, {k \in DOMAIN m : now - m[k].last < Windows[1]})  \* mutant
EvictIdle(m, now) == Restrict(m, {k \in DOMAIN m : ~IsIdle(m[k], now)})
\* Snapshot, then Restore into an empty store.
Restarted(kind, m) == [k \in DOMAIN m |-> IF kind = "exact" THEN DecodeExact(EncodeExact(m[k]))
                                          ELSE DecodeBucketed(EncodeBucketed(m[k]))]

-----------------------------------------------------------------------------
(* What a key's history is, by definition: the events recorded since the   *)
(* key was last idle, late ones at the key's latest time.                  *)

Recorded(h, ev) ==
    IF h = <<>> \/ ev.t - Last(h).t >= TTL THEN <<ev>>
    ELSE Append(h, IF ev.t < Last(h).t THEN [ev EXCEPT !.t = Last(h).t] ELSE ev)
\* The recorded events in a window of that length at now; a late payment is
\* scored at the time it is recorded, the key's latest (engine_test.go:274).
Latest(h, now)      == IF now < Last(h).t THEN Last(h).t ELSE now
Within(h, now, length) == {i \in DOMAIN h : Latest(h, now) - length < h[i].t}
DistinctCards(h, S) == Cardinality({h[i].card : i \in S} \ {NoCard})
MilliSum(h, S)      == SumFunction([i \in S |-> h[i].milli])

HistoryRead(h, k, now) ==
    IF h = <<>> \/ now - Last(h).t >= TTL THEN Unseen(k.distinct)
    ELSE [seen |-> TRUE, first |-> h[1].t, last |-> Last(h).t,
          count |-> [w \in W |-> Cardinality(Within(h, now, Windows[w]))],
          sum   |-> [w \in W |-> MilliSum(h, Within(h, now, Windows[w]))],
          distinct |-> IF k.distinct
                       THEN DistinctCards(h, Within(h, now, Windows[DistinctWindow])) ELSE -1]

\* Bucketed may be wrong only at the trailing edge: a count and its sum are of
\* the events of one and the same window, which begins where the exact one does
\* or up to a bucket earlier (bucketed.go:35-42).  Distinct cards are at most
\* those of a window a bucket longer, and no fewer than the exact ones while the
\* key was never at the cap.
WithinABucket(h, k, now, a) ==
    LET exact == HistoryRead(h, k, now)
        Late(w, late) == Within(h, now, Windows[w] + late)
    IN  /\ a.seen = exact.seen /\ a.first = exact.first /\ a.last = exact.last
        /\ a.seen => \A w \in W : \E late \in 0 .. Plan[w] :
             /\ a.count[w] = Cardinality(Late(w, late))
             /\ a.sum[w] = MilliSum(h, Late(w, late))
        /\ a.seen /\ k.distinct =>
             /\ a.distinct <= DistinctCards(h, Late(DistinctWindow, Plan[DistinctWindow]))
             /\ DistinctCards(h, DOMAIN h) <= DistinctCap => exact.distinct <= a.distinct
=============================================================================
