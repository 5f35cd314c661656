------------------------------- MODULE Sketch -------------------------------
(***************************************************************************)
(* The constant-size velocity state (features/sketch.go), shared by every  *)
(* key: count-min tables per time bucket for counts and sums, HyperLogLog  *)
(* registers for distinct cards, and a set-associative table of first and  *)
(* last times.                                                             *)
(*                                                                         *)
(* Hashing is a parameter: the cell of a key in each row, its set of the   *)
(* recency table, and a card's register and rank.  A cell holds the events *)
(* counted in it; a slot of a ring is [idx, cells].  The float64 estimate  *)
(* of a merged register file is monotone in it and is left out.            *)
(***************************************************************************)
EXTENDS Integers, Sequences, FiniteSets, FiniteSetsExt, SequencesExt, Functions

CONSTANTS SketchKeys, Windows, Plan, TTL, NoCard,
          Rows,             \* rows of the tables, with one cell per key each
          Cell(_, _),       \* the cell of a key in a row
          SetOf(_),         \* the set of the recency table a key maps to
          Ways,             \* slots of a set
          Register(_), Rank(_)   \* of a card's hash

W          == DOMAIN Windows
Empty      == 0                      \* the tag of an empty recency slot
NoBucket   == -1000
Span(w)    == Windows[w] \div Plan[w]
BucketOf(w, t) == t \div Plan[w]
CellsOf(k) == {<<r, Cell(k, r)>> : r \in Rows}
AllCells   == UNION {CellsOf(k) : k \in SketchKeys}

-----------------------------------------------------------------------------
(* A ring of span + 1 slots, one per bucket; clearing a slot takes its     *)
(* cells out of the running sum.                                           *)

Nothing     == [c \in AllCells |-> [count |-> 0, milli |-> 0]]
NewRing(w)  == [slots |-> [i \in 0 .. Span(w) |-> [idx |-> NoBucket, at |-> Nothing]],
                sum   |-> Nothing, cur |-> NoBucket]
SlotOf(w, b) == b % (Span(w) + 1)

Minus(x, y) == [c \in AllCells |-> [count |-> x[c].count - y[c].count,
                                    milli |-> x[c].milli - y[c].milli]]
Clear(r, i) == [r EXCEPT !.sum = Minus(@, r.slots[i].at),
                         !.slots[i] = [idx |-> NoBucket, at |-> Nothing]]

NoneRotated(w, r, bn) == {SlotOf(w, bn)}                           \* mutant
\* The slots that advancing to bucket bn rotates out.
Rotated(w, r, bn) == IF r.cur = NoBucket \/ bn - r.cur > Span(w) THEN DOMAIN r.slots
                     ELSE {SlotOf(w, b) : b \in r.cur + 1 .. bn}
Advance(w, r, bn) ==
    IF r.cur # NoBucket /\ bn <= r.cur THEN r
    ELSE LET cleared == FoldSet(LAMBDA i, x : Clear(x, i), r, Rotated(w, r, bn))
         IN  [cleared EXCEPT !.slots[SlotOf(w, bn)].idx = bn, !.cur = bn]

Count(x, cells, milli) == [c \in AllCells |-> IF c \in cells
                             THEN [count |-> x[c].count + 1, milli |-> x[c].milli + milli] ELSE x[c]]
AddCells(w, r, cells, milli) ==
    [r EXCEPT !.slots[SlotOf(w, r.cur)].at = Count(@, cells, milli),
              !.sum = Count(@, cells, milli)]

\* Buckets that have left the window since the last add are taken back on the fly.
Stale(w, r, now) ==
    {SlotOf(w, b) : b \in {b \in r.cur - Span(w) .. Min({r.cur, BucketOf(w, now) - Span(w) - 1}) :
                             r.slots[SlotOf(w, b)].idx = b}}
Left(w, r, now, c) == [count |-> r.sum[c].count
                         - MapThenSumSet(LAMBDA i : r.slots[i].at[c].count, Stale(w, r, now)),
                       milli |-> r.sum[c].milli
                         - MapThenSumSet(LAMBDA i : r.slots[i].at[c].milli, Stale(w, r, now))]
Estimate(w, r, cells, now) ==
    IF r.cur = NoBucket THEN [count |-> 0, milli |-> 0]
    ELSE [count |-> Min({Left(w, r, now, c).count : c \in cells}),
          milli |-> Min({Left(w, r, now, c).milli : c \in cells})]

-----------------------------------------------------------------------------
(* First and last times: a full set drops the key seen least recently.     *)

Tags(seen, k) == {i \in 1 .. Ways : seen[SetOf(k)][i].tag = k}
Lookup(s, k, now) == {i \in Tags(s.seen, k) : now - s.seen[SetOf(k)][i].last < TTL}

Oldest(set, S)   == {i \in S : \A j \in S : set[i].last <= set[j].last}
\* An empty slot, or else the one seen least recently; the first of equals.
Victim(set) ==
    LET empty == {i \in 1 .. Ways : set[i].tag = Empty}
    IN  Min(IF empty # {} THEN empty ELSE Oldest(set, 1 .. Ways))

\* A known key moves its last time, and starts over after the idle time.
Touch(seen, k, t) ==
    LET set == seen[SetOf(k)]
    IN  [seen EXCEPT ![SetOf(k)] =
           IF Tags(seen, k) # {}
           THEN [i \in 1 .. Ways |->
                   IF i \notin Tags(seen, k) THEN set[i]
                   ELSE [tag |-> k, last |-> t,
                         first |-> IF t - set[i].last >= TTL THEN t ELSE set[i].first]]
           ELSE [set EXCEPT ![Victim(set)] = [tag |-> k, first |-> t, last |-> t]]]

-----------------------------------------------------------------------------
(* Distinct cards: the highest rank seen per register, per bucket and cell.*)

NewHLL(w) == [slots |-> [i \in 0 .. Span(w) |-> [idx |-> NoBucket, at |-> {}]], cur |-> NoBucket]
AdvanceHLL(w, r, bn) ==
    IF r.cur # NoBucket /\ bn <= r.cur THEN r
    ELSE LET gone == Rotated(w, r, bn)
         IN  [slots |-> [i \in DOMAIN r.slots |->
                           [idx |-> IF i = SlotOf(w, bn) THEN bn
                                    ELSE IF i \in gone THEN NoBucket ELSE r.slots[i].idx,
                            at  |-> IF i \in gone THEN {} ELSE r.slots[i].at]],
              cur |-> bn]
\* The register values of a slot, as the set of the (cell, register, rank) seen.
AddHLL(w, r, cells, card) ==
    [r EXCEPT !.slots[SlotOf(w, r.cur)].at =
                 @ \cup {[cell |-> c, register |-> Register(card), rank |-> Rank(card)] : c \in cells}]
\* The ranks a cell's merged registers hold: the highest of each.
Merged(w, r, cell, now) ==
    LET inside == {SlotOf(w, b) : b \in {b \in Max({r.cur, BucketOf(w, now)}) - Span(w) .. r.cur :
                                           r.slots[SlotOf(w, b)].idx = b}}
        marks  == {m \in UNION {r.slots[i].at : i \in inside} : m.cell = cell}
    IN  {<<m.register, m.rank>> : m \in {m \in marks : \A n \in marks :
           n.register = m.register => n.rank <= m.rank}}

-----------------------------------------------------------------------------
NewSketch == [rings  |-> [w \in W |-> NewRing(w)], hll |-> NewHLL(2),
              seen   |-> [i \in {SetOf(k) : k \in SketchKeys} |->
                            [j \in 1 .. Ways |-> [tag |-> Empty, first |-> 0, last |-> 0]]],
              latest |-> 0, started |-> FALSE]

ReadSketch(s, k, now) ==
    [est   |-> [w \in W |-> Estimate(w, s.rings[w], CellsOf(k), now)],
     cards |-> [c \in CellsOf(k) |-> IF s.hll.cur = NoBucket THEN {} ELSE Merged(2, s.hll, c, now)],
     slot  |-> {s.seen[SetOf(k)][i] : i \in Lookup(s, k, now)}]

\* Late events are recorded at the newest time of any key.
AddSketch(s, k, ev) ==
    LET t == IF s.started /\ ev.t < s.latest THEN s.latest ELSE ev.t
    IN  [rings  |-> [w \in W |-> AddCells(w, Advance(w, s.rings[w], BucketOf(w, t)),
                                          CellsOf(k), ev.milli)],
         hll    |-> IF ev.card = NoCard THEN s.hll
                    ELSE AddHLL(2, AdvanceHLL(2, s.hll, BucketOf(2, t)), CellsOf(k), ev.card),
         seen   |-> Touch(s.seen, k, t), latest |-> t, started |-> TRUE]

\* A snapshot has the slots; the sums are added up again when it is restored.
Encode(s)  == [s EXCEPT !.rings = [w \in W |-> [slots |-> @[w].slots, cur |-> @[w].cur]]]
SumUp(slots) == [c \in AllCells |->
                   [count |-> MapThenSumSet(LAMBDA i : slots[i].at[c].count, DOMAIN slots),
                    milli |-> MapThenSumSet(LAMBDA i : slots[i].at[c].milli, DOMAIN slots)]]
Decode(f)  == [f EXCEPT !.rings = [w \in W |-> [slots |-> @[w].slots, cur |-> @[w].cur,
                                                sum |-> SumUp(@[w].slots)]]]

-----------------------------------------------------------------------------
(* What the sketch promises of a history h of [k, t, milli, card], as it   *)
(* was recorded (sketch.go:88-124).                                        *)

Bucketful(h, w, now) == SelectSeq(h, LAMBDA ev : BucketOf(w, ev.t) >= BucketOf(w, now) - Span(w))
OfKey(h, k)   == SelectSeq(h, LAMBDA ev : ev.k = k)
InCell(h, c)  == SelectSeq(h, LAMBDA ev : c \in CellsOf(ev.k))
MilliSum(h)   == FoldLeft(LAMBDA n, ev : n + ev.milli, 0, h)
\* When the key was last idle for the idle time, it started over.
FirstSince(h) == h[Max({1} \cup {i \in 2 .. Len(h) : h[i].t - h[i - 1].t >= TTL})].t
Ranks(cards)  == {<<Register(c), Rank(c)>> : c \in
                    {c \in cards : \A d \in cards : Register(d) = Register(c) => Rank(d) <= Rank(c)}}

KeepsPromises(s, h, k, now) ==
    LET a   == ReadSketch(s, k, now)
        own == OfKey(h, k)
    IN  \* Counts and sums never undercount; the excess is what shares every cell.
        /\ \A w \in W : LET b == Bucketful(h, w, now) IN
             /\ Len(OfKey(b, k)) <= a.est[w].count
             /\ a.est[w].count = Min({Len(InCell(b, c)) : c \in CellsOf(k)})
             /\ a.est[w].milli = Min({MilliSum(InCell(b, c)) : c \in CellsOf(k)})
        \* Each row's registers are those of the cards of the keys in its cell.
        /\ \A c \in CellsOf(k) :
             LET b == InCell(Bucketful(h, 2, now), c)
             IN  a.cards[c] = Ranks({b[i].card : i \in DOMAIN b} \ {NoCard})
        \* A key is never seen when it was not; its last time is exact and its
        \* first never too early.
        /\ \A x \in a.slot : /\ own # <<>> /\ x.last = Last(own).t
                             /\ now - Last(own).t < TTL
                             /\ x.first >= FirstSince(own)
        \* With room for every key of its set, nothing is forgotten.
        /\ Cardinality({j \in SketchKeys : SetOf(j) = SetOf(k)}) <= Ways
             /\ own # <<>> /\ now - Last(own).t < TTL
             => \E x \in a.slot : x.first = FirstSince(own)
=============================================================================
