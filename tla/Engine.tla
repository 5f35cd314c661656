------------------------------- MODULE Engine -------------------------------
(***************************************************************************)
(* The feature engine (features/engine.go, key.go, replay.go, compare.go): *)
(* a payment's row is its raw fields and, per entity it has, what the      *)
(* velocity state knew of that key before it.                              *)
(*                                                                         *)
(* A payment is [id, dt, amount, card, region, opened, device, email]; a   *)
(* field that is absent is NoField.  Amounts are thousandths.              *)
(***************************************************************************)
EXTENDS VelocityState

CONSTANTS NoField, Day, EvictEvery

Entities     == {"card", "uid", "device", "email"}
Order        == <<"card", "uid", "device", "email">>
TracksDistinct(entity) == entity \in {"device", "email"}
Week         == Len(Windows)

\* KeysOf: a key with a missing part is missing, never pooled.  The uid is the
\* card, the region and the day the card was first used.
KeyParts(p, entity) == CASE entity = "card"   -> <<p.card>>
                         [] entity = "uid"    -> <<p.card, p.region, p.opened>>
                         [] entity = "device" -> <<p.device>>
                         [] entity = "email"  -> <<p.email>>
HasKey(p, entity) == \A i \in DOMAIN KeyParts(p, entity) : KeyParts(p, entity)[i] # NoField
KeyOf(p, entity) ==
    [id |-> <<entity>> \o IF entity = "uid" THEN <<p.card, p.region, (p.dt \div Day) - p.opened>>
                          ELSE KeyParts(p, entity),
     distinct |-> TracksDistinct(entity)]

EventOf(p) == [t |-> p.dt, milli |-> IF p.amount = NoField THEN 0 ELSE p.amount,
               card |-> IF p.card = NoField THEN NoCard ELSE p.card]

-----------------------------------------------------------------------------
(* Filling a row.  A mean and a ratio are the fraction they stand for.     *)

Raw(p) == [f \in {"amount", "device", "email", "region"} |-> p[f]]
Higher(a, b) == IF a > b THEN a ELSE b

\* seconds_since_* of a late payment count from the key's latest time.
FillEntity(a, p) ==
    LET now   == Higher(p.dt, a.last)
        count == a.count[Week]
        sum   == a.sum[Week]
    IN  [count |-> a.count, sum |-> a.sum, distinct |-> a.distinct,
         mean  |-> IF count > 0 THEN <<sum, count>> ELSE <<>>,
         ratio |-> IF count > 0 /\ sum > 0 THEN <<p.amount * count, sum>> ELSE <<>>,
         sinceFirst |-> IF a.seen THEN now - a.first ELSE NoField,
         sinceLast  |-> IF a.seen THEN now - a.last ELSE NoField]
FillMissing == [missing |-> TRUE]

\* Sweeps run every EvictEvery updates of the engine.
MaybeEvict(s, now) ==
    LET n == s.updates + 1
    IN  [s EXCEPT !.updates = n,
                  !.m = IF n % EvictEvery = 0 THEN EvictIdle(@, now) ELSE @]

NewEngine(kind) == [kind |-> kind, m |-> <<>>, updates |-> 0]

Scored(s, p, r) == [state |-> [s EXCEPT !.m = r.m], features |-> FillEntity(r.read, p)]
After(kind, p, k, r) == [r EXCEPT !.read = Read(kind, r.m, k, p.dt)]
UpdateThenScore(s, p, entity) ==                                  \* mutant
    Scored(s, p, After(s.kind, p, KeyOf(p, entity), ReadAdd(s.kind, s.m, KeyOf(p, entity), EventOf(p))))
\* ScoreAndUpdateEntity: one key read and updated in one step.
ScoreEntity(s, p, entity) == Scored(s, p, ReadAdd(s.kind, s.m, KeyOf(p, entity), EventOf(p)))
WithSweep(r, p) == [r EXCEPT !.state = MaybeEvict(@, p.dt)]
ScoreAndUpdateEntity(s, p, entity) ==
    IF HasKey(p, entity) THEN WithSweep(ScoreEntity(s, p, entity), p)
    ELSE [state |-> s, features |-> FillMissing]

WithPart(acc, entity, r) == [state |-> r.state, row |-> acc.row @@ (entity :> r.features)]
ScoreThenUpdate(s, p) ==
    FoldLeft(LAMBDA acc, e : IF HasKey(p, e) THEN WithPart(acc, e, ScoreEntity(acc.state, p, e))
                             ELSE [acc EXCEPT !.row = @ @@ (e :> FillMissing)],
             [state |-> s, row |-> ("raw" :> Raw(p))], Order)
ScoreAndUpdate(s, p) == WithSweep(ScoreThenUpdate(s, p), p)

\* Score leaves the state alone; Update adds without reading.
Score(s, p) == ("raw" :> Raw(p)) @@
    [e \in Entities |-> IF HasKey(p, e)
                        THEN FillEntity(Read(s.kind, s.m, KeyOf(p, e), p.dt), p) ELSE FillMissing]
Update(s, p) ==
    MaybeEvict([s EXCEPT !.m = FoldLeft(LAMBDA m, e :
                  IF HasKey(p, e) THEN ReadAdd(s.kind, m, KeyOf(p, e), EventOf(p)).m ELSE m,
                  @, Order)], p.dt)

-----------------------------------------------------------------------------
(* Replay, in strictly increasing (dt, id).                                *)

Before(p, q) == p.dt < q.dt \/ (p.dt = q.dt /\ p.id < q.id)
Ordered(ps)  == \A i \in 2 .. Len(ps) : Before(ps[i - 1], ps[i])
AndThen(acc, r) == [s |-> r.state, rows |-> Append(acc.rows, r.row)]
RowsOf(kind, ps) == FoldLeft(LAMBDA acc, p : AndThen(acc, ScoreAndUpdate(acc.s, p)),
                           [s |-> NewEngine(kind), rows |-> <<>>], ps).rows
Replay(kind, ps) == IF Ordered(ps) THEN [ok |-> TRUE, rows |-> RowsOf(kind, ps)] ELSE [ok |-> FALSE]

\* CompareStates: how the approximate counts differ from the exact ones.
Compared(ps, ref, apx) ==
    LET Of(e) == {i \in DOMAIN ps : HasKey(ps[i], e)}
    IN  [e \in Entities, w \in W |->
           [rows  |-> Cardinality(Of(e)),
            over  |-> Cardinality({i \in Of(e) : apx[i][e].count[w] > ref[i][e].count[w]}),
            under |-> Cardinality({i \in Of(e) : apx[i][e].count[w] < ref[i][e].count[w]}),
            exact |-> Cardinality({i \in Of(e) : apx[i][e].count[w] = ref[i][e].count[w]})]]
CompareStates(ps) == Compared(ps, RowsOf("exact", ps), RowsOf("bucketed", ps))

-----------------------------------------------------------------------------
\* The payments before p that share its key of an entity, by definition: late
\* ones aside, what its features may depend on (engine.go:10-13).
KeyHistory(ps, i, e) ==
    LET same == SelectSeq(SubSeq(ps, 1, i - 1),
                          LAMBDA q : HasKey(q, e) /\ KeyOf(q, e) = KeyOf(ps[i], e))
    IN  FoldLeft(LAMBDA h, q : Recorded(h, EventOf(q)), <<>>, same)

\* Every row is what the payments strictly before it say, entity by entity.
RowsAre(ps, rows) ==
    \A i \in DOMAIN ps, e \in Entities :
      rows[i][e] = IF HasKey(ps[i], e)
                   THEN FillEntity(HistoryRead(KeyHistory(ps, i, e), KeyOf(ps[i], e), ps[i].dt), ps[i])
                   ELSE FillMissing
NothingLeaks(ps) == Ordered(ps) => RowsAre(ps, RowsOf("exact", ps))

\* Taken apart along the entities, each in an engine of its own, or scored and
\* then updated, the row is the same (engine.go:186-190), whenever the sweeps run.
Joined(acc, p, r) == [s |-> [e \in Entities |-> r[e].state],
                      rows |-> Append(acc.rows, ("raw" :> Raw(p)) @@ [e \in Entities |-> r[e].features])]
PartsAreWhole(kind, ps) ==
    LET Split(acc, p) == Joined(acc, p, [e \in Entities |-> ScoreAndUpdateEntity(acc.s[e], p, e)])
        Twice(acc, p) == [s |-> Update(acc.s, p), rows |-> Append(acc.rows, Score(acc.s, p))]
        Fold(f(_, _), engine) == FoldLeft(f, [s |-> engine, rows |-> <<>>], ps).rows
    IN  Ordered(ps) => /\ RowsOf(kind, ps) = Fold(Twice, NewEngine(kind))
                       /\ RowsOf(kind, ps) = Fold(Split, [e \in Entities |-> NewEngine(kind)])

\* The bucketed state never undercounts.
NoneUnder(c) == \A e \in Entities, w \in W : c[e, w].under = 0
NeverUnder(ps) == Ordered(ps) => NoneUnder(CompareStates(ps))
=============================================================================
