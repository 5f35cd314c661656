------------------------------- MODULE Report -------------------------------
(***************************************************************************)
(* Backtest reports (backtest/report.go, sweep.go, labeldelay.go): what a  *)
(* proposed rule would have changed, over the payments whose labels have   *)
(* had time to arrive.                                                     *)
(*                                                                         *)
(* A table is a sequence of [dt, amount, fraud, at, score], at the time    *)
(* the fraud label arrives; a bitmap is a set of rows.  What a rule matches*)
(* is ColumnEval's business: here a rule is [action, shadow, rows], and a  *)
(* rule set a sequence of them.                                            *)
(***************************************************************************)
EXTENDS Integers, Sequences, FiniteSets, FiniteSetsExt, SequencesExt

CONSTANTS DefaultMaturity, Buckets, NoScore, Never

RowsOf(t) == DOMAIN t
LiveRules(rules, action) ==
    SelectSeq([i \in DOMAIN rules |-> i], LAMBDA i : ~rules[i].shadow /\ rules[i].action = action)

\* EvaluateRuleSet, as bitmaps: a row stays open until a rule takes it.
Decisions(t, rules) ==
    LET order == LiveRules(rules, "allow") \o LiveRules(rules, "block") \o LiveRules(rules, "review")
        by == [r \in RowsOf(t) |-> LET hits == SelectSeq(order, LAMBDA i : r \in rules[i].rows)
                                   IN  IF hits = <<>> THEN 0 ELSE hits[1]]
        Decided(action) == {r \in RowsOf(t) : by[r] # 0 /\ rules[by[r]].action = action}
    IN  [rule |-> by, allowed |-> Decided("allow"), blocked |-> Decided("block"),
         reviewed |-> Decided("review")]

-----------------------------------------------------------------------------
(* The window: zero options are defaults.                                  *)

Times(t)     == {t[i].dt : i \in RowsOf(t)}
EmptyRange(w) == w.to <= w.from

Bounds(t, opt) ==
    LET from == IF opt.from = 0 /\ t # <<>> THEN Min(Times(t)) ELSE opt.from
        to   == IF opt.to # 0 THEN opt.to ELSE IF t = <<>> THEN from + 1 ELSE Max(Times(t)) + 1
        asOf == IF opt.asOf = 0 THEN to ELSE opt.asOf
        maturity == IF opt.maturity = 0 THEN DefaultMaturity ELSE opt.maturity
    IN  [from |-> from, to |-> to, asOf |-> asOf, matured |-> maturity > 0,
         cutoff |-> asOf - maturity]

\* A fraud label that has not arrived by asOf is a payment that looks legitimate.
LabelledFraud(t, w, opt, i) ==
    t[i].fraud = "fraud" /\ (opt.useLabelTime => t[i].at <= w.asOf)

\* Payments inside the window but too young for a label are not counted.
Inside(t, w)   == {i \in RowsOf(t) : w.from <= t[i].dt /\ t[i].dt < w.to}
Immature(t, w) == {i \in Inside(t, w) : w.matured /\ t[i].dt >= w.cutoff}
Labels(t, w, opt, counted, fraud) ==
    [w |-> w, counted |-> counted, immature |-> Immature(t, w), fraud |-> fraud,
     legit |-> {i \in counted \ fraud : t[i].fraud # "unknown"}]
ResolveIn(t, opt, w) == Labels(t, w, opt, Inside(t, w) \ Immature(t, w),
    {i \in Inside(t, w) \ Immature(t, w) : LabelledFraud(t, w, opt, i)})
Resolve(t, opt) == ResolveIn(t, opt, Bounds(t, opt))

\* The last window resolved is reused while the options that define it are the
\* same; the number of samples is not one of them.
SameButLabels(a, b) == \A f \in {"from", "to", "asOf", "maturity"} : a[f] = b[f]   \* mutant
SameButAsOf(a, b) == \A f \in {"from", "to", "maturity", "useLabelTime"} : a[f] = b[f]   \* mutant
SameWindow(a, b) == \A f \in {"from", "to", "asOf", "maturity", "useLabelTime"} : a[f] = b[f]
Window(b, opt) ==
    IF b.last # <<>> /\ SameWindow(b.last[1].opt, opt) THEN b.last[1].window
    ELSE Resolve(b.t, opt)

Dollars(t, S) == MapThenSumSet(LAMBDA i : t[i].amount, S)
Counts(t, S)  == [count |-> Cardinality(S), dollars |-> Dollars(t, S)]
Outcome(t, w, S) ==
    LET all == Counts(t, S)
        fraud == Counts(t, S \cap w.fraud)
        legit == Counts(t, S \cap w.legit)
    IN  [all |-> all, fraud |-> fraud, legit |-> legit,
         unlabeled |-> [count |-> all.count - fraud.count - legit.count,
                        dollars |-> all.dollars - fraud.dollars - legit.dollars]]
\* A ratio without a denominator is absent.
Ratio(num, den) == IF den = 0 THEN <<>> ELSE <<num, den>>

-----------------------------------------------------------------------------
(* Run.                                                                    *)

ChangedBlindly(action, match, d) == match \ d.blocked              \* mutant
Changed(action, match, d) ==
    CASE action = "allow"  -> match \cap (d.blocked \cup d.reviewed)
      [] action = "block"  -> (match \ d.allowed) \ d.blocked
      [] action = "review" -> ((match \ d.allowed) \ d.blocked) \ d.reviewed

Most(x, y) == x.n > y.n \/ (x.n = y.n /\ x.index < y.index)
\* The live rules that match what the proposed rule matches, most first.
Overlaps(rules, d, match) ==
    LET all == {[index |-> i, n |-> Cardinality(match \cap rules[i].rows),
                 decidedBy |-> Cardinality({r \in match : d.rule[r] = i})] :
                  i \in {i \in DOMAIN rules : ~rules[i].shadow /\ match \cap rules[i].rows # {}}}
    IN  SetToSortSeq(all, Most)
Covering(overlaps) == SelectSeq(overlaps, LAMBDA o : o.decidedBy > 0)

\* k rows spread evenly over the pool: of the rows changed, or matched if none is.
SampleRows(pool, want) ==
    LET rows == SetToSortSeq(pool, LAMBDA x, y : x < y)
        k    == Min({IF want = 0 THEN 10 ELSE want, Len(rows)})
    IN  IF want < 0 THEN <<>> ELSE [j \in 1 .. k |-> rows[(((j - 1) * Len(rows)) \div k) + 1]]

NewBacktester(t, rules) == [t |-> t, rules |-> rules, d |-> Decisions(t, rules), last |-> <<>>]

\* The report of a rule that matches and would change these rows.
Reported(b, opt, w, match, changed, o, period, over) ==
    LET covered == match # {} /\ changed = {}
    IN  [ok |-> TRUE,
         b  |-> [b EXCEPT !.last = <<[opt |-> opt, window |-> w]>>],
         rows |-> changed, changed |-> o, period |-> period,
         matched  |-> Outcome(b.t, w, match), immature |-> Counts(b.t, w.immature),
         precision |-> Ratio(o.fraud.count, o.fraud.count + o.legit.count),
         dollarShare |-> Ratio(o.fraud.dollars, period.fraud.dollars),
         fromBlock  |-> Outcome(b.t, w, changed \cap b.d.blocked),
         fromReview |-> Outcome(b.t, w, changed \cap b.d.reviewed),
         overlaps |-> over, unreachable |-> covered,
         coveredBy |-> IF covered THEN Covering(over) ELSE <<>>,
         samples |-> SampleRows(IF changed = {} THEN match ELSE changed, opt.samples)]
ReportOn(b, opt, w, match, changed) ==
    Reported(b, opt, w, match, changed, Outcome(b.t, w, changed), Outcome(b.t, w, w.counted),
             Overlaps(b.rules, b.d, match))
RunIn(b, proposed, opt, w) ==
    LET match == proposed.rows \cap w.counted
    IN  IF EmptyRange(w.w) THEN [ok |-> FALSE, b |-> b]
        ELSE ReportOn(b, opt, w, match, Changed(proposed.action, match, b.d))
Run(b, proposed, opt) == RunIn(b, proposed, opt, Window(b, opt))

-----------------------------------------------------------------------------
(* The threshold sweep: one pass into buckets, then suffix sums.           *)

Whole(score)    == score \div 2           \* scores are in halves
BucketOfScore(s) == IF s >= 2 * (Buckets - 1) THEN Buckets - 1 ELSE Whole(s)

Plus(o, q) == [f \in DOMAIN o |-> [count   |-> o[f].count + q[f].count,
                                   dollars |-> o[f].dollars + q[f].dollars]]

SweepIn(b, w, pop, givenCurrent) ==
    LET scored == {i \in pop : b.t[i].score # NoScore /\ b.t[i].score >= 0}
        In(k)  == Outcome(b.t, w, {i \in scored : BucketOfScore(b.t[i].score) = k})
        \* From the last bucket down, adding to what is above.
        Below(points, k) == points @@ (k :> IF k = Buckets - 1 THEN In(k)
                                            ELSE Plus(points[k + 1], In(k)))
    IN  [points |-> FoldLeft(Below, <<>>, [j \in 1 .. Buckets |-> Buckets - j]),
         unscored  |-> Counts(b.t, {i \in pop : b.t[i].score = NoScore}),
         protected |-> Counts(b.t, IF givenCurrent THEN w.counted \cap b.d.allowed ELSE {})]
Population(b, w, givenCurrent) == IF givenCurrent THEN w.counted \ b.d.allowed ELSE w.counted
SweepOf(b, w, givenCurrent)    == SweepIn(b, w, Population(b, w, givenCurrent), givenCurrent)
Sweep(b, opt, givenCurrent)    == SweepOf(b, Window(b, opt), givenCurrent)

-----------------------------------------------------------------------------
(* Label delay: a naive backtest of the latest window and a matured one,   *)
(* each beside the truth, one after the other on one backtester.           *)

\* A dispute arrives delay after the payment, or never past the limit.
SimulateLabelTimes(t, delay, limit) ==
    [i \in RowsOf(t) |-> [t[i] EXCEPT !.at =
       IF t[i].fraud = "fraud" /\ delay[i] <= limit THEN t[i].dt + delay[i] ELSE Never]]

DelayView(b, proposed, asOf, from, to, labelTime) ==
    Run(b, proposed, [from |-> from, to |-> to, asOf |-> asOf, maturity |-> -1,
                      useLabelTime |-> labelTime, samples |-> -1])
\* The first that fails is the answer; each leaves its window to the next.
CompareLabelDelay(b, proposed, asOf, width, maturity) ==
    LET Next(v, to, labelTime) == DelayView(v.b, proposed, asOf, to - width, to, labelTime)
        naive        == DelayView(b, proposed, asOf, asOf - width, asOf, TRUE)
        naiveTruth   == Next(naive, asOf, FALSE)
        matured      == Next(naiveTruth, asOf - maturity, TRUE)
        maturedTruth == Next(matured, asOf - maturity, FALSE)
    IN  [ok |-> naive.ok /\ naiveTruth.ok /\ matured.ok /\ maturedTruth.ok,
         naive |-> naive, naiveTruth |-> naiveTruth, matured |-> matured, maturedTruth |-> maturedTruth]

-----------------------------------------------------------------------------
(* What a report must say.                                                 *)

Action(rules, d, r) == IF d.rule[r] = 0 THEN "allow" ELSE rules[d.rule[r]].action

\* The rows changed are those that adding the rule would decide otherwise, and
\* a rule called unreachable is covered, payment by payment, by the rules named
\* (report.go:422-427); every payment in the window is counted in one way.
TruthfulReport(t, d, proposed, with, dd, w, r) ==
    r.ok =>
      /\ r.rows = {i \in w.counted : Action(with, d, i) # Action(with, dd, i)}
      /\ r.unreachable <=> (r.matched.all.count > 0 /\ r.rows = {})
      /\ r.unreachable /\ proposed.action # "allow"
           => MapThenSumSet(LAMBDA i : r.coveredBy[i].decidedBy, DOMAIN r.coveredBy)
                = r.matched.all.count
      /\ proposed.action = "allow" =>
           r.fromBlock.all.count + r.fromReview.all.count = r.changed.all.count
      /\ r.period.all.count + r.immature.count = Cardinality(Inside(t, w.w))
      /\ \A i, j \in DOMAIN r.samples : i # j => r.samples[i] # r.samples[j]
TruthfulAmong(b, proposed, with, opt) ==
    TruthfulReport(b.t, b.d, proposed, with, Decisions(b.t, with), Resolve(b.t, opt),
                   Run(b, proposed, opt))
Truthful(t, rules, proposed, opt) ==
    TruthfulAmong(NewBacktester(t, rules), proposed,
                  Append(rules, [proposed EXCEPT !.shadow = FALSE]), opt)

\* A report is the same whatever window the backtester resolved before.
SameReport(warm, cold) == warm.ok = cold.ok /\ (warm.ok => warm = cold)
CachedLike(b, proposed, first, opt) ==
    SameReport(Run(Run(b, proposed, first).b, proposed, opt), Run(b, proposed, opt))
CacheInvisible(t, rules, proposed, first, opt) ==
    CachedLike(NewBacktester(t, rules), proposed, first, opt)

\* Point k of a sweep is the report of `block if :risk_score: >= k` over the
\* same payments (sweep.go:36-50).
PointsAreRules(b, w, s, givenCurrent) ==
    \A k \in 0 .. Buckets - 1 :
      LET rows == {i \in w.counted : /\ b.t[i].score # NoScore /\ b.t[i].score >= 2 * k
                                     /\ givenCurrent => i \notin b.d.allowed}
      IN  s.points[k] = Outcome(b.t, w, rows)
ThresholdsOf(b, opt, givenCurrent) ==
    PointsAreRules(b, Resolve(b.t, opt), Sweep(b, opt, givenCurrent), givenCurrent)
SweepIsTheRule(t, rules, opt, givenCurrent) ==
    ThresholdsOf(NewBacktester(t, rules), opt, givenCurrent)

\* The truth beside each view is every fraud it would have caught; the view
\* reports no more, and all of it once it is matured for as long as a label can
\* take (report.go:14-29, labeldelay.go:120-123).
LabelsHelp(t, c, complete) ==
    LET Caught(v) == v.changed.fraud.dollars
        True(v)   == Dollars(t, {i \in v.rows : t[i].fraud = "fraud"})
    IN  c.ok =>
          /\ Caught(c.naiveTruth) = True(c.naive) /\ Caught(c.maturedTruth) = True(c.matured)
          /\ Caught(c.naive) <= Caught(c.naiveTruth)
          /\ Caught(c.matured) <= Caught(c.maturedTruth)
          /\ complete => Caught(c.matured) = Caught(c.maturedTruth)
MaturityHelps(t, rules, proposed, asOf, width, maturity, limit) ==
    LabelsHelp(t, CompareLabelDelay(NewBacktester(t, rules), proposed, asOf, width, maturity),
               maturity >= limit /\ \A i \in RowsOf(t) : t[i].fraud = "fraud" => t[i].at # Never)
=============================================================================
