------------------------------- MODULE Model -------------------------------
(***************************************************************************)
(* The fraud model (internal/model, schema/encoder.go): a LightGBM text    *)
(* file checked and evaluated, its Saabas contributions, the isotonic      *)
(* calibration and the reasons of a score.                                 *)
(*                                                                         *)
(* Numbers are integers, One of them to the unit; |x| <= Tiny counts as    *)
(* zero.  Sums are exact here: what float64 rounds is not modelled.  Nodes *)
(* and leaves are numbered from 0 and a child c < 0 is the leaf -c - 1, as *)
(* in the code.  A word of a bitset is the set of its bits.                *)
(***************************************************************************)
EXTENDS Integers, Sequences, FiniteSets, FiniteSetsExt, SequencesExt, Functions

CONSTANTS One, Tiny, NaN, WordBits, MaxReasons

At(s, i)  == s[i + 1]
Leaf(c)   == -c - 1

-----------------------------------------------------------------------------
(* Parse: a header h and one block of fields per tree.                     *)

HeaderOK(h) ==
    /\ h.version = "v4" /\ h.classes = 1 /\ h.perIteration = 1 /\ ~h.averaged
    /\ h.objective = "binary" /\ h.sigmoid > 0
    /\ Len(h.features) = h.maxFeature + 1

\* An internal node is numbered after its parent.
MayLoop(b, i, c) == IF c >= 0 THEN c >= i /\ c < b.leaves - 1 ELSE Leaf(c) < b.leaves  \* mutant
ChildInRange(b, i, c) == IF c >= 0 THEN c > i /\ c < b.leaves - 1 ELSE Leaf(c) < b.leaves

BoundsOK(b) ==
    b.cats > 0 =>
      /\ Len(b.bounds) = b.cats + 1 /\ Len(b.words) = b.bounds[b.cats + 1]
      /\ \A i \in 1 .. b.cats : b.bounds[i] >= 0 /\ b.bounds[i] <= b.bounds[i + 1]

\* The threshold of a categorical node is the index of its bitset.
BitsetOK(b, threshold) == threshold % One = 0 /\ threshold \div One \in 0 .. b.cats - 1

NodeOK(b, i, nFeatures) ==
    /\ At(b.feature, i) \in 0 .. nFeatures - 1
    /\ ChildInRange(b, i, At(b.left, i)) /\ ChildInRange(b, i, At(b.right, i))
    /\ At(b.missing, i) \in 0 .. 2
    /\ At(b.categorical, i) => BitsetOK(b, At(b.threshold, i))

TreeOK(b, nFeatures) ==
    /\ b.leaves >= 1 /\ ~b.linear /\ Len(b.leaf) = b.leaves
    /\ b.leaves > 1 =>
         /\ \A f \in {"feature", "threshold", "missing", "categorical", "defaultLeft",
                      "left", "right", "internal"} : Len(b[f]) = b.leaves - 1
         /\ BoundsOK(b)
         /\ \A i \in 0 .. b.leaves - 2 : NodeOK(b, i, nFeatures)

\* Blocks must be numbered in order, and the file must not be cut short.
ParseOK(h, blocks, ended) ==
    /\ ended /\ HeaderOK(h) /\ blocks # <<>>
    /\ \A k \in DOMAIN blocks : blocks[k].number = k - 1 /\ TreeOK(blocks[k], Len(h.features))

-----------------------------------------------------------------------------
(* Tree::Decision and Tree::CategoricalDecision.                           *)

Side(b, n, goesLeft) == IF goesLeft THEN At(b.left, n) ELSE At(b.right, n)
Words(b, n) == LET ci == At(b.threshold, n) \div One
               IN  SubSeq(b.words, At(b.bounds, ci) + 1, At(b.bounds, ci + 1))

Categorical(b, n, v) ==
    LET words == Words(b, n)
        c     == IF v < 0 THEN 0 ELSE v \div One          \* truncation toward zero
        known == v # NaN /\ v > -One /\ v < Len(words) * WordBits * One
    IN  Side(b, n, IF known THEN (c % WordBits) \in At(words, c \div WordBits) ELSE FALSE)

NextNode(b, n, value) ==
    LET small   == IF value = NaN THEN FALSE ELSE -Tiny <= value /\ value <= Tiny
        missing == At(b.missing, n)
        v       == IF small \/ value = NaN THEN 0 ELSE value
    IN  CASE At(b.categorical, n)           -> Categorical(b, n, value)
          [] ~At(b.categorical, n) /\ ((value = NaN /\ missing = 2) \/ (missing = 1 /\ v = 0))
                                            -> Side(b, n, At(b.defaultLeft, n))
          [] OTHER                          -> Side(b, n, v <= At(b.threshold, n))

\* The nodes a walk visits, its leaf last: a walk of a valid tree needs at most
\* one step per node.
Path(b, x) ==
    LET Step(path, i) == IF Last(path) < 0 THEN path
                         ELSE Append(path, NextNode(b, Last(path), At(x, At(b.feature, Last(path)))))
    IN  IF b.leaves = 1 THEN <<-1>> ELSE FoldLeft(Step, <<0>>, [i \in 1 .. b.leaves - 1 |-> i])
LeafOf(b, x) == At(b.leaf, Leaf(Last(Path(b, x))))

SumOver(S, f(_)) == MapThenSumSet(f, S)
PredictRaw(m, x) == SumOver(DOMAIN m, LAMBDA k : LeafOf(m[k], x))

\* Saabas: each step of the path credits its change of value to the feature split.
ValueOf(b, n) == IF n < 0 THEN At(b.leaf, Leaf(n)) ELSE At(b.internal, n)
Credit(b, x, f) ==
    LET p == Path(b, x)
    IN  SumOver({i \in 1 .. Len(p) - 1 : At(b.feature, p[i]) = f},
                LAMBDA i : ValueOf(b, p[i + 1]) - ValueOf(b, p[i]))
RootValue(b) == IF b.leaves = 1 THEN b.leaf[1] ELSE b.internal[1]
PredictContributions(m, x) ==
    [raw  |-> SumOver(DOMAIN m, LAMBDA k : ValueOf(m[k], Last(Path(m[k], x)))),
     bias |-> SumOver(DOMAIN m, LAMBDA k : RootValue(m[k])),
     out  |-> [f \in DOMAIN x |-> SumOver(DOMAIN m, LAMBDA k : Credit(m[k], x, f - 1))]]

-----------------------------------------------------------------------------
(* Calibration: the knots x, y of a piecewise-linear function; y is in     *)
(* units of 1/One, and a probability is the fraction p[1]/p[2].            *)

CalibratorOK(c) ==
    /\ c.x # <<>> /\ Len(c.x) = Len(c.y)
    /\ \A i \in DOMAIN c.x : /\ c.x[i] # NaN /\ c.y[i] \in 0 .. One
                             /\ i > 1 => c.x[i] > c.x[i - 1] /\ c.y[i] >= c.y[i - 1]

\* The binary search of Apply: the largest knot at or below raw.
Knot(c, raw) ==
    LET Halve(r, i) == LET mid == (r.lo + r.hi) \div 2
                       IN  IF r.hi - r.lo <= 1 THEN r
                           ELSE IF raw < At(c.x, mid) THEN [r EXCEPT !.hi = mid] ELSE [r EXCEPT !.lo = mid]
    IN  FoldLeft(Halve, [lo |-> 0, hi |-> Len(c.x) - 1], c.x).lo
Apply(c, raw) ==
    LET j == Knot(c, raw)
        run == At(c.x, j + 1) - At(c.x, j)
    IN  IF raw <= c.x[1] THEN <<c.y[1], One>>
        ELSE IF raw >= Last(c.x) THEN <<Last(c.y), One>>
        ELSE <<(At(c.y, j + 1) - At(c.y, j)) * (raw - At(c.x, j)) + At(c.y, j) * run, One * run>>

RiskScore(p) == LET s == (p[1] * 100) \div p[2] IN IF s <= 0 THEN 0 ELSE IF s > 99 THEN 99 ELSE s

-----------------------------------------------------------------------------
(* The encoder: strings become codes in sorted order ("" is the string 0). *)

FitEncoder(seen) == SetToSortSeq(seen \ {0}, LAMBDA a, b : a < b)
EncodeText(codes, text) == IF Contains(codes, text) THEN (CHOOSE i \in DOMAIN codes : codes[i] = text) - 1
                           ELSE NaN
EncodeRow(fields, row) ==
    [i \in DOMAIN fields |-> IF fields[i].kind = "string"
                             THEN LET c == EncodeText(fields[i].codes, row[i])
                                  IN  IF c = NaN THEN NaN ELSE c * One
                             ELSE row[i]]

-----------------------------------------------------------------------------
(* Reasons: the largest positive contributions, and what is said of each.  *)

TopPositive(contrib, limit) ==
    LET Insert(top, i) ==
          LET k == Cardinality({j \in DOMAIN top : contrib[top[j]] >= contrib[i]})
          IN  IF contrib[i] <= 0 \/ k = limit THEN top
              ELSE SubSeq(InsertAt(top, k + 1, i), 1, Min({limit, Len(top) + 1}))
    IN  IF limit <= 0 THEN <<>> ELSE FoldLeft(Insert, <<>>, [i \in DOMAIN contrib |-> i])

\* The phrase of a field and the number it prints, None when it prints none.
None == [none |-> TRUE]
Phrase(words, v) == [words |-> words, shows |-> v]
Describe(field, v, text, known) ==
    CASE field.kind = "string" /\ text = 0              -> Phrase("missing", None)
      [] field.kind = "string" /\ text # 0 /\ ~known    -> Phrase("never seen in training", None)
      [] field.kind = "string" /\ text # 0 /\ known     -> Phrase("is", text)
      [] field.kind = "amount"                          -> Phrase("amount is", v)
      [] field.kind \in {"count", "sum", "distinct"} /\ v = NaN -> Phrase("no entity to track", None)
      [] field.kind \in {"mean", "ratio"} /\ v = NaN    -> Phrase("no earlier payments", None)
      [] field.kind \in {"first", "last"} /\ v = NaN    -> Phrase("first payment seen", None)
      [] field.kind = "other" /\ v = NaN                -> Phrase("missing", None)
      [] OTHER                                          -> Phrase(field.kind, v)

ReasonOf(fields, row, x, contrib, i) ==
    LET isText == fields[i].kind = "string"
    IN  [feature |-> i, contribution |-> contrib[i],
         text |-> Describe(fields[i], IF isText THEN x[i] ELSE row[i], IF isText THEN row[i] ELSE 0,
                           x[i] # NaN)]
AppendReasons(fields, row, x, contrib, limit) ==
    LET top == TopPositive(contrib, limit)
    IN  [j \in DOMAIN top |-> ReasonOf(fields, row, x, contrib, top[j])]

\* ScoreContributions and the reasons the service gives for it.
ScoreOf(cal, fields, row, x, p) ==
    [score |-> RiskScore(Apply(cal, p.raw)), raw |-> p.raw, bias |-> p.bias, out |-> p.out,
     reasons |-> AppendReasons(fields, row, x, p.out, MaxReasons)]
ScoreInput(m, cal, fields, row, x) == ScoreOf(cal, fields, row, x, PredictContributions(m, x))
Score(m, cal, fields, row) == ScoreInput(m, cal, fields, row, EncodeRow(fields, row))

-----------------------------------------------------------------------------
(* What must hold of it.                                                   *)

\* Any file Parse accepts can be walked by any input: the walk ends in a leaf
\* of the tree, visiting no node twice (lightgbm.go:243-244).
WalksEnd(b, nFeatures, inputs) ==
    TreeOK(b, nFeatures) =>
      \A x \in inputs : LET p == Path(b, x)
                        IN  /\ Last(p) < 0 /\ Leaf(Last(p)) \in 0 .. b.leaves - 1
                            /\ IsInjective(p)

\* Contributions and bias add up to the raw score, and explaining a payment
\* gives it the score it has without (saabas.go:7-10, 34-40).
AddsUp(s, raw, cal) == /\ s.raw = raw /\ s.score = RiskScore(Apply(cal, raw))
                       /\ s.bias + SumOver(DOMAIN s.out, LAMBDA f : s.out[f]) = raw
Telescopes(m, cal, fields, row) ==
    AddsUp(Score(m, cal, fields, row), PredictRaw(m, EncodeRow(fields, row)), cal)

\* A calibrator that loads never ranks a payment below one with a smaller raw
\* score, and passes through its knots (calibrate.go:61-66).
KeepsOrder(c, raws) ==
    CalibratorOK(c) =>
      /\ \A r, q \in raws : LET a == Apply(c, r)
                                b == Apply(c, q)
                            IN  r <= q => /\ a[1] * b[2] <= b[1] * a[2]
                                          /\ RiskScore(a) <= RiskScore(b)
      /\ \A i \in DOMAIN c.x : LET a == Apply(c, c.x[i]) IN a[1] * One = c.y[i] * a[2]
      /\ \A r \in raws : RiskScore(Apply(c, r)) \in 0 .. 99

\* The reasons are the largest positive contributions, the first input first
\* among equals, and no reason prints a number the payment does not have
\* (scorer.go:176-178, reasons.go:84-86).
Explain(reasons, contrib) ==
    LET top == [j \in DOMAIN reasons |-> reasons[j].feature]
        Better(i, j) == contrib[i] > contrib[j] \/ (contrib[i] = contrib[j] /\ i < j)
        positive == {i \in DOMAIN contrib : contrib[i] > 0}
    IN  /\ Len(top) = Min({MaxReasons, Cardinality(positive)})
        /\ \A j \in DOMAIN top : /\ top[j] \in positive
                                 /\ \A i \in positive : Better(i, top[j]) => \E k \in 1 .. j - 1 : top[k] = i
        /\ \A j \in DOMAIN top : reasons[j].text.shows # NaN
ReasonsExplain(fields, row, contrib) ==
    Explain(AppendReasons(fields, row, EncodeRow(fields, row), contrib, MaxReasons), contrib)
=============================================================================
