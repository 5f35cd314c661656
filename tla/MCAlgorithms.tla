---------------------------- MODULE MCAlgorithms ----------------------------
(***************************************************************************)
(* The sequential code, each part over bounded inputs: a state holds one   *)
(* subject and one input of it, and a property says what the code makes of *)
(* every input reached.  The rule language is MCRules'; the keyed velocity *)
(* stores are KeyedState's, whose state is the input of the subject store. *)
(***************************************************************************)
EXTENDS MCRules, KeyedState

CONSTANTS NoField, NoValue, Junk, Blank, NoColumn, Never,
          MaxOps, MaxPayments, MaxRules, MaxKnots, MaxRows

MCWindows == <<2, 4, 6>>
MCPlan    == <<1, 2, 3>>
\* A device, which tracks cards, and a uid, which does not; amounts tell which
\* payments a sum is of, and the moments lie at every distance from 1 to 7.
MCKeys    == {[id |-> "device", distinct |-> TRUE], [id |-> "uid", distinct |-> FALSE]}
MCMoments == {10, 11, 13, 16, 17}
MCCards   == {1, 2, 3, NoCard}
MCAmount  == <<1, -2, 4>>
Features == INSTANCE Engine WITH Windows <- MCWindows, Plan <- MCPlan, DistinctWindow <- 2,
                                 TTL <- 6, DistinctCap <- 2, CardSlack <- 0, Day <- 2, EvictEvery <- 2
\* Two keys share a cell in each row, and three keys a set of two slots.
MCCell(r, k) == IF r = 1 THEN k \div 2 ELSE (k + 1) \div 2
MCSet(k)     == IF k = 4 THEN 2 ELSE 1
MCRegister(c) == c % 2
MCRank(c)     == c
Table == INSTANCE Sketch WITH SketchKeys <- 1 .. 4, Windows <- MCWindows, Plan <- MCPlan, TTL <- 6,
                              Rows <- {1, 2}, Cell <- MCCell, SetOf <- MCSet, Ways <- 2,
                              Register <- MCRegister, Rank <- MCRank
Backtest == INSTANCE Report WITH DefaultMaturity <- 4, Buckets <- 4, NoScore <- NoValue
LightGBM == INSTANCE Model WITH One <- 4, Tiny <- 1, NaN <- NoValue, WordBits <- 2, MaxReasons <- 2
Data     == INSTANCE Dataset WITH NaN <- NoValue, Day <- 2, DaysPerMonth <- 1, NumMonths <- 6,
                                  Epoch <- 100

-----------------------------------------------------------------------------
(* The sketch: events of several keys that share cells.                    *)

Hits == [k : 1 .. 3, dt : {2, 5}] \cup [k : {1}, dt : {-1}]
Share == /\ subject \in {"none", "shared"} /\ Len(input) < MaxOps
         /\ subject' = "shared"
         /\ \E x \in Hits : input' = Append(input, x)

Sketched(hits) ==
    LET Step(v, i) ==
          LET t  == v.clock + hits[i].dt
              ev == [t |-> t, milli |-> 2 ^ i, card |-> i]
              at == IF t > v.clock \/ v.h = <<>> THEN t ELSE v.clock
          IN  [clock |-> at, s |-> Table!AddSketch(v.s, hits[i].k, ev),
               h |-> Append(v.h, [k |-> hits[i].k, t |-> at, milli |-> 2 ^ i, card |-> i])]
    IN  FoldLeft(Step, [clock |-> 10, h |-> <<>>, s |-> Table!NewSketch], [i \in DOMAIN hits |-> i])

\* The sketch keeps its promises to every key, and so does its restored
\* snapshot (sketch.go:88-124).
KeepsAll(v, restored) ==
    \A k \in 1 .. 4, now \in {v.clock, v.clock + 3} :
      /\ Table!KeepsPromises(v.s, v.h, k, now)
      /\ Table!ReadSketch(restored, k, now) = Table!ReadSketch(v.s, k, now)
KeepsBoth(v) == KeepsAll(v, Table!Decode(Table!Encode(v.s)))
SketchKept == subject = "shared" => KeepsBoth(Sketched(input))

-----------------------------------------------------------------------------
(* The engine: payments of two cards and a device, some with parts missing.*)

Payers == {[card |-> 1, opened |-> 0, device |-> 1], [card |-> 1, opened |-> 0, device |-> NoField],
           [card |-> 1, opened |-> NoField, device |-> 1], [card |-> NoField, opened |-> 0, device |-> 1],
           [card |-> 2, opened |-> 1, device |-> 1]}
Charge == /\ subject \in {"none", "payments"} /\ Len(input) < MaxPayments
          /\ subject' = "payments"
          /\ \E dt \in IF input = <<>> THEN {10} ELSE {0, 1, 3, 7}, who \in Payers :
               input' = Append(input, who @@ [id |-> Len(input) + 1, amount |-> 3 ^ Len(input), region |-> 1,
                                             dt |-> dt + (IF input = <<>> THEN 0 ELSE input[Len(input)].dt),
                                             email |-> 1])

\* A row holds what the earlier payments say and nothing else; scoring it in
\* parts, or before the update, changes nothing; the bucketed counts are never
\* below the exact ones (engine.go:10-13, 186-190, compare.go:20-24).
TrainServe == subject = "payments" =>
    /\ Features!NothingLeaks(input)
    /\ \A kind \in Features!Kinds : Features!PartsAreWhole(kind, input)
    /\ Features!NeverUnder(input)

-----------------------------------------------------------------------------
(* Reports: live rules over a table of four payments.                      *)

Payment(dt, amount, fraud, score) ==
    [dt |-> dt, amount |-> amount, fraud |-> fraud, at |-> Never, score |-> score]
Delay == <<3, 5, 5, 5>>
Payments == Backtest!SimulateLabelTimes(
    <<Payment(1, 1, "fraud", 7), Payment(2, 2, "legit", 3), Payment(4, 4, "fraud", NoValue),
      Payment(6, 8, "unknown", 1)>>, Delay, 5)
RowSets == {{}, {1, 2}, {1, 3, 4}, {1, 2, 3, 4}}
LiveOrShadow == [action : Actions, shadow : {FALSE}, rows : RowSets]
                  \cup [action : {"block"}, shadow : {TRUE}, rows : {{1, 2, 3}}]
Usual   == [from |-> 0, to |-> 0, asOf |-> 0, maturity |-> 2, useLabelTime |-> TRUE, samples |-> 0]
\* The usual one, those that differ from it in one option, and others.
Options == {Usual, [Usual EXCEPT !.from = 2], [Usual EXCEPT !.to = 4], [Usual EXCEPT !.asOf = 5],
            [Usual EXCEPT !.maturity = -1], [Usual EXCEPT !.useLabelTime = FALSE],
            [Usual EXCEPT !.from = 2, !.asOf = 5],
            [from |-> 0, to |-> 6, asOf |-> 8, maturity |-> 0, useLabelTime |-> FALSE, samples |-> 1],
            [from |-> 1, to |-> 0, asOf |-> 5, maturity |-> -1, useLabelTime |-> TRUE, samples |-> 1],
            [from |-> 6, to |-> 4, asOf |-> 0, maturity |-> 1, useLabelTime |-> TRUE, samples |-> 2]}
Reported == {Usual} \cup {o \in Options : o.samples > 0}
Publish == /\ subject \in {"none", "report"} /\ Len(input) < MaxRules
           /\ subject' = "report"
           /\ \E r \in LiveOrShadow : input' = Append(input, r)
Proposals == [action : Actions, shadow : {FALSE}, rows : {{1, 2}, {2, 3, 4}, {1, 2, 3, 4}}]
               \cup [action : {"block"}, shadow : {TRUE}, rows : {{1, 2, 3, 4}}]

\* A report counts what adding the rule would change, whatever was reported
\* before it; a threshold of the sweep is the rule it stands for; and labels
\* that have not arrived only hide fraud (report.go:14-29, sweep.go:36-50).
ReportsTrue == subject = "report" =>
    /\ \A opt \in Options, p \in Proposals :
         /\ Backtest!Truthful(Payments, input, p, opt)
         /\ \A first \in Reported : Backtest!CacheInvisible(Payments, input, p, first, opt)
    /\ \A asOf \in {8, 10}, maturity \in {3, 5}, p \in Proposals :
         Backtest!MaturityHelps(Payments, input, p, asOf, 4, maturity, 5)
    /\ \A opt \in Options, allowed \in BOOLEAN : Backtest!SweepIsTheRule(Payments, input, opt, allowed)

-----------------------------------------------------------------------------
(* The model: a tree of three leaves as a file gives it, a calibration, and*)
(* the contributions of four inputs.                                       *)

Children == {-4, -3, -1, 0, 1, 2}
Tree(left, right, threshold, missing, default, categorical) ==
    [leaves |-> 3, linear |-> FALSE, leaf |-> <<-3, 5, 8>>, number |-> 0,
     feature |-> <<0, 1>>, threshold |-> <<2, threshold>>, missing |-> <<2, missing>>,
     categorical |-> <<FALSE, categorical>>, defaultLeft |-> <<FALSE, default>>,
     left |-> left, right |-> right, internal |-> <<1, 6>>,
     cats |-> 2, bounds |-> <<0, 1, 3>>, words |-> <<{1}, {0}, {1}>>]
Stump == [Tree(<<>>, <<>>, 0, 0, FALSE, FALSE) EXCEPT !.leaves = 1, !.leaf = <<4>>, !.number = 1]
Header(sigmoid) == [version |-> "v4", classes |-> 1, perIteration |-> 1, averaged |-> FALSE,
                    objective |-> "binary", sigmoid |-> sigmoid, features |-> <<"x", "c">>, maxFeature |-> 1]
Vectors == {-4, 1, 3, NoValue} \X {-4, -2, 1, 4, 12, 20, NoValue}
TreeFields  == <<[kind |-> "other", codes |-> <<>>, name |-> "x"],
                 [kind |-> "string", codes |-> LightGBM!FitEncoder({0, 7, 9, 11}), name |-> "c"]>>
TreeRows    == {-4, 1, 3, NoValue} \X {0, 7, 8, 9, 11}
TreeCalibration == [x |-> <<-2, 6, 10>>, y |-> <<0, 1, 4>>]
Loads(tree) == LightGBM!ParseOK(Header(1), <<tree, Stump>>, TRUE)
TrainTree ==
    /\ subject = "none" /\ subject' = "model"
    /\ \E l0, r0, l1, r1 \in Children, threshold \in {0, 4, 6}, missing \in {0, 1, 2, 3},
               default \in BOOLEAN, categorical \in BOOLEAN :
              input' = Tree(<<l0, l1>>, <<r0, r1>>, threshold, missing, default, categorical)

Calibrate == /\ subject \in {"none", "knots"} /\ Len(input) < MaxKnots
             /\ subject' = "knots"
             /\ \E x \in 1 .. 5, y \in 0 .. 4 : input' = Append(input, <<x, y>>)
Calibration(knots) == [x |-> [i \in DOMAIN knots |-> knots[i][1]], y |-> [i \in DOMAIN knots |-> knots[i][2]]]

Contribute == /\ subject \in {"none", "contributions"} /\ Len(input) < 4
              /\ subject' = "contributions"
              /\ \E c \in {-1, 0, 2, 3} : input' = Append(input, c)
ModelFields == <<[kind |-> "string", codes |-> LightGBM!FitEncoder({0, 7, 9})], [kind |-> "mean", codes |-> <<>>],
                 [kind |-> "amount", codes |-> <<>>], [kind |-> "count", codes |-> <<>>]>>
ModelRows == {0, 7, 8} \X {5, NoValue} \X {5} \X {5, NoValue}

\* Whatever file loads can be walked and explained, a calibration keeps the
\* order of scores, and the reasons are the largest contributions.
ScoresExplained ==
    /\ subject = "model" =>
         /\ LightGBM!WalksEnd(input, 2, Vectors)
         /\ Loads(input) => \A row \in TreeRows :
              LightGBM!Telescopes(<<input, Stump>>, TreeCalibration, TreeFields, row)
    /\ subject = "knots" => LightGBM!KeepsOrder(Calibration(input), 0 .. 6)
    /\ subject = "contributions" /\ Len(input) = 4 =>
         \A row \in ModelRows : LightGBM!ReasonsExplain(ModelFields, row, input)

-----------------------------------------------------------------------------
(* The dataset: rows of a CSV, files replaced during a load, and payloads. *)

FullHeader  == <<"TransactionAmt", "TransactionID", "isFraud", "card1", "TransactionDT">>
CSVRows == {Blank, 7} \X {1, 2} \X {Blank, 1} \X {5} \X {-3, 1, 4, 13}
             \cup {<<7, Junk, 0, 5, 1>>, <<7, 1, 2, 5, 1>>}
Write == /\ subject \in {"none", "csv"} /\ Len(input) < MaxRows
         /\ subject' = "csv"
         /\ \E r \in CSVRows : input' = Append(input, r)
\* What becomes of a file at the three moments of a load and after it: it may go
\* and come back, but never as an older version.
Fates  == {f \in [1 .. 4 -> 0 .. 2] : \A i, j \in 1 .. 4 : i < j /\ f[j] # Data!Gone => f[i] <= f[j]}
Reload == /\ subject = "none" /\ subject' = "load"
          /\ \E txns, ids \in Fates, written \in BOOLEAN,
                found \in {Data!NoCache, Data!Corrupt, Data!CacheOf(<<1, 1>>, <<1, 1>>)} :
               input' = [at |-> [m \in 1 .. 3 |-> <<txns[m], ids[m]>>], later |-> <<txns[4], ids[4]>>,
                         written |-> written, found |-> found]
Submit == /\ subject = "none" /\ subject' = "payload"
          /\ \E keys \in SUBSET {"amount", "card", "device", "card_1"} :
               \E m \in [keys -> {[type |-> "null"], [type |-> "number", v |-> 3],
                                  [type |-> "string", v |-> 9]}] : input' = m

\* What is read is what was written: rows in one order, months in time, the
\* cache never older than files that are in place, a replayed payment itself
\* again.
Identities == <<<<1, "phone">>, <<3, "desktop">>>>
FileKept(r, reversed) ==
    /\ Data!InTimeOrder(r, reversed)
    /\ r.ok => /\ Data!CacheKeepsRows(r.rows, [fingerprint |-> 1, synthetic |-> TRUE])
               /\ \A i \in DOMAIN r.rows : Data!ReplayRecovers(r.rows[i])
DataKept ==
    /\ subject = "csv" => FileKept(Data!ReadCSV([header |-> FullHeader, rows |-> input], Identities),
                                   Data!ReadCSV([header |-> FullHeader, rows |-> Reverse(input)], Identities))
    /\ subject = "load" => Data!LoadIsFresh(input.found, input.at, input.written, input.later)
    /\ subject = "payload" => Data!NothingIgnored(input)

-----------------------------------------------------------------------------
Look == /\ subject # "store"
        /\ \/ RulesNext \/ Share \/ Charge \/ Publish \/ TrainTree \/ Calibrate \/ Contribute
           \/ Write \/ Reload \/ Submit
        /\ UNCHANGED storeVars
Next == \/ Look
        \* The keyed stores in use, whose state is a subject of its own.
        \/ subject \in {"none", "store"} /\ subject' = "store" /\ input' = input /\ StoreNext
Init == NoInput /\ StoreInit
Spec == Init /\ [][Next]_<<vars, storeVars>>
=============================================================================
