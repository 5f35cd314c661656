----------------------------- MODULE ColumnEval -----------------------------
(***************************************************************************)
(* The second back end of the rule compiler (backtest/vector.go, ops.go,   *)
(* bitmap.go, table.go, ruleset.go): a checked condition becomes a tree of *)
(* column operators that evaluates a chunk of rows at a time into a bitmap.*)
(*                                                                         *)
(* A bitmap is the set of its set bits.  Rows are numbered from 0, and a   *)
(* string column holds codes into its dictionary, code 0 being missing.    *)
(***************************************************************************)
EXTENDS RuleCompile

CONSTANTS WordRows,       \* bits of a word: 64
          ChunkRows,      \* rows evaluated per step, a multiple of WordRows
          SparseDensity   \* a chunk with fewer candidates than 1 in this is refined

Least(a, b) == IF a < b THEN a ELSE b
Most(a, b)  == IF a < b THEN b ELSE a

-----------------------------------------------------------------------------
(* The table. *)

Columns(kind) == {a \in DOMAIN Catalog : Catalog[a] = kind}

NoRows == [n |-> 0, num |-> [a \in Columns("number") |-> <<>>],
           codes |-> [a \in Columns("string") |-> <<>>],
           dict  |-> [a \in Columns("string") |-> <<Missing>>]]

Grown(dict, s)  == IF \E c \in DOMAIN dict : dict[c] = s THEN dict ELSE Append(dict, s)
CodeOf(dict, s) == (CHOOSE c \in DOMAIN dict : dict[c] = s) - 1

\* Builder.Append.
AppendRow(t, row) ==
    LET dict == [a \in Columns("string") |-> Grown(t.dict[a], row.str[a])]
    IN  [n     |-> t.n + 1,
         num   |-> [a \in Columns("number") |-> Append(t.num[a], row.num[a])],
         dict  |-> dict,
         codes |-> [a \in Columns("string") |->
                      Append(t.codes[a], CodeOf(dict[a], row.str[a]))]]

TableOf(rows) == FoldLeft(AppendRow, NoRows, rows)

\* Table.Row.
RowOf(t, i) == [num |-> [a \in Columns("number") |-> t.num[a][i + 1]],
                str |-> [a \in Columns("string") |-> t.dict[a][t.codes[a][i + 1] + 1]]]

\* Table.Validate, of what a rule reads.
Valid(t) ==
    /\ \A a \in Columns("number") : Len(t.num[a]) = t.n
    /\ \A a \in Columns("string") :
          /\ Len(t.codes[a]) = t.n
          /\ t.dict[a][1] = Missing
          /\ \A c \in 2 .. Len(t.dict[a]) : t.dict[a][c] # Missing
          /\ \A i \in 1 .. t.n : t.codes[a][i] < Len(t.dict[a])

-----------------------------------------------------------------------------
(* Compilation: numbers are a constant or a value per row, col marking a   *)
(* bare column; text is a constant or a column seen through its dictionary.*)

Fixed(v)        == [konst |-> TRUE, v |-> v, col |-> FALSE]
Vector(at, col) == [konst |-> FALSE, at |-> at, col |-> col]
At(x, i)        == IF x.konst THEN x.v ELSE x.at[i]
RowsOf(t)       == 0 .. t.n - 1

\* The kernels for numbers: a value per row, from the rows of the operands.
NegatedRows(t, x)      == [i \in RowsOf(t) |-> Neg(x.at[i])]
ArithRows(t, op, x, y) == [i \in RowsOf(t) |-> Arith(op, At(x, i), At(y, i))]

RECURSIVE VecNum(_, _), VecStr(_, _), VecCond(_, _, _)

VecNum(t, e) ==
    CASE e.k = "attr"   -> Vector([i \in RowsOf(t) |-> t.num[e.name][i + 1]], TRUE)
      [] e.k = "number" -> Fixed(e.n)
      [] e.k = "unary"  -> LET x == VecNum(t, e.x)
                           IN  IF x.konst THEN Fixed(Neg(x.v))
                               ELSE Vector(NegatedRows(t, x), FALSE)
      [] e.k = "binary" -> LET x == VecNum(t, e.x)
                               y == VecNum(t, e.y)
                           IN  IF x.konst /\ y.konst THEN Fixed(Arith(e.op, x.v, y.v))
                               ELSE Vector(ArithRows(t, e.op, x, y), FALSE)

VecStr(t, e) ==
    CASE e.k = "attr"   -> [konst |-> FALSE, attr |-> e.name, lower |-> FALSE]
      [] e.k = "string" -> [konst |-> TRUE, v |-> e.s]
      [] e.k = "call"   -> LET x == VecStr(t, e.args[1])
                           IN  IF x.konst THEN [x EXCEPT !.v = Lower(x.v)]
                                          ELSE [x EXCEPT !.lower = TRUE]

\* view: the value each code of a column stands for.
View(t, s) == [c \in 0 .. Len(t.dict[s.attr]) - 1 |->
                 Folded(t.dict[s.attr][c + 1], s.lower)]
CodeAt(t, s, i) == t.codes[s.attr][i + 1]

\* A condition: a constant, a test per row, or and/or.  refiner says whether
\* the operator can look at chosen rows only.
Leaf(holds, refiner) == [konst |-> FALSE, k |-> "leaf", holds |-> holds, refiner |-> refiner]
Logic(or, x, y)      == [konst |-> FALSE, k |-> "logic", or |-> or, x |-> x, y |-> y]

\* The kernels for conditions: what holds of each row.
LookedUp(t, s, lut)     == [i \in RowsOf(t) |-> lut[CodeAt(t, s, i)]]
ComparedRows(t, op, x, y) == [i \in RowsOf(t) |-> PresentNe(op, At(x, i), At(y, i))]
MissingRows(t, x, want) == [i \in RowsOf(t) |-> (x.at[i] = NaN) = want]

\* A value that is not in the set must still be present: the FALSE mask of in.
InSetRows(t, x, set, want) ==
    [i \in RowsOf(t) |-> IF want THEN x.at[i] \in set
                         ELSE x.at[i] # NaN /\ x.at[i] \notin set]

\* Two columns are compared by ids that equal text shares; 0 is missing.
EqualPairs(t, a, b, ne) ==
    [i \in RowsOf(t) |-> LET s == View(t, a)[CodeAt(t, a, i)]
                             u == View(t, b)[CodeAt(t, b, i)]
                         IN  s # Missing /\ u # Missing /\ (s = u) # ne]
PrefixPairs(t, x, p, want) ==
    [i \in RowsOf(t) |-> LET s == View(t, x)[CodeAt(t, x, i)]
                             u == View(t, p)[CodeAt(t, p, i)]
                         IN  s # Missing /\ u # Missing /\ HasPrefix(s, u) = want]

\* lut decides a predicate once per code; missing, code 0, is always false.
Lut(t, s, Pred(_)) ==
    LET view == View(t, s)
    IN  Leaf(LookedUp(t, s, [c \in DOMAIN view |-> c # 0 /\ Pred(view[c])]), TRUE)

VecLogical(or, x, y) ==
    CASE x.konst             -> IF x.v = or THEN Fixed(or) ELSE y
      [] ~x.konst /\ y.konst -> IF y.v = or THEN Fixed(or) ELSE x
      [] OTHER               -> Logic(or, x, y)

VecCompareNum(t, op, x, y) ==
    LET o == IF x.konst THEN Flip(op) ELSE op
        a == IF x.konst THEN y ELSE x
        b == IF x.konst THEN x ELSE y
    IN  CASE x.konst /\ y.konst         -> Fixed(PresentNe(op, x.v, y.v))
          [] b.konst /\ ~a.konst /\ b.v = NaN -> Fixed(FALSE)
          [] OTHER -> Leaf(ComparedRows(t, o, a, b), a.col /\ (b.konst \/ b.col))

VecCompareStr(t, op, x, y) ==
    LET ne == op = "ne"
        a  == IF x.konst THEN y ELSE x
        b  == IF x.konst THEN x ELSE y
    IN  CASE x.konst /\ y.konst -> Fixed(x.v # Missing /\ y.v # Missing /\ (x.v = y.v) # ne)
          [] b.konst /\ ~a.konst /\ b.v = Missing -> Fixed(FALSE)
          [] b.konst /\ ~a.konst /\ b.v # Missing -> Lut(t, a, LAMBDA v : (v = b.v) # ne)
          [] OTHER -> Leaf(EqualPairs(t, a, b, ne), TRUE)

VecInNum(t, x, set, want) ==
    IF x.konst THEN Fixed(x.v # NaN /\ (x.v \in set) = want)
    ELSE Leaf(InSetRows(t, x, set, want), x.col)

VecInStr(t, x, set, want) ==
    IF x.konst THEN Fixed(x.v # Missing /\ (x.v \in set) = want)
    ELSE Lut(t, x, LAMBDA v : (v \in set) = want)

VecIsMissing(t, arg, want) ==
    IF TypeOf(arg) = "number"
    THEN LET x == VecNum(t, arg)
         IN  IF x.konst THEN Fixed((x.v = NaN) = want)
             ELSE Leaf(MissingRows(t, x, want), x.col)
    ELSE LET x == VecStr(t, arg)
         IN  IF x.konst THEN Fixed((x.v = Missing) = want)
             ELSE Leaf([i \in RowsOf(t) |-> (CodeAt(t, x, i) = 0) = want], TRUE)

VecStartsWith(t, x, p, want) ==
    CASE x.konst /\ p.konst ->
           Fixed(x.v # Missing /\ p.v # Missing /\ HasPrefix(x.v, p.v) = want)
      [] ~x.konst /\ p.konst ->
           IF p.v = Missing THEN Fixed(FALSE)
           ELSE Lut(t, x, LAMBDA v : HasPrefix(v, p.v) = want)
      [] x.konst /\ ~p.konst ->
           IF x.v = Missing THEN Fixed(FALSE)
           ELSE Lut(t, p, LAMBDA v : HasPrefix(x.v, v) = want)
      [] OTHER -> Leaf(PrefixPairs(t, x, p, want), FALSE)

\* The mask of the rows where e is TRUE (want) or where it is FALSE.
VecCond(t, e, want) ==
    CASE e.k = "bool"  -> Fixed(e.b = want)
      [] e.k = "unary" -> VecCond(t, e.x, ~want)
      [] e.k = "binary" /\ e.op \in {"and", "or"} ->
           VecLogical((e.op = "or") = want, VecCond(t, e.x, want), VecCond(t, e.y, want))
      [] e.k = "binary" /\ e.op \in Comparisons ->
           LET op == IF want THEN e.op ELSE Negate(e.op)
           IN  IF TypeOf(e.x) = "number"
               THEN VecCompareNum(t, op, VecNum(t, e.x), VecNum(t, e.y))
               ELSE VecCompareStr(t, op, VecStr(t, e.x), VecStr(t, e.y))
      [] e.k = "in" -> LET l == ListOf(e.list)
                       IN  IF l.kind = "number"
                           THEN VecInNum(t, VecNum(t, e.x), l.values, want)
                           ELSE VecInStr(t, VecStr(t, e.x), l.values, want)
      [] e.k = "call" /\ e.name = "is_missing"  -> VecIsMissing(t, e.args[1], want)
      [] e.k = "call" /\ e.name = "starts_with" ->
           VecStartsWith(t, VecStr(t, e.args[1]), VecStr(t, e.args[2]), want)

-----------------------------------------------------------------------------
(* Evaluation of a chunk: its rows from c.lo, c.n of them, as bits from 0. *)

Words(n)    == (n + WordRows - 1) \div WordRows
NoTailMask(n) == 0 .. WordRows - 1                                 \* mutant
TailMask(n) == IF n % WordRows # 0 THEN 0 .. (n % WordRows) - 1 ELSE 0 .. WordRows - 1

\* Every bit of the chunk's words, but the ones past n in the last.
Filled(n) == {b \in 0 .. Words(n) * WordRows - 1 :
                b \div WordRows = Words(n) - 1 => b % WordRows \in TailMask(n)}

Sparse(bits, n) == Cardinality(bits) * SparseDensity <= n
Refines(b)      == IF b.k = "leaf" THEN b.refiner ELSE ~b.or

RECURSIVE EvalNode(_, _), RefineNode(_, _, _)

\* One side of an and, on the candidates sel only where it can.
RefineSide(b, c, sel) ==
    IF Refines(b) THEN RefineNode(b, c, sel) ELSE sel \cap EvalNode(b, c)

RefineNode(b, c, sel) ==
    IF b.k = "leaf" THEN {j \in sel : b.holds[c.lo + j]}
    ELSE LET left == RefineSide(b.x, c, sel)
         IN  IF left = {} THEN {} ELSE RefineSide(b.y, c, left)

\* and/or skip the right side when the left decides the whole chunk.
EvalNode(b, c) ==
    CASE b.konst -> IF b.v THEN Filled(c.n) ELSE {}
      [] ~b.konst /\ b.k = "leaf" -> {j \in 0 .. c.n - 1 : b.holds[c.lo + j]}
      [] OTHER ->
           LET left == EvalNode(b.x, c)
           IN  CASE b.or  /\ left = Filled(c.n) -> left
                 [] ~b.or /\ left = {} -> left
                 [] ~b.or /\ left # {} /\ Sparse(left, c.n) /\ Refines(b.y) ->
                      RefineNode(b.y, c, left)
                 [] OTHER -> IF b.or THEN left \cup EvalNode(b.y, c)
                                     ELSE left \cap EvalNode(b.y, c)

\* forChunksFrom: the chunks of rows start .. hi-1.
Chunks(start, hi) ==
    {[lo |-> start + k * ChunkRows, n |-> Least(ChunkRows, hi - start - k * ChunkRows)] :
       k \in 0 .. (hi - start + ChunkRows - 1) \div ChunkRows - 1}

\* EvalMany for one program: chunks start on a word, so the bits of the first
\* word below lo are cleared afterwards.
EvalRows(t, root, lo0, hi0) ==
    LET lo    == Most(lo0, 0)
        hi    == Least(hi0, t.n)
        start == lo - (lo % WordRows)
    IN  IF lo >= hi THEN {}
        ELSE UNION {{c.lo + b : b \in EvalNode(root, c)} : c \in Chunks(start, hi)}
               \ (start .. lo - 1)

-----------------------------------------------------------------------------
(* EvaluateRuleSet: each chunk is decided in order, a row staying open     *)
(* until the first rule takes it.  The result is the deciding rule per row,*)
(* 0 for the default.                                                      *)

DecideChunk(t, rules, c) ==
    LET Step(d, i) ==
          LET newly == EvalNode(VecCond(t, rules[i].cond, TRUE), c) \cap d.open
          IN  [open |-> d.open \ newly,
               by   |-> [j \in DOMAIN d.by |-> IF j \in newly THEN i ELSE d.by[j]]]
    IN  FoldLeft(Step, [open |-> Filled(c.n), by |-> [j \in 0 .. c.n - 1 |-> 0]],
                 DecisionOrder(rules)).by

DecidedBy(t, rules) ==
    [i \in RowsOf(t) |->
       LET c == CHOOSE k \in Chunks(0, t.n) : i \in k.lo .. k.lo + k.n - 1
       IN  DecideChunk(t, rules, c)[i - c.lo]]

-----------------------------------------------------------------------------
\* The columns say of every row what the closures say of it (vector.go:16-21),
\* over the whole table and over any window of it; no bit past it is set.
ColumnsAgree(t, e) ==
    \A lo \in -1 .. t.n, hi \in 0 .. t.n + 1 :
       EvalRows(t, VecCond(t, e, TRUE), lo, hi)
         = {i \in RowsOf(t) : lo <= i /\ i < hi /\ CompileBool(e, TRUE).fn[RowOf(t, i)]}

\* And a backtest of a rule set decides every payment as the service does.
DecisionsAgree(t, rules) ==
    LET compiled == [i \in DOMAIN rules |-> Compile(rules[i])]
        by       == DecidedBy(t, rules)
    IN  \A i \in RowsOf(t) : by[i] = Evaluate(compiled, RowOf(t, i)).rule

\* A table gives back the rows it was built from.
TableKeepsRows(rows) ==
    LET t == TableOf(rows)
    IN  Valid(t) /\ \A i \in RowsOf(t) : RowOf(t, i) = rows[i + 1]
=============================================================================
