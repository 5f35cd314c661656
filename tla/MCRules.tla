------------------------------ MODULE MCRules -------------------------------
(***************************************************************************)
(* The rule language on bounded inputs.  A state holds one input: the text *)
(* of a condition, typed token by token; a tree, built or generated; a     *)
(* rule set; or a table.  Every input is reached from the empty one.       *)
(***************************************************************************)
EXTENDS RuleLint, ColumnEval

CONSTANT MaxTokens      \* tokens typed at most

VARIABLES subject, input
vars == <<subject, input>>

MCNaN == -1000
MCCatalog == [x |-> "number", y |-> "number", a |-> "string", b |-> "string"]
MCLists == [few |-> [kind |-> "number", values |-> {0, 2, -1000}],
            names |-> [kind |-> "string", values |-> {<<>>, <<1>>}]]
MCRows == [num : [x : {MCNaN, 0, 2}, y : {MCNaN, 2}],
           str : [a : {<<>>, <<11>>, <<1, 2>>}, b : {<<>>, <<1>>}]]

Tokens == {NameTok("attr", "x"), NumTok(1), Tok("("), Tok(")"), Tok("not"), Tok("in"),
           OpTok("sub"), OpTok("eq"), Tok("and"), NameTok("list", "few")}

\* Trees for the printer, well typed or not.
Operators == Comparisons \cup Arithmetic \cup {"and", "or"}
Atoms     == {Attr("x"), Number(1), Text(<<1>>)}
Grow(left, right) ==
    {Binary(op, e, f) : op \in Operators, e \in left, f \in right}
      \cup {Unary(op, e) : op \in {"not", "neg"}, e \in left}
      \cup {In(e, ListRef("few")) : e \in left}
      \cup {In(e, ListLit(<<Number(1), Unary("neg", Number(1))>>)) : e \in left}
      \cup {Call("starts_with", <<e, f>>) : e \in left, f \in right}
Small   == Grow(Atoms, Atoms)
OneAtom == Grow({Attr("x")}, {Attr("x")})
Trees   == Grow(Small, Atoms) \cup Grow(Atoms, Small) \cup Grow(OneAtom, OneAtom)

\* Conditions as Generate builds them.
Nums == {Attr("x"), Attr("y"), Number(0), Number(2), Unary("neg", Number(2)),
         Unary("neg", Attr("x")), Binary("div", Attr("y"), Attr("x")),
         Binary("div", Attr("x"), Number(0)), Binary("sub", Number(2), Attr("y"))}
Texts == {Attr("a"), Attr("b"), Text(<<11>>), Text(<<1>>), Call("lower", <<Attr("a")>>),
          Call("lower", <<Text(<<11>>)>>)}
Leaves == {Binary(op, e, f) : op \in Comparisons, e \in Nums, f \in Nums}
            \cup {Binary(op, e, f) : op \in {"eq", "ne"}, e \in Texts, f \in Texts}
            \cup {In(e, ListRef("few")) : e \in Nums}
            \cup {In(e, ListLit(<<Number(2), Number(0)>>)) : e \in Nums}
            \cup {In(e, ListRef("names")) : e \in Texts}
            \cup {Call("is_missing", <<e>>) : e \in Nums \cup Texts}
            \cup {Call("starts_with", <<e, f>>) : e \in Texts, f \in Texts}
            \cup {Bool(TRUE), Bool(FALSE)}
Tests == {Binary("gt", Attr("x"), Number(0)), Binary("le", Attr("x"), Number(0)),
          Binary("eq", Attr("y"), Attr("x")), Binary("ne", Number(2), Attr("y")),
          Binary("lt", Number(2), Number(0)), Binary("ne", Attr("a"), Attr("b")),
          Binary("eq", Attr("a"), Text(<<11>>)), Call("is_missing", <<Attr("a")>>),
          Unary("not", In(Attr("x"), ListRef("few"))), Bool(TRUE)}
Pairs == {Binary(op, e, f) : op \in {"and", "or"}, e \in Tests, f \in Tests}
\* Few rows of the sample pass Few, so what follows it is asked of these rows
\* only; Whole, which compares no column with one, is always of a whole chunk.
Few   == Binary("lt", Attr("x"), Number(2))
Whole == Binary("le", Binary("sub", Number(2), Attr("y")), Attr("x"))
Rests == Pairs \cup {Binary("and", Whole, e) : e \in Tests}
Conditions == Leaves \cup {Unary("not", e) : e \in Leaves \cup Pairs} \cup Pairs
                \cup {Binary("and", e, Few) : e \in Pairs} \cup {Binary("and", Few, e) : e \in Rests}

Policies == {[shadow |-> s, action |-> a, cond |-> c] :
               s \in BOOLEAN, a \in Actions,
               c \in {Binary("gt", Attr("x"), Number(0)), Binary("ne", Attr("a"), Attr("b"))}}

\* The table the columns are evaluated over: six rows, three words.
Sample == <<[num |-> [x |-> 0, y |-> 2],     str |-> [a |-> <<11>>, b |-> <<1>>]],
            [num |-> [x |-> MCNaN, y |-> 2], str |-> [a |-> <<>>, b |-> <<1>>]],
            [num |-> [x |-> 2, y |-> MCNaN], str |-> [a |-> <<1, 2>>, b |-> <<>>]],
            [num |-> [x |-> 2, y |-> 2],     str |-> [a |-> <<11>>, b |-> <<>>]],
            [num |-> [x |-> 0, y |-> MCNaN], str |-> [a |-> <<>>, b |-> <<1>>]]>>
SampleTable == TableOf(Sample)
Probes == {Binary("ne", Attr("y"), Attr("x")), Binary("eq", Attr("a"), Text(<<11>>)),
           Unary("not", In(Attr("x"), ListRef("few")))}

NoInput == subject = "none" /\ input = <<>>

Type == /\ subject \in {"none", "text"} /\ Len(input) < MaxTokens
        /\ subject' = "text"
        /\ \E t \in Tokens : input' = Append(input, t)
Build == /\ subject = "none" /\ subject' = "tree"
         /\ \E e \in Trees : input' = e
Generate == /\ subject = "none" /\ subject' = "condition"
            /\ \E e \in Conditions : input' = e
Deploy == /\ subject \in {"none", "set"} /\ Len(input) < 3
          /\ subject' = "set"
          /\ \E p \in Policies : input' = Append(input, p)
Fill == /\ subject \in {"none", "rows"} /\ Len(input) < 4
        /\ subject' = "rows"
        /\ \E r \in {Sample[1], Sample[2], Sample[3]} : input' = Append(input, r)
Discard == subject # "none" /\ subject' = "none" /\ input' = <<>>
RulesNext == Type \/ Build \/ Generate \/ Deploy \/ Fill \/ Discard

\* A printed rule parses back to the same tree, and so does the canonical text
\* of whatever an analyst typed (printer.go:12-13, ast.go:96-97).
RoundTrips ==
    /\ subject = "text" => Canonical(input)
    /\ subject = "tree" =>
         \A shadow \in BOOLEAN : PrintParses([shadow |-> shadow, action |-> "block", cond |-> input])

\* A condition means its three values, whatever is missing: the closures of the
\* service answer so (compile.go:255-270), the bitmaps of a backtest match the
\* same rows in a table of any length (backtest/vector.go:3-12), and the linter
\* calls none never true that is true of a row (lint.go:12-23). A rule set decides
\* alike in both, by the first match of allow, block, review, and no shadow rule
\* ever changes what it decides (ruleset.go:32-49).
Kleene(e)  == Checks(e) => CompiledAgrees(e)
Shadows(s) == LET set == Load([i \in DOMAIN s |-> PrintRule(s[i])])
              IN  set.ok /\ ShadowNeverDecides(set.rules)
Evaluates ==
    /\ subject = "tree" => Kleene(input)
    /\ subject = "condition" => Kleene(input) /\ ColumnsAgree(SampleTable, input) /\ LintSound(input)
    /\ subject = "set" => DecisionsAgree(SampleTable, input) /\ Shadows(input)
    /\ subject = "rows" => TableKeepsRows(input) /\ \A e \in Probes : ColumnsAgree(TableOf(input), e)
=============================================================================
