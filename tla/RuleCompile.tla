---------------------------- MODULE RuleCompile -----------------------------
(***************************************************************************)
(* The checker (rules/check.go), the closure compiler (rules/compile.go)   *)
(* and the rule set (rules/ruleset.go) over the trees of RuleSyntax.       *)
(*                                                                         *)
(* A row gives each attribute a value; NaN is a missing number and the     *)
(* empty sequence is missing text.  Numbers are integers and division      *)
(* rounds down: nothing here depends on how a quotient is rounded.  Text   *)
(* is a sequence of letters, a letter above UpperCase its capital.  A      *)
(* compiled closure is a function of the row.                              *)
(***************************************************************************)
EXTENDS RuleSyntax, SequencesExt

CONSTANTS Catalog,    \* attribute name -> "number" or "string"
          Lists,      \* list name -> [kind, values]: the named lists
          Rows,       \* the rows payments may have
          NaN,        \* the missing number
          UpperCase   \* letters above it are capitals

Missing == <<>>
Empty   == [num |-> <<>>, str |-> <<>>]     \* the row constants are folded on
AnyRow  == Rows \cup {Empty}

-----------------------------------------------------------------------------
(* Check: the type of a tree and whether it is free of errors. *)

Typed(t, ok) == [t |-> t, ok |-> ok]
Builtins == {"is_missing", "lower", "starts_with"}
Arity(fn) == IF fn = "starts_with" THEN 2 ELSE 1

\* normStrings and normNumbers drop missing values; a list is then a set.
Normal(kind, vs) == IF kind = "number" THEN vs \ {NaN} ELSE vs \ {Missing}

ItemKind(it) == IF it.k = "string" THEN "string" ELSE "number"
ItemValue(it) == CASE it.k = "string" -> it.s
                   [] it.k = "number" -> it.n
                   [] it.k = "unary"  -> -it.x.n

\* A named list, or a literal one whose items are text or numbers, not both.
ListOf(list) ==
    IF list.k = "listref"
    THEN IF list.name \in DOMAIN Lists
         THEN [ok |-> TRUE, kind |-> Lists[list.name].kind,
               values |-> Normal(Lists[list.name].kind, Lists[list.name].values)]
         ELSE [ok |-> FALSE]
    ELSE LET items == {list.items[i] : i \in DOMAIN list.items}
             kinds == {ItemKind(it) : it \in items}
         IN  IF \/ \E it \in items : it.k = "string" /\ it.s = Missing
                \/ \E a, b \in kinds : a # b
             THEN [ok |-> FALSE]
             ELSE [ok |-> TRUE, kind |-> CHOOSE k \in kinds : TRUE,
                   values |-> {ItemValue(it) : it \in items}]

RECURSIVE CheckExpr(_)

CheckComparison(e) ==
    LET x == CheckExpr(e.x)
        y == CheckExpr(e.y)
    IN  Typed("bool", /\ x.ok /\ y.ok
                      /\ x.t = y.t /\ x.t \in {"number", "string"}
                      /\ x.t = "string" => e.op \in {"eq", "ne"})

CheckBinary(e) ==
    LET x    == CheckExpr(e.x)
        y    == CheckExpr(e.y)
        want == IF e.op \in Arithmetic THEN "number" ELSE "bool"
        ok   == x.t = want /\ y.t = want
    IN  Typed(IF want = "number" /\ ~ok THEN "invalid" ELSE want,
              ok /\ x.ok /\ y.ok)

CheckIn(e) ==
    LET x == CheckExpr(e.x)
        l == ListOf(e.list)
    IN  Typed("bool", x.ok /\ x.t # "bool" /\ l.ok /\ l.kind = x.t)

CallType(fn) == IF fn = "lower" THEN "string" ELSE "bool"

CheckCall(e) ==
    IF e.name \notin Builtins \/ Len(e.args) # Arity(e.name)
    THEN Typed("invalid", FALSE)
    ELSE LET ok == \A i \in DOMAIN e.args :
                      LET a == CheckExpr(e.args[i])
                      IN  a.ok /\ a.t \in IF e.name = "is_missing"
                                          THEN {"number", "string"} ELSE {"string"}
         IN  Typed(IF ok THEN CallType(e.name) ELSE "invalid", ok)

CheckExpr(e) ==
    CASE e.k = "attr"   -> IF e.name \in DOMAIN Catalog
                           THEN Typed(Catalog[e.name], TRUE)
                           ELSE Typed("invalid", FALSE)
      [] e.k = "number" -> Typed("number", TRUE)
      [] e.k = "string" -> IF e.s = Missing THEN Typed("invalid", FALSE)
                                            ELSE Typed("string", TRUE)
      [] e.k = "bool"   -> Typed("bool", TRUE)
      [] e.k = "unary"  -> LET x == CheckExpr(e.x)
                               want == IF e.op = "not" THEN "bool" ELSE "number"
                           IN  Typed(IF e.op = "not" \/ x.t = want THEN want
                                     ELSE "invalid", x.ok /\ x.t = want)
      [] e.k = "binary" -> IF e.op \in Comparisons THEN CheckComparison(e)
                                                   ELSE CheckBinary(e)
      [] e.k = "in"     -> CheckIn(e)
      [] e.k = "call"   -> CheckCall(e)
      [] OTHER          -> Typed("invalid", FALSE)

Checks(e) == LET c == CheckExpr(e) IN c.ok /\ c.t = "bool"

-----------------------------------------------------------------------------
(* Compile. *)

Const(v)    == [fn |-> [r \in AnyRow |-> v], konst |-> TRUE, v |-> v, lower |-> FALSE]
Closure(fn) == [fn |-> fn, konst |-> FALSE, lower |-> FALSE]
Fold(fn, konst) == IF konst THEN Const(fn[Empty]) ELSE Closure(fn)

Neg(v) == IF v = NaN THEN NaN ELSE -v
Div(a, b) == IF b = 0 THEN NaN ELSE a \div b
Arith(op, a, b) ==
    IF a = NaN \/ b = NaN THEN NaN
    ELSE CASE op = "add" -> a + b
           [] op = "sub" -> a - b
           [] op = "mul" -> a * b
           [] op = "div" -> Div(a, b)

RECURSIVE CompileNum(_), CompileStr(_), CompileBool(_, _)

CompileNum(e) ==
    CASE e.k = "attr"   -> Closure([r \in AnyRow |-> r.num[e.name]])
      [] e.k = "number" -> Const(e.n)
      [] e.k = "unary"  -> LET x == CompileNum(e.x)
                           IN  Fold([r \in AnyRow |-> Neg(x.fn[r])], x.konst)
      [] e.k = "binary" -> LET x  == CompileNum(e.x)
                               y  == CompileNum(e.y)
                               fn == [r \in AnyRow |-> Arith(e.op, x.fn[r], y.fn[r])]
                           IN  IF ~x.konst /\ y.konst /\ e.op = "div" /\ y.v = 0
                               THEN Const(NaN)
                               ELSE Fold(fn, x.konst /\ y.konst)

Lower(s) == [i \in DOMAIN s |-> IF s[i] > UpperCase THEN s[i] - UpperCase ELSE s[i]]
Folded(s, lower) == IF lower THEN Lower(s) ELSE s

CompileStr(e) ==
    CASE e.k = "attr"   -> Closure([r \in AnyRow |-> r.str[e.name]])
      [] e.k = "string" -> Const(e.s)
      [] e.k = "call"   -> LET x == CompileStr(e.args[1])
                           IN  IF x.konst THEN Const(Lower(x.v))
                                          ELSE [x EXCEPT !.lower = TRUE]

DualNever(op) == op                                                \* mutant
Dual(op) == IF op = "and" THEN "or" ELSE "and"

Negate(op) == CASE op = "eq" -> "ne" [] op = "ne" -> "eq"
                [] op = "lt" -> "ge" [] op = "le" -> "gt"
                [] op = "gt" -> "le" [] op = "ge" -> "lt"
Flip(op) == CASE op = "lt" -> "gt" [] op = "le" -> "ge"
              [] op = "gt" -> "lt" [] op = "ge" -> "le" [] OTHER -> op

\* A constant operand decides the result or drops out.
Logical(op, x, y) ==
    LET decisive == op = "or"
    IN  CASE x.konst            -> IF x.v = decisive THEN Const(decisive) ELSE y
          [] ~x.konst /\ y.konst -> IF y.v = decisive THEN Const(decisive) ELSE x
          [] OTHER -> Closure([r \in AnyRow |-> IF op = "and" THEN x.fn[r] /\ y.fn[r]
                                                            ELSE x.fn[r] \/ y.fn[r]])

\* Go compares floats: every comparison with NaN is false, except !=.
Holds(op, a, b) ==
    IF NaN \in {a, b} THEN op = "ne"
    ELSE CASE op = "eq" -> a = b [] op = "ne" -> a # b
           [] op = "lt" -> a < b [] op = "le" -> a <= b
           [] op = "gt" -> a > b [] op = "ge" -> a >= b

\* The closures rule missing out explicitly only where Go does not.
PresentNe(op, a, b) == Holds(op, a, b) /\ (op = "ne" => NaN \notin {a, b})

CompareNum(op, x, y) ==
    LET swap == x.konst /\ ~y.konst
        a  == IF swap THEN y ELSE x
        b  == IF swap THEN x ELSE y
        o  == IF swap THEN Flip(op) ELSE op
    IN  IF b.konst /\ ~a.konst /\ b.v = NaN THEN Const(FALSE)
        ELSE Fold([r \in AnyRow |-> PresentNe(o, a.fn[r], b.fn[r])],
                  a.konst /\ b.konst)

FoldEqual(a, lowerA, b, lowerB) == Folded(a, lowerA) = Folded(b, lowerB)

CompareStr(op, x, y) ==
    LET swap == x.konst /\ ~y.konst
        a  == IF swap THEN y ELSE x
        b  == IF swap THEN x ELSE y
        ne == op = "ne"
    IN  IF b.konst /\ ~a.konst /\ b.v = Missing THEN Const(FALSE)
        ELSE Fold([r \in AnyRow |->
                     /\ a.fn[r] # Missing /\ b.fn[r] # Missing
                     /\ FoldEqual(a.fn[r], a.lower, b.fn[r], b.lower) # ne],
                  a.konst /\ b.konst)

InNum(x, values, want) ==
    Fold([r \in AnyRow |-> x.fn[r] # NaN /\ (x.fn[r] \in values) = want], x.konst)

InStr(x, values, want) ==
    Fold([r \in AnyRow |-> /\ x.fn[r] # Missing
                           /\ (Folded(x.fn[r], x.lower) \in values) = want], x.konst)

\* The static type a node reports (ast.go).
TypeOf(e) == CASE e.k = "attr"   -> Catalog[e.name]
               [] e.k \in {"number", "string"} -> e.k
               [] e.k = "unary"  -> IF e.op = "neg" THEN "number" ELSE "bool"
               [] e.k = "binary" -> IF e.op \in Arithmetic THEN "number" ELSE "bool"
               [] e.k = "call"   -> CallType(e.name)
               [] OTHER          -> "bool"

IsMissing(arg, want) ==
    IF TypeOf(arg) = "number"
    THEN LET x == CompileNum(arg)
         IN  Fold([r \in AnyRow |-> (x.fn[r] = NaN) = want], x.konst)
    ELSE LET x == CompileStr(arg)
         IN  Fold([r \in AnyRow |-> (x.fn[r] = Missing) = want], x.konst)

HasPrefix(s, p) == IsPrefix(p, s)

StartsWith(x, p, want) ==
    IF p.konst /\ ~x.konst /\ p.v = Missing THEN Const(FALSE)
    ELSE Fold([r \in AnyRow |->
                 /\ x.fn[r] # Missing /\ p.fn[r] # Missing
                 /\ HasPrefix(Folded(x.fn[r], x.lower), Folded(p.fn[r], p.lower)) = want],
              x.konst /\ p.konst)

\* "Is e TRUE?" when want, "is e FALSE?" when not.
CompileBool(e, want) ==
    CASE e.k = "bool"  -> Const(e.b = want)
      [] e.k = "unary" -> CompileBool(e.x, ~want)
      [] e.k = "binary" /\ e.op \in {"and", "or"} ->
           Logical(IF want THEN e.op ELSE Dual(e.op),
                   CompileBool(e.x, want), CompileBool(e.y, want))
      [] e.k = "binary" /\ e.op \in Comparisons ->
           LET op == IF want THEN e.op ELSE Negate(e.op)
           IN  IF TypeOf(e.x) = "number"
               THEN CompareNum(op, CompileNum(e.x), CompileNum(e.y))
               ELSE CompareStr(op, CompileStr(e.x), CompileStr(e.y))
      [] e.k = "in" -> LET l == ListOf(e.list)
                       IN  IF l.kind = "number"
                           THEN InNum(CompileNum(e.x), l.values, want)
                           ELSE InStr(CompileStr(e.x), l.values, want)
      [] e.k = "call" /\ e.name = "is_missing" -> IsMissing(e.args[1], want)
      [] e.k = "call" /\ e.name = "starts_with" ->
           StartsWith(CompileStr(e.args[1]), CompileStr(e.args[2]), want)

Compile(r) == [action |-> r.action, shadow |-> r.shadow,
               match |-> CompileBool(r.cond, TRUE).fn]

-----------------------------------------------------------------------------
(* The rule set. *)

\* Load refuses the whole set when one line fails; else the compiled rules.
Load(lines) ==
    LET written == SelectSeq(lines, LAMBDA ts : ts # <<>>)
        parsed  == [i \in DOMAIN written |-> ParseRule(written[i])]
    IN  IF \A i \in DOMAIN parsed : parsed[i].ok /\ Checks(parsed[i].e.cond)
        THEN [ok |-> TRUE, rules |-> [i \in DOMAIN parsed |-> Compile(parsed[i].e)]]
        ELSE [ok |-> FALSE]

\* The positions of the live rules in the order they decide: allow rules, then
\* block, then review, each in source order.
InOrder(rules, action) ==
    SelectSeq([i \in DOMAIN rules |-> i],
              LAMBDA i : ~rules[i].shadow /\ rules[i].action = action)
ShadowsFirst(rules) ==                                             \* mutant
    SelectSeq([i \in DOMAIN rules |-> i], LAMBDA i : rules[i].shadow)
      \o InOrder(rules, "allow") \o InOrder(rules, "block") \o InOrder(rules, "review")
DecisionOrder(rules) ==
    InOrder(rules, "allow") \o InOrder(rules, "block") \o InOrder(rules, "review")

\* The first live rule that matches decides; with none the payment is allowed.
\* Every shadow rule that matches is listed, whatever was decided.
Evaluate(rules, row) ==
    LET hits == SelectSeq(DecisionOrder(rules), LAMBDA i : rules[i].match[row])
    IN  [rule   |-> IF hits = <<>> THEN 0 ELSE hits[1],
         action |-> IF hits = <<>> THEN "allow" ELSE rules[hits[1]].action,
         shadow |-> {i \in DOMAIN rules : rules[i].shadow /\ rules[i].match[row]}]

-----------------------------------------------------------------------------
(* The meaning a condition has (rules/doc.go): Kleene's three values.      *)

RECURSIVE NumberIn(_, _), TextIn(_, _), Truth(_, _)

NumberIn(e, r) == CASE e.k = "attr"   -> r.num[e.name]
                    [] e.k = "number" -> e.n
                    [] e.k = "unary"  -> Neg(NumberIn(e.x, r))
                    [] e.k = "binary" -> Arith(e.op, NumberIn(e.x, r), NumberIn(e.y, r))
TextIn(e, r)   == CASE e.k = "attr"   -> r.str[e.name]
                    [] e.k = "string" -> e.s
                    [] e.k = "call"   -> Lower(TextIn(e.args[1], r))
ValueIn(e, r)  == IF TypeOf(e) = "number" THEN NumberIn(e, r) ELSE TextIn(e, r)
IsAbsent(e, r) == ValueIn(e, r) = IF TypeOf(e) = "number" THEN NaN ELSE Missing

Known(b)   == IF b THEN "TRUE" ELSE "FALSE"
Not3(v)    == CASE v = "TRUE" -> "FALSE" [] v = "FALSE" -> "TRUE" [] OTHER -> v
And3(v, w) == CASE "FALSE" \in {v, w} -> "FALSE"
                [] v = "TRUE" /\ w = "TRUE" -> "TRUE"
                [] OTHER -> "UNKNOWN"

Truth(e, r) ==
    CASE e.k = "bool"  -> Known(e.b)
      [] e.k = "unary" -> Not3(Truth(e.x, r))
      [] e.k = "binary" /\ e.op = "and" -> And3(Truth(e.x, r), Truth(e.y, r))
      [] e.k = "binary" /\ e.op = "or"  ->
           Not3(And3(Not3(Truth(e.x, r)), Not3(Truth(e.y, r))))
      [] e.k = "binary" /\ e.op \in Comparisons ->
           IF IsAbsent(e.x, r) \/ IsAbsent(e.y, r) THEN "UNKNOWN"
           ELSE IF e.op = "eq" THEN Known(ValueIn(e.x, r) = ValueIn(e.y, r))
           ELSE IF e.op = "ne" THEN Known(ValueIn(e.x, r) # ValueIn(e.y, r))
           ELSE Known(Holds(e.op, NumberIn(e.x, r), NumberIn(e.y, r)))
      [] e.k = "in" -> IF IsAbsent(e.x, r) THEN "UNKNOWN"
                       ELSE Known(ValueIn(e.x, r) \in ListOf(e.list).values)
      [] e.k = "call" /\ e.name = "is_missing" -> Known(IsAbsent(e.args[1], r))
      [] e.k = "call" /\ e.name = "starts_with" ->
           IF IsAbsent(e.args[1], r) \/ IsAbsent(e.args[2], r) THEN "UNKNOWN"
           ELSE Known(HasPrefix(TextIn(e.args[1], r), TextIn(e.args[2], r)))

\* A compiled condition answers both questions about every row as the three
\* values do, constants folded or not.
CompiledAgrees(e) ==
    \A r \in Rows : /\ CompileBool(e, TRUE).fn[r]  <=> Truth(e, r) = "TRUE"
                    /\ CompileBool(e, FALSE).fn[r] <=> Truth(e, r) = "FALSE"

\* Shadow rules never influence a decision, and an allow rule that matches
\* beats every other (ruleset.go:51-66): what is decided is what the set
\* without its shadow rules decides.
ShadowNeverDecides(rules) ==
    \A r \in Rows :
       /\ Evaluate(rules, r).action
            = Evaluate(SelectSeq(rules, LAMBDA c : ~c.shadow), r).action
       /\ (\E i \in DOMAIN rules : /\ ~rules[i].shadow /\ rules[i].match[r]
                                   /\ rules[i].action = "allow")
            => Evaluate(rules, r).action = "allow"
=============================================================================
