------------------------------ MODULE RuleLint ------------------------------
(***************************************************************************)
(* The warnings of rules/lint.go: a condition that is constant once        *)
(* folded, and an and-chain that compares one attribute with constants no  *)
(* value satisfies together.  Which two comparisons are quoted is wording. *)
(***************************************************************************)
EXTENDS RuleCompile

Infinity == 1000000

\* constantCondition: what folding leaves.
IsConstant(e)    == CompileBool(e, TRUE).konst
ConstantValue(e) == CompileBool(e, TRUE).v

RECURSIVE Conjuncts(_)
Conjuncts(e) == IF e.k = "binary" /\ e.op = "and"
                THEN Conjuncts(e.x) \o Conjuncts(e.y) ELSE <<e>>

IsConstNumber(e) == \/ e.k = "number"
                    \/ e.k = "unary" /\ e.op = "neg" /\ e.x.k = "number"
ConstNumber(e)   == IF e.k = "number" THEN e.n ELSE -e.x.n

\* What the chain has said of an attribute so far: an interval and the values
\* ruled out, or the text it equals and the texts it does not.
Bound(v, incl) == [v |-> v, incl |-> incl]
NoNumFacts == [lo |-> Bound(-Infinity, TRUE), hi |-> Bound(Infinity, TRUE), ne |-> {}]
NoStrFacts == [eq |-> {}, ne |-> {}]

RaiseLo(lo, v, incl) ==
    IF v > lo.v \/ (v = lo.v /\ lo.incl /\ ~incl) THEN Bound(v, incl) ELSE lo
LowerHiLoosely(hi, v, incl) == IF v <= hi.v THEN Bound(v, FALSE) ELSE hi    \* mutant
LowerHi(hi, v, incl) ==
    IF v < hi.v \/ (v = hi.v /\ hi.incl /\ ~incl) THEN Bound(v, incl) ELSE hi

AddNum(f, op, v) ==
    CASE op \in {"gt", "ge"} -> [f EXCEPT !.lo = RaiseLo(f.lo, v, op = "ge")]
      [] op \in {"lt", "le"} -> [f EXCEPT !.hi = LowerHi(f.hi, v, op = "le")]
      [] op = "eq" -> [f EXCEPT !.lo = RaiseLo(f.lo, v, TRUE), !.hi = LowerHi(f.hi, v, TRUE)]
      [] op = "ne" -> [f EXCEPT !.ne = @ \cup {v}]

NoNumber(f) == \/ f.lo.v > f.hi.v
               \/ f.lo.v = f.hi.v /\ ~(f.lo.incl /\ f.hi.incl)
               \/ f.lo.v = f.hi.v /\ f.lo.v \in f.ne

AddStr(f, op, v) ==
    IF op = "eq" THEN [f EXCEPT !.eq = @ \cup {v}] ELSE [f EXCEPT !.ne = @ \cup {v}]
NoText(f) == (\E a, b \in f.eq : a # b) \/ f.eq \cap f.ne # {}

Learn(facts, c) ==
    IF facts.none \/ c.k # "binary" \/ c.op \notin Comparisons THEN facts
    ELSE LET left  == c.x.k = "attr"
             op    == IF left THEN c.op ELSE Flip(c.op)
             attr  == IF left THEN c.x ELSE c.y
             other == IF left THEN c.y ELSE c.x
         IN  CASE attr.k # "attr" -> facts
               [] attr.k = "attr" /\ other.k = "string" ->
                    LET f == AddStr(facts.str[attr.name], op, other.s)
                    IN  [facts EXCEPT !.str[attr.name] = f, !.none = NoText(f)]
               [] attr.k = "attr" /\ IsConstNumber(other) ->
                    LET f == AddNum(facts.num[attr.name], op, ConstNumber(other))
                    IN  [facts EXCEPT !.num[attr.name] = f, !.none = NoNumber(f)]
               [] OTHER -> facts

Contradiction(e) ==
    FoldLeft(Learn, [num  |-> [a \in DOMAIN Catalog |-> NoNumFacts],
                     str  |-> [a \in DOMAIN Catalog |-> NoStrFacts],
                     none |-> FALSE], Conjuncts(e)).none

\* Lint has no false positives: what it calls never true matches no payment,
\* what it calls always true matches every one (lint.go:19-23).
LintSound(e) ==
    \A r \in Rows :
       /\ Contradiction(e) => Truth(e, r) # "TRUE"
       /\ IsConstant(e)    => (Truth(e, r) = "TRUE") = ConstantValue(e)
=============================================================================
