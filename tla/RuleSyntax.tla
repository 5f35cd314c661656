----------------------------- MODULE RuleSyntax -----------------------------
(***************************************************************************)
(* The syntax of the rule language: the Pratt parser of rules/parser.go    *)
(* and the printer of rules/printer.go, over the tokens of one line.       *)
(*                                                                         *)
(* A tree is a record whose field k names the Go node type; a token is a   *)
(* record whose field t is its kind.  Spans and the wording of diagnostics *)
(* are left out: a syntax error is Bail, whatever it says, because the     *)
(* parser gives up the line at its first one.                              *)
(***************************************************************************)
EXTENDS Integers, Sequences

Comparisons == {"eq", "ne", "lt", "le", "gt", "ge"}
Arithmetic  == {"add", "sub", "mul", "div"}
Actions     == {"allow", "block", "review"}

\* Op.prec and the binding powers that parser and printer share.
Prec(op) == CASE op = "or"             -> 1
              [] op = "and"            -> 2
              [] op = "not"            -> 3
              [] op \in Comparisons    -> 4
              [] op \in {"add", "sub"} -> 5
              [] op \in {"mul", "div"} -> 6
              [] op = "neg"            -> 7
              [] OTHER                 -> 0
Lowest  == 0
Compare == 4
Atom    == 8

Attr(name)       == [k |-> "attr", name |-> name]
Number(n)        == [k |-> "number", n |-> n]
Text(s)          == [k |-> "string", s |-> s]
Bool(b)          == [k |-> "bool", b |-> b]
Unary(op, x)     == [k |-> "unary", op |-> op, x |-> x]
Binary(op, x, y) == [k |-> "binary", op |-> op, x |-> x, y |-> y]
In(x, list)      == [k |-> "in", x |-> x, list |-> list]
Call(name, args) == [k |-> "call", name |-> name, args |-> args]
ListRef(name)    == [k |-> "listref", name |-> name]
ListLit(items)   == [k |-> "listlit", items |-> items]

Tok(t)     == [t |-> t]
OpTok(op)  == [t |-> "op", op |-> op]
NumTok(n)  == [t |-> "number", n |-> n]
StrTok(s)  == [t |-> "string", s |-> s]
NameTok(t, name) == [t |-> t, name |-> name]

-----------------------------------------------------------------------------
(* The printer. *)

ExprPrec(e) == CASE e.k \in {"unary", "binary"} -> Prec(e.op)
                 [] e.k = "in"                  -> Compare
                 [] OTHER                       -> Atom

RECURSIVE PrintExpr(_), Commas(_)

PrintOperand(e, min) ==
    IF ExprPrec(e) < min
    THEN <<Tok("(")>> \o PrintExpr(e) \o <<Tok(")")>>
    ELSE PrintExpr(e)

\* The elements of a call or a list, with commas between them.
Commas(es) ==
    IF Len(es) <= 1 THEN IF es = <<>> THEN <<>> ELSE PrintExpr(es[1])
    ELSE PrintExpr(Head(es)) \o <<Tok(",")>> \o Commas(Tail(es))

\* An operand on the left binds at least as tight as the operator, one on the
\* right tighter; a comparison takes no bare comparison on either side.
LeftMin(op)  == IF op \in Comparisons THEN Prec(op) + 1 ELSE Prec(op)
RightMinAsLeft(op) == LeftMin(op)                                  \* mutant
RightMin(op) == Prec(op) + 1

OpToken(op) == IF op \in {"or", "and"} THEN Tok(op) ELSE OpTok(op)

PrintExpr(e) ==
    CASE e.k = "attr"   -> <<NameTok("attr", e.name)>>
      [] e.k = "number" -> <<NumTok(e.n)>>
      [] e.k = "string" -> <<StrTok(e.s)>>
      [] e.k = "bool"   -> <<Tok(IF e.b THEN "true" ELSE "false")>>
      [] e.k = "unary"  -> <<IF e.op = "not" THEN Tok("not") ELSE OpTok("sub")>>
                             \o PrintOperand(e.x, Prec(e.op))
      [] e.k = "binary" -> PrintOperand(e.x, LeftMin(e.op)) \o <<OpToken(e.op)>>
                             \o PrintOperand(e.y, RightMin(e.op))
      [] e.k = "in"     -> PrintOperand(e.x, Compare + 1) \o <<Tok("in")>>
                             \o PrintExpr(e.list)
      [] e.k = "call"   -> <<NameTok("ident", e.name), Tok("(")>>
                             \o Commas(e.args) \o <<Tok(")")>>
      [] e.k = "listref" -> <<NameTok("list", e.name)>>
      [] e.k = "listlit" -> <<Tok("[")>> \o Commas(e.items) \o <<Tok("]")>>

\* Rule.String.
PrintRule(r) == (IF r.shadow THEN <<Tok("shadow")>> ELSE <<>>)
                  \o <<Tok(r.action), Tok("if")>> \o PrintExpr(r.cond)

-----------------------------------------------------------------------------
(* The parser.  A result carries the tree and the next position. *)

Bail       == [ok |-> FALSE]
Got(e, p)  == [ok |-> TRUE, e |-> e, p |-> p]
Kind(ts, p) == IF p > Len(ts) THEN "eol" ELSE ts[p].t

RECURSIVE ParseExpr(_, _, _), Infix(_, _, _, _, _),
          ParseArgs(_, _, _), ParseItems(_, _, _)

ParseCall(ts, p) ==
    LET args == IF Kind(ts, p + 2) = ")" THEN Got(<<>>, p + 2)
                                         ELSE ParseArgs(ts, p + 2, <<>>)
    IN  IF args.ok /\ Kind(ts, args.p) = ")"
        THEN Got(Call(ts[p].name, args.e), args.p + 1)
        ELSE Bail

ParseArgs(ts, p, args) ==
    LET a == ParseExpr(ts, p, Lowest)
    IN  IF ~a.ok THEN Bail
        ELSE IF Kind(ts, a.p) = "," THEN ParseArgs(ts, a.p + 1, Append(args, a.e))
        ELSE Got(Append(args, a.e), a.p)

ParseListItem(ts, p) ==
    LET kind == Kind(ts, p)
    IN  CASE kind = "string" -> Got(Text(ts[p].s), p + 1)
          [] kind = "number" -> Got(Number(ts[p].n), p + 1)
          [] kind = "op" /\ Kind(ts, p + 1) = "number" ->
               IF ts[p].op = "sub" THEN Got(Unary("neg", Number(ts[p + 1].n)), p + 2)
                                   ELSE Bail
          [] OTHER -> Bail

ParseItems(ts, p, items) ==
    LET it == ParseListItem(ts, p)
        c  == IF it.ok THEN Kind(ts, it.p) ELSE "eol"
    IN  CASE c = "," -> ParseItems(ts, it.p + 1, Append(items, it.e))
          [] c = "]" -> Got(ListLit(Append(items, it.e)), it.p + 1)
          [] OTHER   -> Bail

ParseList(ts, p) ==
    CASE Kind(ts, p) = "list" -> Got(ListRef(ts[p].name), p + 1)
      [] Kind(ts, p) = "["    -> ParseItems(ts, p + 1, <<>>)
      [] OTHER                -> Bail

ParseOperand(ts, p, op) ==
    LET x == ParseExpr(ts, p, Prec(op))
    IN  IF x.ok THEN Got(Unary(op, x.e), x.p) ELSE Bail

ParsePrefix(ts, p) ==
    LET kind == Kind(ts, p)
    IN  CASE kind = "number" -> Got(Number(ts[p].n), p + 1)
          [] kind = "string" -> Got(Text(ts[p].s), p + 1)
          [] kind \in {"true", "false"} -> Got(Bool(kind = "true"), p + 1)
          [] kind = "attr"   -> Got(Attr(ts[p].name), p + 1)
          [] kind = "not"    -> ParseOperand(ts, p + 1, "not")
          [] kind = "op"     -> IF ts[p].op = "sub" THEN ParseOperand(ts, p + 1, "neg")
                                                    ELSE Bail
          [] kind = "("      -> LET in == ParseExpr(ts, p + 1, Lowest)
                                IN  IF in.ok /\ Kind(ts, in.p) = ")"
                                    THEN Got(in.e, in.p + 1) ELSE Bail
          [] kind = "ident" /\ Kind(ts, p + 1) = "(" -> ParseCall(ts, p)
          [] OTHER           -> Bail

\* The Pratt loop: fold operators into left while they bind tighter than min.
Infix(ts, p, left, min, prevCompare) ==
    LET kind  == Kind(ts, p)
        notIn == kind = "not" /\ Kind(ts, p + 1) = "in"
        isIn  == kind = "in" \/ notIn
        op    == CASE kind \in {"or", "and"} -> kind
                   [] kind = "op"            -> ts[p].op
                   [] OTHER                  -> "none"
        prec  == IF isIn THEN Compare ELSE Prec(op)
        list  == ParseList(ts, IF notIn THEN p + 2 ELSE p + 1)
        right == ParseExpr(ts, p + 1, prec)
    IN  CASE prec <= min -> Got(left, p)
          [] prec > min /\ prec = Compare /\ prevCompare -> Bail
          [] OTHER ->
               IF isIn
               THEN IF list.ok
                    THEN Infix(ts, list.p,
                               IF notIn THEN Unary("not", In(left, list.e))
                                        ELSE In(left, list.e), min, TRUE)
                    ELSE Bail
               ELSE IF right.ok
                    THEN Infix(ts, right.p, Binary(op, left, right.e), min,
                               prec = Compare)
                    ELSE Bail

ParseExpr(ts, p, min) ==
    LET left == ParsePrefix(ts, p)
    IN  IF left.ok THEN Infix(ts, left.p, left.e, min, FALSE) ELSE Bail

\* parseRule with expectEnd: the whole line, or no rule.
ParseRule(ts) ==
    LET shadow == Kind(ts, 1) = "shadow"
        a      == IF shadow THEN 2 ELSE 1
        cond   == ParseExpr(ts, a + 2, Lowest)
    IN  IF /\ Kind(ts, a) \in Actions
           /\ Kind(ts, a + 1) = "if"
           /\ cond.ok
           /\ Kind(ts, cond.p) = "eol"
        THEN Got([shadow |-> shadow, action |-> Kind(ts, a), cond |-> cond.e], cond.p)
        ELSE Bail

\* ParseExpr of the package: a condition on its own.
ParseCondition(ts) ==
    LET cond == ParseExpr(ts, 1, Lowest)
    IN  IF cond.ok /\ Kind(ts, cond.p) = "eol" THEN cond ELSE Bail

-----------------------------------------------------------------------------
(* What the printer and the parser promise each other (ast.go:96-97,       *)
(* printer.go:12-13): a printed rule parses back to the same tree, whether *)
(* the tree was built or came from a line an analyst typed.                *)
PrintParses(r) == LET back == ParseRule(PrintRule(r)) IN back.ok /\ back.e = r
Canonical(ts)  == LET cond == ParseCondition(ts)
                  IN  cond.ok => LET back == ParseCondition(PrintExpr(cond.e))
                                 IN  back.ok /\ back.e = cond.e
=============================================================================
