---------------------------- MODULE JoinerProofs ----------------------------
(***************************************************************************)
(* The joiner decides what the sequential engine decides, and keeps no     *)
(* join that no part will complete, for any payments, keys, partitions,    *)
(* takeovers and restarts.                                                 *)
(*                                                                         *)
(* The argument.  What is sent is always one of the same parts, and no     *)
(* part is in the partition before the parts its sender numbered lower     *)
(* (PartsKnown, NoHoles, SentInOrder).  So the high-water marks say        *)
(* exactly which parts were received, and the pending joins are those of   *)
(* the payments some but not all of whose parts were (Joined), in the      *)
(* joiner as in its checkpoint.  An aggregator releases in event-time      *)
(* order, so what it computes is what the sequential engine would          *)
(* (EntityValues).                                                         *)
(***************************************************************************)
EXTENDS Joiner, TLAPS

-----------------------------------------------------------------------------
(* The inductive invariant.                                                *)

IsBase(r) == \E s \in Source : \E n \in DOMAIN Of[s] : r = Base(s, n)
IsEntity(r) == \E a \in Agg : \E n \in DOMAIN Released[a] : r = EntityPart(a, n)
Part == (UNION {{Base(s, n) : n \in DOMAIN Of[s]} : s \in Source})
        \cup (UNION {{EntityPart(a, n) : n \in DOMAIN Released[a]} : a \in Agg})

PartsKnown == parts \in Seq(Part)

BaseBy(ps, s, m, k) == \E j \in 1..k : ps[j] = Base(s, m)
EntityBy(ps, a, m, k) == \E j \in 1..k : ps[j] = EntityPart(a, m)

NoHoles(ps) ==
  \A k \in DOMAIN ps :
    /\ \A s \in Source : \A n \in DOMAIN Of[s] :
         ps[k] = Base(s, n) => \A m \in 1..(n - 1) : BaseBy(ps, s, m, k - 1)
    /\ \A a \in Agg : \A n \in DOMAIN Released[a] :
         ps[k] = EntityPart(a, n) => \A m \in 1..(n - 1) : EntityBy(ps, a, m, k - 1)

SentInOrder ==
  /\ sender \in [Source \X {1, 2} -> Nat \cup {None}]
  /\ aggNext \in [Agg -> Nat]
  /\ \A s \in Source : sender[<<s, 2>>] \in Nat
  /\ \A s \in Source, i \in {1, 2} :
       sender[<<s, i>>] # None => /\ sender[<<s, i>>] \in 0..Len(Of[s])
                              /\ \A m \in 1..sender[<<s, i>>] : BaseBy(parts, s, m, Len(parts))
  /\ \A a \in Agg : /\ aggNext[a] \in 0..Len(Released[a])
                    /\ \A m \in 1..aggNext[a] : EntityBy(parts, a, m, Len(parts))

(* The marks ls and la say which parts are among the first n - 1 of ps.    *)
Marks(ps, n, ls, la) ==
  /\ n \in 1..(Len(ps) + 1)
  /\ ls \in [Source -> Nat] /\ la \in [Agg -> Nat]
  /\ \A s \in Source :
       ls[s] <= Len(Of[s]) /\ \A m \in DOMAIN Of[s] : m <= ls[s] <=> BaseBy(ps, s, m, n - 1)
  /\ \A a \in Agg :
       la[a] <= Len(Released[a])
       /\ \A m \in DOMAIN Released[a] : m <= la[a] <=> EntityBy(ps, a, m, n - 1)

HasBase(ls, p) == \E s \in Source : \E n \in DOMAIN Of[s] : n <= ls[s] /\ Of[s][n] = p
Gave(la, p, e) ==
  \E a \in Agg : \E n \in DOMAIN Released[a] : n <= la[a] /\ Released[a][n] = <<p, e>>
Has(la, p) == {e \in Mask(p) : Gave(la, p, e)}

Started(ls, la, p) == HasBase(ls, p) \/ Has(la, p) # {}
Finished(ls, la, p) == HasBase(ls, p) /\ Has(la, p) = Mask(p)

JoinRecord == [base : {None} \cup Part, have : SUBSET Entities,
               values : [Entities -> SUBSET Payments]]

PartsOf(ls, la, p, j) ==
  /\ j \in JoinRecord
  /\ HasBase(ls, p) => IsBase(j.base) /\ j.base.payment = p
  /\ ~HasBase(ls, p) => j.base = None
  /\ j.have = Has(la, p)
  /\ \A e \in j.have : j.values[e] = Sequential!StateBefore(p, e)

Joined(pend, ls, la) ==
  /\ DOMAIN pend \subseteq Payments
  /\ \A p \in Payments :
       p \in DOMAIN pend <=> Started(ls, la, p) /\ ~Finished(ls, la, p)
  /\ \A p \in DOMAIN pend : PartsOf(ls, la, p, pend[p])

Right == {Sequential!ScoreAndUpdate(p) : p \in Payments}
DecidedRight == decisions \in Seq(Right)

JoinInv == /\ PartsKnown /\ NoHoles(parts) /\ SentInOrder
           /\ Marks(parts, next, lastSrc, lastAgg) /\ Joined(pending, lastSrc, lastAgg)
           /\ Marks(parts, saved.next, saved.lastSrc, saved.lastAgg)
           /\ Joined(saved.pending, saved.lastSrc, saved.lastAgg)
           /\ DecidedRight

-----------------------------------------------------------------------------
(* The parts.                                                              *)

LEMMA OfPayments ==
    ASSUME NEW s \in Source, NEW n \in DOMAIN Of[s]
    PROVE  /\ Of[s] \in Seq(Payments) /\ Of[s][n] \in Payments
           /\ n \in 1..Len(Of[s]) /\ Len(Of[s]) \in Nat
  <1>1. Of[s] \in Seq(Payments)
    BY PaymentsAssumption
  <1> QED
    BY <1>1

LEMMA ReleasedOwned ==
    ASSUME NEW a \in Agg, NEW n \in DOMAIN Released[a]
    PROVE  /\ Released[a] \in Seq(Payments \X Entities)
           /\ n \in 1..Len(Released[a]) /\ Len(Released[a]) \in Nat
           /\ Released[a][n] = <<Released[a][n][1], Released[a][n][2]>>
           /\ Released[a][n][1] \in Payments /\ Released[a][n][2] \in Mask(Released[a][n][1])
           /\ AggOf[Key[Released[a][n][1]][Released[a][n][2]]] = a
  <1>1. Released[a] \in Seq(Payments \X Entities)
    BY ReleasedAssumption
  <1>2. Released[a][n] \in Owned(a)
    BY ReleasedAssumption
  <1>3. Released[a][n] \in Payments \X Entities
    BY <1>2 DEF Owned
  <1> QED
    BY <1>1, <1>2, <1>3 DEF Owned

LEMMA BaseOfPart ==
    ASSUME NEW s \in Source, NEW n \in DOMAIN Of[s]
    PROVE  /\ Base(s, n) \in Part /\ IsBase(Base(s, n))
           /\ Base(s, n).kind = "base" /\ Base(s, n).src = s /\ Base(s, n).offset = n
           /\ Base(s, n).payment = Of[s][n] /\ Base(s, n).mask = Mask(Of[s][n])
  BY DEF Part, IsBase, Base

LEMMA EntityOfPart ==
    ASSUME NEW a \in Agg, NEW n \in DOMAIN Released[a]
    PROVE  /\ EntityPart(a, n) \in Part /\ IsEntity(EntityPart(a, n))
           /\ EntityPart(a, n).kind = "entity" /\ EntityPart(a, n).agg = a
           /\ EntityPart(a, n).seq = n /\ EntityPart(a, n).payment = Released[a][n][1]
           /\ EntityPart(a, n).entity = Released[a][n][2]
  <1>1. EntityPart(a, n) \in Part /\ IsEntity(EntityPart(a, n))
    BY DEF Part, IsEntity
  <1>2. /\ EntityPart(a, n).kind = "entity" /\ EntityPart(a, n).agg = a
        /\ EntityPart(a, n).seq = n /\ EntityPart(a, n).payment = Released[a][n][1]
        /\ EntityPart(a, n).entity = Released[a][n][2]
    BY DEF EntityPart
  <1> QED
    BY <1>1, <1>2

LEMMA PartKinds ==
    ASSUME NEW r \in Part
    PROVE  /\ IsBase(r) \/ IsEntity(r)
           /\ IsBase(r) <=> r.kind = "base"
           /\ IsEntity(r) <=> r.kind = "entity"
  <1>1. IsBase(r) \/ IsEntity(r)
    BY DEF Part, IsBase, IsEntity
  <1>2. IsBase(r) => r.kind = "base"
    BY BaseOfPart DEF IsBase
  <1>3. IsEntity(r) => r.kind = "entity"
    BY EntityOfPart DEF IsEntity
  <1> QED
    BY <1>1, <1>2, <1>3

(* What an aggregator sends for a payment is what the sequential engine    *)
(* reads: it releases the payments of a key in event-time order.           *)
LEMMA EntityValues ==
    ASSUME NEW a \in Agg, NEW n \in DOMAIN Released[a], NEW p, NEW e,
           Released[a][n] = <<p, e>>
    PROVE  /\ EntityPart(a, n).values = Sequential!StateBefore(p, e)
           /\ Sequential!StateBefore(p, e) \subseteq Payments
  <1> DEFINE x == Released[a][n]
             Before == {Released[a][j][1] : j \in {j \in 1..(n - 1) : SameKey(Released[a][j], x)}}
  <1>1. EntityPart(a, n).values = Before
    BY DEF EntityPart
  <1>2. /\ n \in 1..Len(Released[a]) /\ Len(Released[a]) \in Nat /\ p \in Payments /\ e \in Mask(p)
        /\ AggOf[Key[p][e]] = a /\ x[1] = p /\ x[2] = e /\ DOMAIN Released[a] = 1..Len(Released[a])
    BY ReleasedOwned
  <1>3. ASSUME NEW j \in 1..(n - 1), SameKey(Released[a][j], x)
        PROVE  Released[a][j][1] \in Sequential!StateBefore(p, e)
    <2>1. j \in DOMAIN Released[a] /\ j < n /\ j # n
      BY <1>2
    <2>2. /\ Released[a][j] = <<Released[a][j][1], Released[a][j][2]>>
          /\ Released[a][j][1] \in Payments
      BY <2>1, ReleasedOwned
    <2>3. Released[a][j] # x /\ Released[a][j][1] <= p
      BY <2>1, <1>2, ReleasedAssumption
    <2>4. Released[a][j][2] = e /\ Key[Released[a][j][1]][e] = Key[p][e]
      BY <1>2, <1>3 DEF SameKey
    <2>5. Released[a][j][1] # p
      BY <2>2, <2>3, <2>4
    <2>6. Released[a][j][1] < p
      <3>1. Released[a][j][1] \in Nat /\ p \in Nat
        BY <2>2, <1>2, PaymentsAssumption
      <3> QED
        BY <3>1, <2>3, <2>5
    <2> QED
      BY <2>2, <2>4, <2>6 DEF Sequential!StateBefore
  <1>4. ASSUME NEW q \in Sequential!StateBefore(p, e)
        PROVE  q \in Before
    <2>1. q \in Payments /\ q < p /\ Key[q][e] = Key[p][e]
      BY DEF Sequential!StateBefore
    <2>2. <<q, e>> \in Owned(a)
      BY <2>1, <1>2 DEF Owned, Mask
    <2>3. PICK j \in DOMAIN Released[a] : Released[a][j] = <<q, e>>
      BY <2>2, ReleasedAssumption
    <2>4. ~(n <= j)
      <3>1. j # n
        BY <2>1, <2>3, <1>2, PaymentsAssumption
      <3>2. n < j => p <= q
        BY <2>3, <1>2, ReleasedAssumption
      <3> QED
        BY <3>1, <3>2, <2>1, <2>3, <1>2, PaymentsAssumption
    <2>5. j \in 1..(n - 1)
      BY <2>3, <2>4, <1>2
    <2>6. SameKey(Released[a][j], x)
      BY <2>1, <2>3, <1>2 DEF SameKey
    <2> QED
      BY <2>3, <2>5, <2>6
  <1>5. Sequential!StateBefore(p, e) \subseteq Payments
    BY DEF Sequential!StateBefore
  <1> QED
    BY <1>1, <1>3, <1>4, <1>5

-----------------------------------------------------------------------------
(* The partition grows.                                                    *)

LEMMA ByGrows ==
    ASSUME NEW ps \in Seq(Part), NEW r \in Part, NEW k \in 0..Len(ps)
    PROVE  /\ \A s, m : BaseBy(Append(ps, r), s, m, k) <=> BaseBy(ps, s, m, k)
           /\ \A a, m : EntityBy(Append(ps, r), a, m, k) <=> EntityBy(ps, a, m, k)
           /\ \A s, m : BaseBy(ps, s, m, k) => BaseBy(Append(ps, r), s, m, Len(ps) + 1)
           /\ \A a, m : EntityBy(ps, a, m, k) => EntityBy(Append(ps, r), a, m, Len(ps) + 1)
  <1>1. \A j \in 1..k : j \in 1..(Len(ps) + 1) /\ Append(ps, r)[j] = ps[j]
    OBVIOUS
  <1> QED
    BY <1>1 DEF BaseBy, EntityBy

LEMMA MarksGrow ==
    ASSUME NEW ps \in Seq(Part), NEW r \in Part, NEW n, NEW ls, NEW la, Marks(ps, n, ls, la)
    PROVE  Marks(Append(ps, r), n, ls, la)
  <1>1. /\ n \in 1..(Len(ps) + 1) /\ Len(ps) \in Nat /\ Len(Append(ps, r)) = Len(ps) + 1
        /\ n - 1 \in 0..Len(ps)
    BY DEF Marks
  <1>2. n \in 1..(Len(Append(ps, r)) + 1)
    BY <1>1
  <1>3. /\ \A s, m : BaseBy(Append(ps, r), s, m, n - 1) <=> BaseBy(ps, s, m, n - 1)
        /\ \A a, m : EntityBy(Append(ps, r), a, m, n - 1) <=> EntityBy(ps, a, m, n - 1)
    BY <1>1, ByGrows
  <1> QED
    BY <1>2, <1>3 DEF Marks

LEMMA NoHolesGrow ==
    ASSUME NEW ps \in Seq(Part), NEW r \in Part, NoHoles(ps),
           \A s \in Source : \A n \in DOMAIN Of[s] :
             r = Base(s, n) => \A m \in 1..(n - 1) : BaseBy(ps, s, m, Len(ps)),
           \A a \in Agg : \A n \in DOMAIN Released[a] :
             r = EntityPart(a, n) => \A m \in 1..(n - 1) : EntityBy(ps, a, m, Len(ps))
    PROVE  NoHoles(Append(ps, r))
  <1> SUFFICES ASSUME NEW k \in DOMAIN Append(ps, r)
               PROVE  /\ \A s \in Source : \A n \in DOMAIN Of[s] :
                           Append(ps, r)[k] = Base(s, n) =>
                             \A m \in 1..(n - 1) : BaseBy(Append(ps, r), s, m, k - 1)
                      /\ \A a \in Agg : \A n \in DOMAIN Released[a] :
                           Append(ps, r)[k] = EntityPart(a, n) =>
                             \A m \in 1..(n - 1) : EntityBy(Append(ps, r), a, m, k - 1)
    BY DEF NoHoles
  <1>1. /\ k - 1 \in 0..Len(ps) /\ Len(ps) \in Nat
        /\ k \in DOMAIN ps \/ k = Len(ps) + 1
    OBVIOUS
  <1>2. /\ \A s, m : BaseBy(Append(ps, r), s, m, k - 1) <=> BaseBy(ps, s, m, k - 1)
        /\ \A a, m : EntityBy(Append(ps, r), a, m, k - 1) <=> EntityBy(ps, a, m, k - 1)
    BY <1>1, ByGrows
  <1>3. CASE k \in DOMAIN ps
    <2>1. Append(ps, r)[k] = ps[k]
      BY <1>3
    <2> QED
      BY <1>2, <1>3, <2>1 DEF NoHoles
  <1>4. CASE k = Len(ps) + 1
    <2>1. Append(ps, r)[k] = r /\ k - 1 = Len(ps)
      BY <1>1, <1>4
    <2> QED
      BY <1>2, <2>1
  <1> QED
    BY <1>1, <1>3, <1>4

-----------------------------------------------------------------------------
(* Upstream sends.                                                         *)

(* A step that adds a part to the partition and leaves the joiner alone.   *)
LEMMA Grown ==
    ASSUME JoinInv, NEW r \in Part, parts' = Append(parts, r), NoHoles(parts'),
           UNCHANGED <<joinVars, saved, decisions>>, SentInOrder'
    PROVE  JoinInv'
  <1>1. PartsKnown'
    BY DEF JoinInv, PartsKnown
  <1>2. Marks(parts', next, lastSrc, lastAgg) /\ Marks(parts', saved.next, saved.lastSrc, saved.lastAgg)
    BY MarksGrow DEF JoinInv, PartsKnown
  <1> QED
    BY <1>1, <1>2 DEF JoinInv, joinVars, DecidedRight

LEMMA SendBasePreserves ==
    ASSUME JoinInv, NEW s \in Source, NEW i \in {1, 2}, SendBase(s, i)
    PROVE  JoinInv'
  <1> DEFINE n == sender[<<s, i>>] + 1
             r == Base(s, n)
  <1>1. /\ sender[<<s, i>>] # None /\ n <= Len(Of[s]) /\ parts' = Append(parts, r)
        /\ sender' = [sender EXCEPT ![<<s, i>>] = n]
        /\ UNCHANGED <<aggNext, joinVars, saved, decisions>>
    BY DEF SendBase
  <1>2. /\ parts \in Seq(Part) /\ Len(parts) \in Nat /\ NoHoles(parts) /\ SentInOrder
    BY DEF JoinInv, PartsKnown
  <1>3. n \in Nat /\ n - 1 \in Nat /\ n - 1 = sender[<<s, i>>] /\ n \in DOMAIN Of[s]
    <2>1. Of[s] \in Seq(Payments)
      BY PaymentsAssumption
    <2>2. sender[<<s, i>>] \in 0..Len(Of[s])
      BY <1>1, <1>2 DEF SentInOrder
    <2> QED
      BY <1>1, <2>1, <2>2
  <1>4. \A m \in 1..(n - 1) : BaseBy(parts, s, m, Len(parts))
    BY <1>1, <1>2, <1>3 DEF SentInOrder
  <1>5. r \in Part /\ r.src = s /\ r.offset = n /\ r.kind = "base"
    BY <1>3, BaseOfPart
  <1> HIDE DEF n, r
  <1>6. \A t \in Source : \A m \in DOMAIN Of[t] : r = Base(t, m) => t = s /\ m = n
    BY <1>5, BaseOfPart
  <1>7. \A a \in Agg : \A m \in DOMAIN Released[a] : r # EntityPart(a, m)
    BY <1>5, EntityOfPart
  <1>8. NoHoles(parts')
    BY <1>1, <1>2, <1>4, <1>5, <1>6, <1>7, NoHolesGrow
  <1>9. SentInOrder'
    <2>1. /\ sender' \in [Source \X {1, 2} -> Nat \cup {None}]
          /\ sender'[<<s, i>>] = n
          /\ \A t \in Source, j \in {1, 2} :
               <<t, j>> # <<s, i>> => sender'[<<t, j>>] = sender[<<t, j>>]
      BY <1>1, <1>2, <1>3 DEF SentInOrder
    <2>2. /\ Len(parts') = Len(parts) + 1
          /\ \A t, m : BaseBy(parts, t, m, Len(parts)) => BaseBy(parts', t, m, Len(parts'))
          /\ \A a, m : EntityBy(parts, a, m, Len(parts)) => EntityBy(parts', a, m, Len(parts'))
      BY <1>1, <1>2, <1>5, ByGrows
    <2>3. BaseBy(parts', s, n, Len(parts'))
      <3>1. Len(parts') \in 1..Len(parts') /\ parts'[Len(parts')] = r
        BY <1>1, <1>2, <1>5
      <3> QED
        BY <3>1 DEF BaseBy, r
    <2>4. \A m \in 1..n : m \in 1..(n - 1) \/ m = n
      BY <1>3
    <2>5. n \in Nat /\ n \in 0..Len(Of[s]) /\ n # None
      BY <1>3, OfPayments, NoneAssumption
    <2>6. ASSUME NEW t \in Source, NEW j \in {1, 2}, sender'[<<t, j>>] # None
          PROVE  /\ sender'[<<t, j>>] \in 0..Len(Of[t])
                 /\ \A m \in 1..sender'[<<t, j>>] : BaseBy(parts', t, m, Len(parts'))
      <3>1. CASE <<t, j>> = <<s, i>>
        BY <3>1, <2>1, <2>2, <2>3, <2>4, <2>5, <1>4
      <3>2. CASE <<t, j>> # <<s, i>>
        BY <3>2, <2>1, <2>2, <2>6, <1>2 DEF SentInOrder
      <3> QED
        BY <3>1, <3>2
    <2>7. \A t \in Source : sender'[<<t, 2>>] \in Nat
      BY <2>1, <2>5, <1>2 DEF SentInOrder
    <2> QED
      BY <2>1, <2>2, <2>6, <2>7, <1>1, <1>2 DEF SentInOrder
  <1> QED
    BY <1>1, <1>5, <1>8, <1>9, Grown

LEMMA SendEntityPreserves ==
    ASSUME JoinInv, NEW a \in Agg, SendEntity(a)
    PROVE  JoinInv'
  <1> DEFINE n == aggNext[a] + 1
             r == EntityPart(a, n)
  <1>1. /\ aggNext[a] < Len(Released[a]) /\ parts' = Append(parts, r)
        /\ aggNext' = [aggNext EXCEPT ![a] = n]
        /\ UNCHANGED <<sender, joinVars, saved, decisions>>
    BY DEF SendEntity
  <1>2. /\ parts \in Seq(Part) /\ Len(parts) \in Nat /\ NoHoles(parts) /\ SentInOrder
    BY DEF JoinInv, PartsKnown
  <1>3. n - 1 \in Nat /\ n - 1 = aggNext[a] /\ n \in DOMAIN Released[a] /\ n \in 0..Len(Released[a])
    <2>1. Released[a] \in Seq(Payments \X Entities)
      BY ReleasedAssumption
    <2>2. aggNext[a] \in 0..Len(Released[a])
      BY <1>2 DEF SentInOrder
    <2> QED
      BY <1>1, <2>1, <2>2
  <1>4. \A m \in 1..(n - 1) : EntityBy(parts, a, m, Len(parts))
    BY <1>2, <1>3 DEF SentInOrder
  <1>5. r \in Part /\ r.agg = a /\ r.seq = n /\ r.kind = "entity"
    BY <1>3, EntityOfPart
  <1> HIDE DEF n, r
  <1>6. \A b \in Agg : \A m \in DOMAIN Released[b] : r = EntityPart(b, m) => b = a /\ m = n
    BY <1>5, EntityOfPart
  <1>7. \A s \in Source : \A m \in DOMAIN Of[s] : r # Base(s, m)
    BY <1>5, BaseOfPart
  <1>8. NoHoles(parts')
    BY <1>1, <1>2, <1>4, <1>5, <1>6, <1>7, NoHolesGrow
  <1>9. SentInOrder'
    <2>1. /\ aggNext' \in [Agg -> Nat] /\ aggNext'[a] = n
          /\ \A b \in Agg : b # a => aggNext'[b] = aggNext[b]
      BY <1>1, <1>2, <1>3 DEF SentInOrder
    <2>2. /\ Len(parts') = Len(parts) + 1
          /\ \A t, m : BaseBy(parts, t, m, Len(parts)) => BaseBy(parts', t, m, Len(parts'))
          /\ \A b, m : EntityBy(parts, b, m, Len(parts)) => EntityBy(parts', b, m, Len(parts'))
      BY <1>1, <1>2, <1>5, ByGrows
    <2>3. EntityBy(parts', a, n, Len(parts'))
      <3>1. Len(parts') \in 1..Len(parts') /\ parts'[Len(parts')] = r
        BY <1>1, <1>2, <1>5
      <3> QED
        BY <3>1 DEF EntityBy, r
    <2>4. \A m \in 1..n : m \in 1..(n - 1) \/ m = n
      BY <1>3
    <2>5. \A b \in Agg : /\ aggNext'[b] \in 0..Len(Released[b])
                        /\ \A m \in 1..aggNext'[b] : EntityBy(parts', b, m, Len(parts'))
      BY <2>1, <2>2, <2>3, <2>4, <1>2, <1>3, <1>4 DEF SentInOrder
    <2> QED
      BY <2>1, <2>2, <2>5, <1>1, <1>2 DEF SentInOrder
  <1> QED
    BY <1>1, <1>5, <1>8, <1>9, Grown

LEMMA TakeOverPreserves ==
    ASSUME JoinInv, NEW s \in Source, TakeOver(s)
    PROVE  JoinInv'
  <1>1. PICK old \in {None, sender[<<s, 2>>]}, from \in 0..sender[<<s, 2>>] :
          sender' = [sender EXCEPT ![<<s, 1>>] = old, ![<<s, 2>>] = from]
    BY DEF TakeOver
  <1>2. SentInOrder /\ sender[<<s, 2>>] \in Nat /\ sender[<<s, 2>>] # None
    BY NoneAssumption DEF JoinInv, SentInOrder
  <1>3. /\ sender[<<s, 2>>] \in 0..Len(Of[s])
        /\ \A m \in 1..sender[<<s, 2>>] : BaseBy(parts, s, m, Len(parts))
    BY <1>2 DEF SentInOrder
  <1>4. /\ sender' \in [Source \X {1, 2} -> Nat \cup {None}]
        /\ sender'[<<s, 1>>] = old /\ sender'[<<s, 2>>] = from
        /\ \A t \in Source, j \in {1, 2} : t # s => sender'[<<t, j>>] = sender[<<t, j>>]
    <2> DEFINE S1 == [sender EXCEPT ![<<s, 1>>] = old]
    <2>1. sender \in [Source \X {1, 2} -> Nat \cup {None}]
      BY <1>2 DEF SentInOrder
    <2>2. old \in Nat \cup {None} /\ from \in Nat /\ <<s, 1>> \in Source \X {1, 2} /\ <<s, 2>> \in Source \X {1, 2}
      BY <1>2
    <2>3. /\ S1 \in [Source \X {1, 2} -> Nat \cup {None}]
          /\ S1[<<s, 1>>] = old
          /\ \A x \in Source \X {1, 2} : x # <<s, 1>> => S1[x] = sender[x]
      BY <2>1, <2>2
    <2>4. sender' = [S1 EXCEPT ![<<s, 2>>] = from]
      BY <1>1
    <2> HIDE DEF S1
    <2>5. /\ sender' \in [Source \X {1, 2} -> Nat \cup {None}]
          /\ sender'[<<s, 2>>] = from
          /\ \A x \in Source \X {1, 2} : x # <<s, 2>> => sender'[x] = S1[x]
      BY <2>2, <2>3, <2>4
    <2> QED
      BY <2>2, <2>3, <2>5
  <1>5. /\ from \in Nat /\ from \in 0..Len(Of[s])
        /\ \A m \in 1..from : m \in 1..sender[<<s, 2>>]
    BY <1>2, <1>3
  <1>6. UNCHANGED <<aggNext, parts, joinVars, saved, decisions>>
    BY DEF TakeOver
  <1>7. SentInOrder'
    <2>1. ASSUME NEW t \in Source, NEW j \in {1, 2}, sender'[<<t, j>>] # None
          PROVE  /\ sender'[<<t, j>>] \in 0..Len(Of[t])
                 /\ \A m \in 1..sender'[<<t, j>>] : BaseBy(parts, t, m, Len(parts))
      <3>1. CASE t # s
        BY <3>1, <2>1, <1>2, <1>4 DEF SentInOrder
      <3>2. CASE t = s /\ j = 1
        BY <3>2, <2>1, <1>3, <1>4
      <3>3. CASE t = s /\ j = 2
        BY <3>3, <1>3, <1>4, <1>5
      <3> QED
        BY <3>1, <3>2, <3>3
    <2>2. \A t \in Source : sender'[<<t, 2>>] \in Nat
      BY <1>2, <1>4, <1>5 DEF SentInOrder
    <2> QED
      BY <2>1, <2>2, <1>2, <1>4, <1>6 DEF SentInOrder
  <1> QED
    BY <1>6, <1>7 DEF JoinInv, PartsKnown, joinVars, DecidedRight

LEMMA RestartAggPreserves ==
    ASSUME JoinInv, NEW a \in Agg, RestartAgg(a)
    PROVE  JoinInv'
  <1>1. PICK from \in 0..(aggNext[a] - 1) : aggNext' = [aggNext EXCEPT ![a] = from]
    BY DEF RestartAgg
  <1>2. UNCHANGED <<sender, parts, joinVars, saved, decisions>>
    BY DEF RestartAgg
  <1>3. SentInOrder /\ aggNext[a] \in Nat /\ aggNext[a] \in 0..Len(Released[a])
    BY DEF JoinInv, SentInOrder
  <1>4. from \in Nat /\ from \in 0..Len(Released[a]) /\ \A m \in 1..from : m \in 1..aggNext[a]
    <2>1. Len(Released[a]) \in Nat
      BY ReleasedAssumption
    <2> QED
      BY <2>1, <1>3
  <1>5. /\ aggNext' \in [Agg -> Nat] /\ aggNext'[a] = from
        /\ \A b \in Agg : b # a => aggNext'[b] = aggNext[b]
    BY <1>1, <1>3, <1>4 DEF SentInOrder
  <1>6. SentInOrder'
    BY <1>2, <1>3, <1>4, <1>5 DEF SentInOrder
  <1> QED
    BY <1>2, <1>6 DEF JoinInv, PartsKnown, joinVars, DecidedRight

-----------------------------------------------------------------------------
(* The joiner receives.                                                    *)

(* The next part is a duplicate, or the one its sender numbered next.      *)
LEMMA NextPart ==
    ASSUME JoinInv, next <= Len(parts)
    PROVE  /\ parts[next] \in Part /\ next \in DOMAIN parts /\ next + 1 \in 1..(Len(parts) + 1)
           /\ \A s \in Source : \A n \in DOMAIN Of[s] :
                parts[next] = Base(s, n) /\ ~Duplicate(parts[next]) => n = lastSrc[s] + 1
           /\ \A a \in Agg : \A n \in DOMAIN Released[a] :
                parts[next] = EntityPart(a, n) /\ ~Duplicate(parts[next]) => n = lastAgg[a] + 1
  <1>1. /\ parts \in Seq(Part) /\ Len(parts) \in Nat /\ NoHoles(parts)
        /\ Marks(parts, next, lastSrc, lastAgg)
    BY DEF JoinInv, PartsKnown
  <1>2. next \in DOMAIN parts /\ parts[next] \in Part /\ next + 1 \in 1..(Len(parts) + 1)
    BY <1>1 DEF Marks
  <1>3. ASSUME NEW s \in Source, NEW n \in DOMAIN Of[s], parts[next] = Base(s, n), ~Duplicate(parts[next])
        PROVE  n = lastSrc[s] + 1
    <2>1. ~(n <= lastSrc[s])
      BY <1>3, BaseOfPart DEF Duplicate
    <2>2. \A m \in 1..(n - 1) : BaseBy(parts, s, m, next - 1)
      BY <1>1, <1>2, <1>3 DEF NoHoles
    <2>3. n \in 1..Len(Of[s]) /\ Len(Of[s]) \in Nat /\ lastSrc[s] \in Nat
      BY <1>1, OfPayments DEF Marks
    <2>4. n = 1 \/ (n - 1 \in 1..(n - 1) /\ n - 1 \in DOMAIN Of[s])
      BY <2>3, OfPayments
    <2>5. n = 1 \/ n - 1 <= lastSrc[s]
      BY <2>2, <2>4, <1>1 DEF Marks
    <2> QED
      BY <2>1, <2>3, <2>5
  <1>4. ASSUME NEW a \in Agg, NEW n \in DOMAIN Released[a], parts[next] = EntityPart(a, n),
               ~Duplicate(parts[next])
        PROVE  n = lastAgg[a] + 1
    <2>1. ~(n <= lastAgg[a])
      BY <1>4, EntityOfPart DEF Duplicate
    <2>2. \A m \in 1..(n - 1) : EntityBy(parts, a, m, next - 1)
      BY <1>1, <1>2, <1>4 DEF NoHoles
    <2>3. n \in 1..Len(Released[a]) /\ Len(Released[a]) \in Nat /\ lastAgg[a] \in Nat
      BY <1>1, ReleasedOwned DEF Marks
    <2>4. n = 1 \/ (n - 1 \in 1..(n - 1) /\ n - 1 \in DOMAIN Released[a])
      BY <2>3, ReleasedOwned
    <2>5. n = 1 \/ n - 1 <= lastAgg[a]
      BY <2>2, <2>4, <1>1 DEF Marks
    <2> QED
      BY <2>1, <2>3, <2>5
  <1> QED
    BY <1>2, <1>3, <1>4

(* Which parts are among the first n, given those among the first n - 1.   *)
LEMMA ByNext ==
    ASSUME NEW ps \in Seq(Part), NEW n \in DOMAIN ps
    PROVE  /\ \A s, m : BaseBy(ps, s, m, n) <=> BaseBy(ps, s, m, n - 1) \/ ps[n] = Base(s, m)
           /\ \A a, m : EntityBy(ps, a, m, n) <=> EntityBy(ps, a, m, n - 1) \/ ps[n] = EntityPart(a, m)
  <1>1. \A j \in 1..n : j \in 1..(n - 1) \/ j = n
    OBVIOUS
  <1>2. n \in 1..n /\ \A j \in 1..(n - 1) : j \in 1..n
    OBVIOUS
  <1> QED
    BY <1>1, <1>2 DEF BaseBy, EntityBy

LEMMA DuplicateMarks ==
    ASSUME JoinInv, next <= Len(parts), Duplicate(parts[next])
    PROVE  Marks(parts, next + 1, lastSrc, lastAgg)
  <1> DEFINE r == parts[next]
  <1>1. /\ parts \in Seq(Part) /\ Marks(parts, next, lastSrc, lastAgg)
    BY DEF JoinInv, PartsKnown
  <1>2. /\ next \in DOMAIN parts /\ r \in Part /\ next + 1 \in 1..(Len(parts) + 1)
        /\ next + 1 - 1 = next
    BY NextPart, <1>1 DEF Marks
  <1>3. ASSUME NEW s \in Source, NEW m \in DOMAIN Of[s], r = Base(s, m)
        PROVE  m <= lastSrc[s]
    BY <1>3, BaseOfPart DEF Duplicate
  <1>4. ASSUME NEW a \in Agg, NEW m \in DOMAIN Released[a], r = EntityPart(a, m)
        PROVE  m <= lastAgg[a]
    BY <1>4, EntityOfPart DEF Duplicate
  <1>5. /\ \A s \in Source : \A m \in DOMAIN Of[s] : m <= lastSrc[s] <=> BaseBy(parts, s, m, next)
        /\ \A a \in Agg : \A m \in DOMAIN Released[a] : m <= lastAgg[a] <=> EntityBy(parts, a, m, next)
    BY <1>1, <1>2, <1>3, <1>4, ByNext DEF Marks
  <1> QED
    BY <1>1, <1>2, <1>5 DEF Marks

LEMMA BaseMarks ==
    ASSUME JoinInv, next <= Len(parts), NEW s \in Source, NEW n \in DOMAIN Of[s],
           parts[next] = Base(s, n), n = lastSrc[s] + 1
    PROVE  Marks(parts, next + 1, [lastSrc EXCEPT ![s] = n], lastAgg)
  <1> DEFINE ls == [lastSrc EXCEPT ![s] = n]
  <1>1. /\ parts \in Seq(Part) /\ Marks(parts, next, lastSrc, lastAgg)
    BY DEF JoinInv, PartsKnown
  <1>2. /\ next \in DOMAIN parts /\ next + 1 \in 1..(Len(parts) + 1) /\ next + 1 - 1 = next
    BY NextPart, <1>1 DEF Marks
  <1>3. n \in 1..Len(Of[s]) /\ n \in Nat /\ lastSrc[s] \in Nat /\ Len(Of[s]) \in Nat
    BY <1>1, OfPayments DEF Marks
  <1>4. ls \in [Source -> Nat] /\ ls[s] = n /\ \A t \in Source : t # s => ls[t] = lastSrc[t]
    BY <1>1, <1>3 DEF Marks
  <1>5. \A t \in Source : \A m \in DOMAIN Of[t] : parts[next] = Base(t, m) <=> t = s /\ m = n
    BY BaseOfPart
  <1>6. \A a \in Agg : \A m \in DOMAIN Released[a] : parts[next] # EntityPart(a, m)
    BY BaseOfPart, EntityOfPart
  <1> HIDE DEF ls
  <1>7. ASSUME NEW t \in Source
        PROVE  /\ ls[t] <= Len(Of[t])
               /\ \A m \in DOMAIN Of[t] : m <= ls[t] <=> BaseBy(parts, t, m, next)
    <2>1. \A m \in DOMAIN Of[t] : m <= lastSrc[t] <=> BaseBy(parts, t, m, next - 1)
      BY <1>1 DEF Marks
    <2>2. \A m : BaseBy(parts, t, m, next) <=> BaseBy(parts, t, m, next - 1) \/ parts[next] = Base(t, m)
      BY <1>1, <1>2, ByNext
    <2>3. CASE t = s
      <3>1. \A m \in DOMAIN Of[s] : m \in Nat
        BY OfPayments
      <3>2. \A m \in DOMAIN Of[s] : m <= n <=> m <= lastSrc[s] \/ m = n
        BY <3>1, <1>3
      <3>3. \A m \in DOMAIN Of[s] : m <= n <=> BaseBy(parts, s, m, next)
        BY <2>1, <2>2, <2>3, <3>2, <1>5
      <3> QED
        BY <2>3, <3>3, <1>3, <1>4
    <2>4. CASE t # s
      <3>1. \A m \in DOMAIN Of[t] : m <= ls[t] <=> BaseBy(parts, t, m, next)
        BY <2>1, <2>2, <2>4, <1>4, <1>5
      <3> QED
        BY <3>1, <2>4, <1>1, <1>4 DEF Marks
    <2> QED
      BY <2>3, <2>4
  <1>8. \A a \in Agg : \A m \in DOMAIN Released[a] : m <= lastAgg[a] <=> EntityBy(parts, a, m, next)
    BY <1>1, <1>2, <1>6, ByNext DEF Marks
  <1>9. Marks(parts, next + 1, ls, lastAgg)
    BY <1>1, <1>2, <1>4, <1>7, <1>8 DEF Marks
  <1> QED
    BY <1>9 DEF ls

LEMMA EntityMarks ==
    ASSUME JoinInv, next <= Len(parts), NEW a \in Agg, NEW n \in DOMAIN Released[a],
           parts[next] = EntityPart(a, n), n = lastAgg[a] + 1
    PROVE  Marks(parts, next + 1, lastSrc, [lastAgg EXCEPT ![a] = n])
  <1> DEFINE la == [lastAgg EXCEPT ![a] = n]
  <1>1. /\ parts \in Seq(Part) /\ Marks(parts, next, lastSrc, lastAgg)
    BY DEF JoinInv, PartsKnown
  <1>2. /\ next \in DOMAIN parts /\ next + 1 \in 1..(Len(parts) + 1) /\ next + 1 - 1 = next
    BY NextPart, <1>1 DEF Marks
  <1>3. n \in 1..Len(Released[a]) /\ n \in Nat /\ lastAgg[a] \in Nat /\ Len(Released[a]) \in Nat
    BY <1>1, ReleasedOwned DEF Marks
  <1>4. la \in [Agg -> Nat] /\ la[a] = n /\ \A b \in Agg : b # a => la[b] = lastAgg[b]
    BY <1>1, <1>3 DEF Marks
  <1>5. \A b \in Agg : \A m \in DOMAIN Released[b] : parts[next] = EntityPart(b, m) <=> b = a /\ m = n
    BY EntityOfPart
  <1>6. \A s \in Source : \A m \in DOMAIN Of[s] : parts[next] # Base(s, m)
    BY BaseOfPart, EntityOfPart
  <1> HIDE DEF la
  <1>7. ASSUME NEW b \in Agg
        PROVE  /\ la[b] <= Len(Released[b])
               /\ \A m \in DOMAIN Released[b] : m <= la[b] <=> EntityBy(parts, b, m, next)
    <2>1. \A m \in DOMAIN Released[b] : m <= lastAgg[b] <=> EntityBy(parts, b, m, next - 1)
      BY <1>1 DEF Marks
    <2>2. \A m : EntityBy(parts, b, m, next) <=> EntityBy(parts, b, m, next - 1) \/ parts[next] = EntityPart(b, m)
      BY <1>1, <1>2, ByNext
    <2>3. CASE b = a
      <3>1. \A m \in DOMAIN Released[a] : m \in Nat
        BY ReleasedOwned
      <3>2. \A m \in DOMAIN Released[a] : m <= n <=> m <= lastAgg[a] \/ m = n
        BY <3>1, <1>3
      <3>3. \A m \in DOMAIN Released[a] : m <= n <=> EntityBy(parts, a, m, next)
        BY <2>1, <2>2, <2>3, <3>2, <1>5
      <3> QED
        BY <2>3, <3>3, <1>3, <1>4
    <2>4. CASE b # a
      <3>1. \A m \in DOMAIN Released[b] : m <= la[b] <=> EntityBy(parts, b, m, next)
        BY <2>1, <2>2, <2>4, <1>4, <1>5
      <3> QED
        BY <3>1, <2>4, <1>1, <1>4 DEF Marks
    <2> QED
      BY <2>3, <2>4
  <1>8. \A s \in Source : \A m \in DOMAIN Of[s] : m <= lastSrc[s] <=> BaseBy(parts, s, m, next)
    BY <1>1, <1>2, <1>6, ByNext DEF Marks
  <1>9. Marks(parts, next + 1, lastSrc, la)
    BY <1>1, <1>2, <1>4, <1>7, <1>8 DEF Marks
  <1> QED
    BY <1>9 DEF la

-----------------------------------------------------------------------------
(* The joins.                                                              *)

LEMMA BaseCounts ==
    ASSUME NEW ls \in [Source -> Nat], NEW s \in Source, NEW n \in DOMAIN Of[s], n = ls[s] + 1,
           NEW l2, l2[s] = n, \A t \in Source : t # s => l2[t] = ls[t]
    PROVE  /\ \A q : HasBase(l2, q) <=> HasBase(ls, q) \/ q = Of[s][n]
           /\ ~HasBase(ls, Of[s][n])
  <1>2. ls[s] \in Nat /\ n \in Nat /\ ~(n <= ls[s]) /\ n <= n
    OBVIOUS
  <1>3. \A m \in DOMAIN Of[s] : m <= n <=> m <= ls[s] \/ m = n
    <2>1. \A m \in DOMAIN Of[s] : m \in Nat
      BY OfPayments
    <2> QED
      BY <2>1, <1>2
  <1>4. \A q : HasBase(l2, q) <=> HasBase(ls, q) \/ q = Of[s][n]
    BY <1>2, <1>3 DEF HasBase
  <1>5. ~HasBase(ls, Of[s][n])
    BY <1>2, PaymentsAssumption DEF HasBase
  <1> QED
    BY <1>4, <1>5

LEMMA EntityCounts ==
    ASSUME NEW la \in [Agg -> Nat], NEW a \in Agg, NEW n \in DOMAIN Released[a], n = la[a] + 1,
           NEW l2, l2[a] = n, \A b \in Agg : b # a => l2[b] = la[b]
    PROVE  /\ \A q \in Payments : q # Released[a][n][1] => Has(l2, q) = Has(la, q)
           /\ Has(l2, Released[a][n][1]) = Has(la, Released[a][n][1]) \cup {Released[a][n][2]}
           /\ Released[a][n][2] \notin Has(la, Released[a][n][1])
  <1> DEFINE p == Released[a][n][1]
             e == Released[a][n][2]
  <1>0. Released[a][n] = <<p, e>>
    BY ReleasedOwned
  <1>2. la[a] \in Nat /\ n \in Nat /\ ~(n <= la[a]) /\ n <= n
    OBVIOUS
  <1>3. \A m \in DOMAIN Released[a] : m <= n <=> m <= la[a] \/ m = n
    <2>1. \A m \in DOMAIN Released[a] : m \in Nat
      BY ReleasedOwned
    <2> QED
      BY <2>1, <1>2
  <1>4. p \in Payments /\ e \in Mask(p) /\ AggOf[Key[p][e]] = a
    BY ReleasedOwned
  <1> HIDE DEF p, e
  <1>5. \A q, f : Gave(l2, q, f) <=> Gave(la, q, f) \/ <<q, f>> = <<p, e>>
    BY <1>0, <1>2, <1>3 DEF Gave
  <1>6. \A q : \A f \in Mask(q) : f \in Has(l2, q) <=> f \in Has(la, q) \/ <<q, f>> = <<p, e>>
    BY <1>5 DEF Has
  <1>8. \A q : Has(l2, q) \subseteq Mask(q) /\ Has(la, q) \subseteq Mask(q)
    BY DEF Has
  <1>9. ASSUME NEW q \in Payments, q # p
        PROVE  Has(l2, q) = Has(la, q)
    BY <1>6, <1>8, <1>9
  <1>10. Has(l2, p) = Has(la, p) \cup {e}
    BY <1>4, <1>6, <1>8
  <1>7. e \notin Has(la, p)
    <2> SUFFICES ASSUME NEW b \in Agg, NEW m \in DOMAIN Released[b], m <= la[b], Released[b][m] = <<p, e>>
                 PROVE  FALSE
      BY DEF Has, Gave
    <2>1. b = a
      BY ReleasedOwned, <1>4
    <2>2. m = n
      <3>1. Released[a][m] = Released[a][n] /\ m \in DOMAIN Released[a]
        BY <2>1, <1>0
      <3> QED
        BY <3>1, ReleasedAssumption
    <2> QED
      BY <2>1, <2>2, <1>2
  <1> QED
    BY <1>7, <1>9, <1>10 DEF p, e

LEMMA CompleteIsFinished ==
    ASSUME NEW ls, NEW la, NEW p, NEW j, PartsOf(ls, la, p, j)
    PROVE  /\ Complete(j) <=> Finished(ls, la, p)
           /\ HasBase(ls, p) => j.base.mask = Mask(p)
  <1>1. CASE HasBase(ls, p)
    <2>1a. PICK s \in Source : \E n \in DOMAIN Of[s] : j.base = Base(s, n)
      BY <1>1 DEF PartsOf, IsBase
    <2>1. PICK n \in DOMAIN Of[s] : j.base = Base(s, n)
      BY <2>1a
    <2>2. j.base.mask = Mask(p)
      BY <1>1, <2>1, BaseOfPart DEF PartsOf
    <2>3. j.base # None
      BY <2>1, NoneAssumption
    <2> QED
      BY <1>1, <2>2, <2>3 DEF PartsOf, Complete, Finished
  <1>2. CASE ~HasBase(ls, p)
    BY <1>2 DEF PartsOf, Complete, Finished
  <1> QED
    BY <1>1, <1>2

(* A join of which all parts have come decides as the sequential engine.   *)
LEMMA DecisionRight ==
    ASSUME NEW ls, NEW la, NEW p \in Payments, NEW j, PartsOf(ls, la, p, j), Complete(j)
    PROVE  Decision(j) = Sequential!ScoreAndUpdate(p)
  <1>1. /\ HasBase(ls, p) /\ j.have = Mask(p) /\ j.base.mask = Mask(p) /\ j.base.payment = p
        /\ \A e \in Mask(p) : j.values[e] = Sequential!StateBefore(p, e)
    BY CompleteIsFinished DEF PartsOf, Finished
  <1>2. \A e \in Entities : e \in Mask(p) <=> Key[p][e] # NoKey
    BY DEF Mask
  <1>3. [e \in Entities |-> IF e \in j.base.mask THEN j.values[e] ELSE Missing]
          = [e \in Entities |-> IF Key[p][e] = NoKey THEN Sequential!NoFeatures
                               ELSE Sequential!StateBefore(p, e)]
    BY <1>1, <1>2 DEF Missing, Sequential!NoFeatures
  <1> QED
    BY <1>1, <1>3 DEF Decision, Sequential!ScoreAndUpdate

LEMMA JoinOfParts ==
    ASSUME JoinInv, NEW p \in Payments, ~Finished(lastSrc, lastAgg, p)
    PROVE  PartsOf(lastSrc, lastAgg, p, JoinOf(p))
  <1>1. CASE p \in DOMAIN pending
    BY <1>1 DEF JoinInv, Joined, JoinOf
  <1>2. CASE p \notin DOMAIN pending
    <2>1. ~HasBase(lastSrc, p) /\ Has(lastAgg, p) = {}
      BY <1>2 DEF JoinInv, Joined, Started
    <2>2. NewJoin \in JoinRecord /\ NewJoin.base = None /\ NewJoin.have = {}
      BY DEF NewJoin, JoinRecord
    <2> QED
      BY <1>2, <2>1, <2>2 DEF PartsOf, JoinOf
  <1> QED
    BY <1>1, <1>2

LEMMA EntityAdded ==
    ASSUME NEW j \in JoinRecord, NEW r, r.kind = "entity",
           r.entity \in Entities, r.values \in SUBSET Payments
    PROVE  /\ With(j, r) \in JoinRecord /\ With(j, r).base = j.base
           /\ With(j, r).have = j.have \cup {r.entity}
           /\ With(j, r).values = [j.values EXCEPT ![r.entity] = r.values]
           /\ j.values \in [Entities -> SUBSET Payments]
  <1> DEFINE e == r.entity
             v == r.values
             k == With(j, r)
  <1>1. j = [base |-> j.base, have |-> j.have, values |-> j.values]
    BY DEF JoinRecord
  <1>2. k = [base |-> j.base, have |-> j.have \cup {e}, values |-> [j.values EXCEPT ![e] = v]]
    BY DEF JoinRecord, With
  <1>3. /\ j.base \in {None} \cup Part /\ j.have \subseteq Entities
        /\ j.values \in [Entities -> SUBSET Payments]
    BY DEF JoinRecord
  <1>4. [j.values EXCEPT ![e] = v] \in [Entities -> SUBSET Payments] /\ j.have \cup {e} \in SUBSET Entities
    BY <1>3
  <1> HIDE DEF k
  <1>5. k.base = j.base /\ k.have = j.have \cup {e} /\ k.values = [j.values EXCEPT ![e] = v]
    BY <1>2
  <1>6. k \in JoinRecord
    BY <1>2, <1>3, <1>4 DEF JoinRecord
  <1> QED
    BY <1>3, <1>5, <1>6 DEF k

(* What one part changes: the join of its payment.                         *)
LEMMA JoinedTaken ==
    ASSUME NEW pend, NEW ls, NEW la, NEW l2, NEW a2, Joined(pend, ls, la), NEW p \in Payments,
           \A q \in Payments : q # p => /\ HasBase(l2, q) <=> HasBase(ls, q)
                                       /\ Has(a2, q) = Has(la, q),
           Started(l2, a2, p), NEW j, PartsOf(l2, a2, p, j)
    PROVE  /\ Complete(j) => Joined(Removed(pend, p), l2, a2)
           /\ ~Complete(j) => Joined(PutJoin(pend, p, j), l2, a2)
  <1>1. \A q \in Payments : q # p =>
          /\ Started(l2, a2, q) <=> Started(ls, la, q)
          /\ Finished(l2, a2, q) <=> Finished(ls, la, q)
          /\ \A k : PartsOf(l2, a2, q, k) <=> PartsOf(ls, la, q, k)
    BY DEF Started, Finished, PartsOf
  <1>2. Complete(j) <=> Finished(l2, a2, p)
    BY CompleteIsFinished
  <1>3. DOMAIN pend \subseteq Payments
    BY DEF Joined
  <1>4. CASE Complete(j)
    <2>1. /\ DOMAIN Removed(pend, p) = DOMAIN pend \ {p}
          /\ \A q \in DOMAIN pend \ {p} : Removed(pend, p)[q] = pend[q]
      BY DEF Removed
    <2> QED
      BY <1>1, <1>2, <1>3, <1>4, <2>1 DEF Joined
  <1>5. CASE ~Complete(j)
    <2>1. /\ DOMAIN PutJoin(pend, p, j) = DOMAIN pend \cup {p}
          /\ PutJoin(pend, p, j)[p] = j
          /\ \A q \in DOMAIN pend : q # p => PutJoin(pend, p, j)[q] = pend[q]
      BY DEF PutJoin
    <2> QED
      BY <1>1, <1>2, <1>3, <1>5, <2>1 DEF Joined
  <1> QED
    BY <1>4, <1>5

(* The rest of Handle, once the part is known to be new.                   *)
LEMMA TakenPreserves ==
    ASSUME JoinInv, UNCHANGED <<sender, aggNext, parts, saved>>,
           Marks(parts, next', lastSrc', lastAgg'), NEW p \in Payments,
           \A q \in Payments : q # p => /\ HasBase(lastSrc', q) <=> HasBase(lastSrc, q)
                                       /\ Has(lastAgg', q) = Has(lastAgg, q),
           Started(lastSrc', lastAgg', p), NEW j, PartsOf(lastSrc', lastAgg', p, j),
           IF Complete(j)
           THEN pending' = Removed(pending, p) /\ decisions' = Append(decisions, Decision(j))
           ELSE pending' = PutJoin(pending, p, j) /\ UNCHANGED decisions
    PROVE  JoinInv'
  <1>1. Joined(pending', lastSrc', lastAgg')
    BY JoinedTaken DEF JoinInv
  <1>2. DecidedRight'
    <2>1. CASE Complete(j)
      <3>1. Decision(j) \in Right
        BY <2>1, DecisionRight DEF Right
      <3> QED
        BY <2>1, <3>1 DEF JoinInv, DecidedRight
    <2>2. CASE ~Complete(j)
      BY <2>2 DEF JoinInv, DecidedRight
    <2> QED
      BY <2>1, <2>2
  <1>3. SentInOrder'
    BY DEF JoinInv, SentInOrder
  <1> QED
    BY <1>1, <1>2, <1>3 DEF JoinInv, PartsKnown

LEMMA HandlePreserves ==
    ASSUME JoinInv, Handle
    PROVE  JoinInv'
  <1> DEFINE r == parts[next]
             p == r.payment
             j == With(JoinOf(p), r)
  <1>1. /\ next <= Len(parts) /\ next' = next + 1
        /\ UNCHANGED <<sender, aggNext, parts, saved>>
    BY DEF Handle
  <1>2. /\ r \in Part
        /\ Marks(parts, next, lastSrc, lastAgg)
        /\ lastSrc \in [Source -> Nat] /\ lastAgg \in [Agg -> Nat]
    BY <1>1, NextPart DEF JoinInv, Marks
  <1>3. CASE Duplicate(r)
    <2>1. UNCHANGED <<pending, lastSrc, lastAgg, decisions>>
      BY <1>3 DEF Handle
    <2>2. Marks(parts, next', lastSrc', lastAgg')
      BY <1>1, <1>3, <2>1, DuplicateMarks
    <2>3. SentInOrder'
      BY <1>1 DEF JoinInv, SentInOrder
    <2> QED
      BY <1>1, <2>1, <2>2, <2>3 DEF JoinInv, PartsKnown, DecidedRight
  <1>4. CASE ~Duplicate(r) /\ IsBase(r)
    <2>1a. PICK s \in Source : \E n \in DOMAIN Of[s] : r = Base(s, n)
      BY <1>4 DEF IsBase
    <2>1. PICK n \in DOMAIN Of[s] : r = Base(s, n)
      BY <2>1a
    <2>2. n = lastSrc[s] + 1
      BY <1>1, <1>4, <2>1, NextPart
    <2>3. /\ r.kind = "base" /\ r.src = s /\ r.offset = n /\ p = Of[s][n] /\ p \in Payments
          /\ IsBase(r)
      BY <2>1, BaseOfPart, OfPayments
    <2>4. /\ lastSrc' = [lastSrc EXCEPT ![s] = n] /\ lastAgg' = lastAgg
          /\ IF Complete(j)
             THEN pending' = Removed(pending, p) /\ decisions' = Append(decisions, Decision(j))
             ELSE pending' = PutJoin(pending, p, j) /\ UNCHANGED decisions
      BY <1>4, <2>3 DEF Handle
    <2>5. /\ \A q : HasBase(lastSrc', q) <=> HasBase(lastSrc, q) \/ q = p
          /\ ~HasBase(lastSrc, p)
      <3> HIDE DEF p, j
      <3>1. lastSrc'[s] = n /\ \A t \in Source : t # s => lastSrc'[t] = lastSrc[t]
        BY <1>2, <2>4
      <3>2. /\ \A q : HasBase(lastSrc', q) <=> HasBase(lastSrc, q) \/ q = Of[s][n]
            /\ ~HasBase(lastSrc, Of[s][n])
        BY <3>1, <1>2, <2>2, BaseCounts
      <3> QED
        BY <3>2, <2>3
    <2>6. PartsOf(lastSrc, lastAgg, p, JoinOf(p))
      BY <2>3, <2>5, JoinOfParts DEF Finished
    <2>7. PartsOf(lastSrc', lastAgg', p, j)
      <3>1. j = [JoinOf(p) EXCEPT !.base = r]
        BY <2>3 DEF With
      <3>2. JoinOf(p) \in JoinRecord
        BY <2>6 DEF PartsOf
      <3>3. j \in JoinRecord /\ j.base = r /\ j.have = JoinOf(p).have /\ j.values = JoinOf(p).values
        BY <3>1, <3>2, <1>2 DEF JoinRecord
      <3> HIDE DEF j, p
      <3> QED
        BY <3>3, <2>3, <2>4, <2>5, <2>6 DEF PartsOf, p
    <2>8. Started(lastSrc', lastAgg', p)
      BY <2>5 DEF Started
    <2>9. Marks(parts, next', lastSrc', lastAgg')
      BY <1>1, <2>1, <2>2, <2>4, BaseMarks
    <2> HIDE DEF j, p
    <2> QED
      BY <1>1, <2>3, <2>4, <2>5, <2>7, <2>8, <2>9, TakenPreserves
  <1>5. CASE ~Duplicate(r) /\ IsEntity(r)
    <2>1a. PICK a \in Agg : \E n \in DOMAIN Released[a] : r = EntityPart(a, n)
      BY <1>5 DEF IsEntity
    <2>1. PICK n \in DOMAIN Released[a] : r = EntityPart(a, n)
      BY <2>1a
    <2>2. n = lastAgg[a] + 1
      BY <1>1, <1>5, <2>1, NextPart
    <2> DEFINE e == r.entity
    <2>3. /\ r.kind = "entity" /\ r.agg = a /\ r.seq = n /\ p \in Payments
          /\ Released[a][n] = <<p, e>> /\ e \in Entities /\ e \in Mask(p)
      BY <2>1, EntityOfPart, ReleasedOwned DEF Mask
    <2>4. /\ lastSrc' = lastSrc /\ lastAgg' = [lastAgg EXCEPT ![a] = n]
          /\ IF Complete(j)
             THEN pending' = Removed(pending, p) /\ decisions' = Append(decisions, Decision(j))
             ELSE pending' = PutJoin(pending, p, j) /\ UNCHANGED decisions
      BY <1>5, <2>3 DEF Handle
    <2>5. /\ \A q \in Payments : q # p => Has(lastAgg', q) = Has(lastAgg, q)
          /\ Has(lastAgg', p) = Has(lastAgg, p) \cup {e}
          /\ e \notin Has(lastAgg, p)
      <3> HIDE DEF p, j, e, r
      <3>1. lastAgg'[a] = n /\ \A b \in Agg : b # a => lastAgg'[b] = lastAgg[b]
        BY <1>2, <2>4
      <3>2. /\ \A q \in Payments : q # Released[a][n][1] => Has(lastAgg', q) = Has(lastAgg, q)
            /\ Has(lastAgg', Released[a][n][1]) = Has(lastAgg, Released[a][n][1]) \cup {Released[a][n][2]}
            /\ Released[a][n][2] \notin Has(lastAgg, Released[a][n][1])
        BY <3>1, <1>2, <2>2, EntityCounts, SMTT(60)
      <3> QED
        BY <3>2, <2>3
    <2>6. PartsOf(lastSrc, lastAgg, p, JoinOf(p))
      BY <2>3, <2>5, JoinOfParts DEF Finished
    <2>7. r.values = Sequential!StateBefore(p, e) /\ r.values \subseteq Payments
      BY <2>1, <2>3, EntityValues
    <2>8. PartsOf(lastSrc', lastAgg', p, j)
      <3>1. j = With(JoinOf(p), r)
        OBVIOUS
      <3>2. JoinOf(p) \in JoinRecord
        BY <2>6 DEF PartsOf
      <3> HIDE DEF p, e
      <3>3. /\ j.base = JoinOf(p).base /\ j.have = JoinOf(p).have \cup {e}
            /\ j.values = [JoinOf(p).values EXCEPT ![e] = r.values]
            /\ JoinOf(p).values \in [Entities -> SUBSET Payments]
            /\ j \in JoinRecord
        <4> HIDE DEF j, r
        <4> QED
          <5>1. r.values \in SUBSET Payments
            BY <2>7
          <5>2. /\ With(JoinOf(p), r) \in JoinRecord /\ With(JoinOf(p), r).base = JoinOf(p).base
                /\ With(JoinOf(p), r).have = JoinOf(p).have \cup {r.entity}
                /\ With(JoinOf(p), r).values = [JoinOf(p).values EXCEPT ![r.entity] = r.values]
                /\ JoinOf(p).values \in [Entities -> SUBSET Payments]
            <6>1. r.kind = "entity" /\ r.entity \in Entities
              BY <2>3 DEF e
            <6> HIDE DEF e
            <6> QED
              BY <5>1, <6>1, <3>2, EntityAdded
          <5> QED
            BY <5>2, <3>1 DEF e
      <3>4. \A f \in j.have : j.values[f] = Sequential!StateBefore(p, f)
        <4>1. \A f \in JoinOf(p).have : f \in Entities /\ JoinOf(p).values[f] = Sequential!StateBefore(p, f)
          BY <2>6, <3>2 DEF PartsOf, JoinRecord
        <4>2. /\ j.values[e] = r.values
              /\ \A f \in Entities : f # e => j.values[f] = JoinOf(p).values[f]
          BY <3>3, <2>3
        <4> QED
          BY <4>1, <4>2, <3>3, <2>7
      <3> HIDE DEF j
      <3> QED
        BY <3>3, <3>4, <2>4, <2>5, <2>6 DEF PartsOf
    <2>9. Started(lastSrc', lastAgg', p)
      BY <2>5 DEF Started
    <2>10. Marks(parts, next', lastSrc', lastAgg')
      BY <1>1, <2>1, <2>2, <2>4, EntityMarks
    <2> HIDE DEF j, p, e
    <2> QED
      BY <1>1, <2>3, <2>4, <2>5, <2>8, <2>9, <2>10, TakenPreserves
  <1> QED
    BY <1>2, <1>3, <1>4, <1>5, PartKinds

-----------------------------------------------------------------------------
(* The joiner and its checkpoint, and the whole.                           *)

LEMMA SavePreserves ==
    ASSUME JoinInv, Checkpoint \/ Restart
    PROVE  JoinInv'
  <1>1. UNCHANGED <<sender, aggNext, parts, decisions>>
    BY DEF Checkpoint, Restart
  <1>2. SentInOrder' /\ DecidedRight' /\ PartsKnown' /\ NoHoles(parts')
    BY <1>1 DEF JoinInv, SentInOrder, DecidedRight, PartsKnown
  <1>3. CASE Checkpoint
    <2>1. /\ saved' = Snapshot /\ UNCHANGED joinVars
          /\ saved'.next = next /\ saved'.pending = pending
          /\ saved'.lastSrc = lastSrc /\ saved'.lastAgg = lastAgg
      BY <1>3 DEF Checkpoint, Snapshot
    <2> QED
      BY <1>1, <1>2, <2>1 DEF JoinInv, joinVars
  <1>4. CASE Restart
    <2>1. /\ next' = saved.next /\ pending' = saved.pending /\ UNCHANGED saved
          /\ lastSrc' = saved.lastSrc /\ lastAgg' = saved.lastAgg
      BY <1>4 DEF Restart
    <2> QED
      BY <1>1, <1>2, <2>1 DEF JoinInv
  <1> QED
    BY <1>3, <1>4

LEMMA JoinInitially == Init => JoinInv
  <1> SUFFICES ASSUME Init
               PROVE  JoinInv
    OBVIOUS
  <1> DEFINE ls == [s \in Source |-> 0]
             la == [a \in Agg |-> 0]
  <1>1. /\ parts = << >> /\ next = 1 /\ pending = << >> /\ lastSrc = ls /\ lastAgg = la
        /\ saved.next = 1 /\ saved.pending = << >> /\ saved.lastSrc = ls /\ saved.lastAgg = la
        /\ decisions = << >>
    BY DEF Init
  <1>2. PartsKnown /\ NoHoles(parts) /\ DecidedRight
    BY <1>1 DEF PartsKnown, NoHoles, DecidedRight
  <1>3. /\ \A s \in Source : Len(Of[s]) \in Nat /\ \A m \in DOMAIN Of[s] : m \in Nat /\ ~(m <= 0)
        /\ \A a \in Agg : Len(Released[a]) \in Nat /\ \A m \in DOMAIN Released[a] : m \in Nat /\ ~(m <= 0)
    <2>1. /\ \A s \in Source : Of[s] \in Seq(Payments)
          /\ \A a \in Agg : Released[a] \in Seq(Payments \X Entities)
      BY PaymentsAssumption, ReleasedAssumption
    <2> QED
      BY <2>1
  <1>4. SentInOrder
    <2>1. /\ sender = [si \in Source \X {1, 2} |-> IF si[2] = 1 THEN None ELSE 0] /\ aggNext = la
      BY DEF Init
    <2>2. /\ sender \in [Source \X {1, 2} -> Nat \cup {None}]
          /\ \A s \in Source : sender[<<s, 1>>] = None /\ sender[<<s, 2>>] = 0
      BY <2>1
    <2> QED
      BY <2>1, <2>2, <1>3 DEF SentInOrder
  <1>5. Marks(parts, 1, ls, la)
    <2>1. \A s, m : ~BaseBy(parts, s, m, 1 - 1) /\ ~EntityBy(parts, s, m, 1 - 1)
      BY DEF BaseBy, EntityBy
    <2>2. 1 \in 1..(Len(parts) + 1)
      BY <1>1
    <2> QED
      BY <2>1, <2>2, <1>3 DEF Marks
  <1>6. Joined(<< >>, ls, la)
    <2>1. \A p : ~HasBase(ls, p) /\ Has(la, p) = {}
      BY <1>3 DEF HasBase, Has, Gave
    <2>2. DOMAIN << >> = {}
      OBVIOUS
    <2> QED
      BY <2>1, <2>2 DEF Joined, Started
  <1> QED
    BY <1>1, <1>2, <1>4, <1>5, <1>6 DEF JoinInv

LEMMA JoinStep ==
    ASSUME JoinInv, [Next]_vars
    PROVE  JoinInv'
  <1>1. CASE UNCHANGED vars
    BY <1>1 DEF vars, joinVars, JoinInv, PartsKnown, SentInOrder, DecidedRight
  <1>2. CASE Next
    BY <1>2, TakeOverPreserves, SendBasePreserves, SendEntityPreserves, RestartAggPreserves,
       HandlePreserves, SavePreserves DEF Next
  <1> QED
    BY <1>1, <1>2

LEMMA JoinInvariant == Spec => []JoinInv
  BY JoinInitially, JoinStep, PTL DEF Spec

(* No join waits for parts that were already used: one whose base part     *)
(* came, and all the entity parts its mask names, is not pending           *)
(* (join.go, handle), whatever is sent again.                              *)
THEOREM JoinsBounded == Spec => []NoLeftovers
  <1>1. JoinInv => NoLeftovers
    <2> SUFFICES ASSUME JoinInv, NEW p \in DOMAIN pending,
                        NEW b \in {parts[j] : j \in Received(p)}, b.kind = "base",
                        b.mask \subseteq {r.entity : r \in {parts[j] : j \in Received(p)} \ {b}}
                 PROVE  FALSE
      BY DEF NoLeftovers
    <2>1. /\ parts \in Seq(Part) /\ Len(parts) \in Nat /\ Marks(parts, next, lastSrc, lastAgg)
          /\ Joined(pending, lastSrc, lastAgg) /\ p \in Payments
      BY DEF JoinInv, PartsKnown, Joined
    <2>2. \A j \in Received(p) : /\ j \in DOMAIN parts /\ j \in 1..(next - 1)
                                /\ parts[j] \in Part /\ parts[j].payment = p
      BY <2>1 DEF Received, Marks
    <2>3. PICK k \in Received(p) : b = parts[k]
      OBVIOUS
    <2>4. b \in Part /\ b.payment = p
      BY <2>2, <2>3
    <2>5a. PICK s \in Source : \E n \in DOMAIN Of[s] : b = Base(s, n)
      BY <2>4, PartKinds DEF IsBase
    <2>5. PICK n \in DOMAIN Of[s] : b = Base(s, n)
      BY <2>5a
    <2>6. b.mask = Mask(p) /\ Of[s][n] = p
      BY <2>4, <2>5, BaseOfPart
    <2>7. HasBase(lastSrc, p)
      <3>1. BaseBy(parts, s, n, next - 1)
        BY <2>2, <2>3, <2>5 DEF BaseBy
      <3> QED
        BY <3>1, <2>1, <2>6 DEF Marks, HasBase
    <2>8. ASSUME NEW e \in Mask(p)
          PROVE  e \in Has(lastAgg, p)
      <3>1. PICK i \in Received(p) : parts[i] # b /\ e = parts[i].entity
        BY <2>6, <2>8
      <3>2. parts[i] \in Part /\ parts[i].payment = p /\ i \in 1..(next - 1)
        BY <2>2
      <3>3. ~IsBase(parts[i])
        <4> SUFFICES ASSUME NEW t \in Source, NEW m \in DOMAIN Of[t], parts[i] = Base(t, m)
                     PROVE  FALSE
          BY DEF IsBase
        <4>1. Of[t][m] = Of[s][n]
          BY <3>2, <2>6, BaseOfPart
        <4>2. t = s /\ m = n
          BY <4>1, PaymentsAssumption
        <4> QED
          BY <4>2, <3>1, <2>5
      <3>4a. PICK a \in Agg : \E m \in DOMAIN Released[a] : parts[i] = EntityPart(a, m)
        BY <3>2, <3>3, PartKinds DEF IsEntity
      <3>4. PICK m \in DOMAIN Released[a] : parts[i] = EntityPart(a, m)
        BY <3>4a
      <3>5. Released[a][m] = <<p, e>>
        BY <3>1, <3>2, <3>4, EntityOfPart, ReleasedOwned
      <3>6. m <= lastAgg[a]
        <4>1. EntityBy(parts, a, m, next - 1)
          BY <3>2, <3>4 DEF EntityBy
        <4> QED
          BY <4>1, <2>1 DEF Marks
      <3> QED
        BY <3>5, <3>6, <2>8 DEF Has, Gave
    <2>9. Finished(lastSrc, lastAgg, p)
      BY <2>7, <2>8 DEF Finished, Has
    <2> QED
      BY <2>1, <2>9 DEF Joined
  <1> QED
    BY <1>1, JoinInvariant, PTL

(* Every step of the joiner's world is a step of the sequential engine, or *)
(* none: a payment is decided once, always with the decision of one engine *)
(* that scores the payments one after the other (join.go, decide;          *)
(* features/engine.go, ScoreAndUpdate).                                    *)
THEOREM DecidesAsOneEngine == Spec => Sequential!Safety
  <1>1. Init => Sequential!Init
    BY DEF Init, Sequential!Init, Decided
  <1>2. ASSUME JoinInv, JoinInv', [Next]_vars
        PROVE  [Sequential!Next]_Decided
    <2>1. CASE UNCHANGED decisions
      BY <2>1 DEF Decided
    <2>2. ASSUME NEW d \in Right, decisions' = Append(decisions, d)
          PROVE  [Sequential!Next]_Decided
      <3>1. PICK p \in Payments : d = Sequential!ScoreAndUpdate(p)
        BY DEF Right
      <3>2. decisions \in Seq(Right) /\ d.payment = p
        <4>1. d.payment = p
          BY <3>1 DEF Sequential!ScoreAndUpdate
        <4> QED
          BY <4>1, <1>2 DEF JoinInv, DecidedRight
      <3>3. \A i \in DOMAIN decisions : \E q \in Payments : decisions[i] = Sequential!ScoreAndUpdate(q)
        BY <3>2 DEF Right
      <3>4. \A q : Sequential!ScoreAndUpdate(q).payment = q
        BY DEF Sequential!ScoreAndUpdate
      <3>5. /\ DOMAIN decisions' = DOMAIN decisions \cup {Len(decisions) + 1}
            /\ decisions'[Len(decisions) + 1] = d
            /\ \A i \in DOMAIN decisions : decisions'[i] = decisions[i]
        BY <2>2, <3>2
      <3>6. \A q \in Payments : Decided'[q] = IF q = p THEN Decided[q] \cup {d} ELSE Decided[q]
        BY <3>2, <3>5 DEF Decided
      <3>7. Decided[p] = {} \/ Decided[p] = {d}
        BY <3>1, <3>3, <3>4 DEF Decided
      <3>8. CASE Decided[p] = {}
        <4>1. Decided' = [Decided EXCEPT ![p] = {d}]
          BY <3>6, <3>8 DEF Decided
        <4> QED
          BY <4>1, <3>1, <3>8 DEF Sequential!Next, Sequential!Decide
      <3>9. CASE Decided[p] = {d}
        <4>1. Decided' = Decided
          BY <3>6, <3>9 DEF Decided
        <4> QED
          BY <4>1
      <3> QED
        BY <3>7, <3>8, <3>9
    <2>3. \/ UNCHANGED decisions
          \/ \E d : decisions' = Append(decisions, d)
      BY <1>2 DEF Next, vars, TakeOver, SendBase, SendEntity, RestartAgg, Handle, Checkpoint, Restart
    <2>4. ASSUME NEW d, decisions' = Append(decisions, d)
          PROVE  d \in Right
      <3>1. decisions' \in Seq(Right) /\ decisions \in Seq(Right)
        BY <1>2 DEF JoinInv, DecidedRight
      <3>2. d = decisions'[Len(decisions')]
        BY <2>4, <3>1
      <3> QED
        BY <3>1, <3>2, <2>4
    <2> QED
      BY <2>1, <2>2, <2>3, <2>4
  <1> QED
    BY <1>1, <1>2, JoinInvariant, PTL DEF Spec, Sequential!Safety
=============================================================================
