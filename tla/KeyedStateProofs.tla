-------------------------- MODULE KeyedStateProofs --------------------------
(***************************************************************************)
(* The keyed velocity stores answer what the history says, for every       *)
(* windows, bucket widths, cap, keys, times, cards and amounts that the    *)
(* assumptions of KeyedState allow.                                        *)
(*                                                                         *)
(* What a store may know of a key is a function of the key's history       *)
(* alone. IInv says so: a key has an entry exactly if its history is not   *)
(* empty, and the entry stands to the history as ExactOf or BucketedOf     *)
(* says.                                                                   *)
(*                                                                         *)
(* ExactOf. The entry's events are the last ones of the history (Placed),  *)
(* each window starts where the events it holds start, its totals are the  *)
(* totals of what is inside it (Totals), and a card's table holds the      *)
(* latest event of every card of the distinct window (CardsKnown). A read  *)
(* at a later time and the commit of an add make the same walk, DropOldest *)
(* of a front of each window: Dropped, Advanced. A restart pushes every    *)
(* event again and drops to the same starts: Rebuilt, RestartOfExact.      *)
(*                                                                         *)
(* BucketedOf. Each window is a queue of non-empty buckets with increasing *)
(* indices that between them hold the events from the oldest bucket on     *)
(* (Queue, InSpan), its totals are theirs, and the cards' table says for   *)
(* every live card the bucket of an event of it (CardsOf). Expiry takes    *)
(* away the front: QueueExpires, CardsExpire. An add grows the newest      *)
(* bucket and moves the card's label: QueueGrows, CardSeen. The exact      *)
(* window lies inside the buckets' span and the span inside a window a     *)
(* bucket longer, which is the bound: Buckets, SpanWithin.                 *)
(*                                                                         *)
(* The parts: sums over finite sets; the exact entry on its own; the exact *)
(* entry and the history; division and sums by groups; the buckets of a    *)
(* window; the cards of the buckets; the bucketed entry; what a bucketed   *)
(* entry answers; its restart and its size; the stores; the theorems.      *)
(***************************************************************************)
EXTENDS KeyedState, FiniteSetTheorems, SequenceTheorems, WellFoundedInduction, TLAPS

-----------------------------------------------------------------------------
(* Sums over finite sets. SumFunctionOnSet folds over a set in an order of *)
(* its own choosing; what it computes does not depend on it.               *)

(* A non-empty set of natural numbers has a least element.                 *)
LEMMA LeastNat ==
    ASSUME NEW T, T \subseteq Nat, T # {}
    PROVE  \E x \in T : \A y \in T : x <= y
  <1> DEFINE R == OpToRel(<, Nat)
  <1>1. IsWellFoundedOn(R, Nat)
    BY NatLessThanWellFounded
  <1> HIDE DEF R
  <1>2. PICK x \in T : \A y \in T : <<y, x>> \notin R
    BY <1>1, WFMin
  <1>3. \A y \in T : ~(y < x)
    BY <1>2 DEF OpToRel, R
  <1> QED
    BY <1>3

(* The element the fold takes next.                                        *)
Some(s) == CHOOSE x \in s : TRUE
(* g sums f over each of the sets Z, closed under subsets. *)
Sums(g, f, Z) == g = [s \in Z |-> IF s = {} THEN 0 ELSE f[Some(s)] + g[s \ {Some(s)}]]

(* The fold of the community modules, unfolded to the function it chooses. *)
LEMMA SumIsChoice ==
    \A f, S : SumFunctionOnSet(f, S) = (CHOOSE g : Sums(g, f, SUBSET S))[S]
  BY DEF SumFunctionOnSet, FoldFunctionOnSet, MapThenFoldSet, Sums, Some

(* The element taken next is one of the set's.                             *)
LEMMA SomeIn == \A s : s # {} => Some(s) \in s
  BY DEF Some

(* A subset of a finite set is one larger than what is left of it without  *)
(* one element.                                                            *)
LEMMA FewerWithout ==
    ASSUME NEW S, IsFiniteSet(S), NEW s \in SUBSET S, NEW x \in s
    PROVE  Cardinality(s \ {x}) \in Nat /\ Cardinality(s) = Cardinality(s \ {x}) + 1
  <1>1. IsFiniteSet(s)
    BY FS_Subset
  <1>2. Cardinality(s) \in Nat /\ IsFiniteSet(s \ {x}) /\ Cardinality(s \ {x}) = Cardinality(s) - 1
    BY <1>1, FS_RemoveElement, FS_CardinalityType
  <1>3. Cardinality(s \ {x}) \in Nat
    BY <1>2, FS_CardinalityType
  <1> QED
    BY <1>2, <1>3

(* On the subsets of a finite set there is a function that sums: otherwise *)
(* a smallest subset has none.                                             *)
LEMMA SumsExist ==
    ASSUME NEW f, NEW S, IsFiniteSet(S)
    PROVE  \E g : Sums(g, f, SUBSET S)
  <1> DEFINE Upto(n) == {s \in SUBSET S : Cardinality(s) <= n}
             Bad == {n \in Nat : ~ \E g : Sums(g, f, Upto(n))}
  <1>0. \A s \in SUBSET S : Cardinality(s) \in Nat
    BY FS_Subset, FS_CardinalityType
  <1>1. Bad = {}
    <2> SUFFICES ASSUME Bad # {} PROVE FALSE
      OBVIOUS
    <2>1. PICK n \in Bad : \A k \in Bad : n <= k
      BY LeastNat
    <2>2. CASE n = 0
      <3> DEFINE g == [s \in Upto(0) |-> 0]
      <3>1. \A s \in Upto(0) : s = {}
        <4> TAKE s \in Upto(0)
        <4>1. IsFiniteSet(s) /\ Cardinality(s) = 0
          BY <1>0, FS_Subset
        <4> QED
          BY <4>1, FS_EmptySet
      <3>2. Sums(g, f, Upto(0))
        BY <3>1 DEF Sums
      <3> QED
        BY <2>1, <2>2, <3>2
    <2>3. CASE n # 0
      <3>1. n \in Nat /\ n - 1 \in Nat /\ n - 1 \notin Bad
        <4>1. n \in Nat
          OBVIOUS
        <4> HIDE DEF Bad
        <4> QED
          BY <4>1, <2>1, <2>3
      <3>2. PICK g : Sums(g, f, Upto(n - 1))
        BY <3>1
      <3> DEFINE h == [s \in Upto(n) |-> IF s \in Upto(n - 1) THEN g[s] ELSE f[Some(s)] + g[s \ {Some(s)}]]
      <3>3. \A s \in Upto(n) : s # {} => s \ {Some(s)} \in Upto(n - 1) /\ s \ {Some(s)} \in Upto(n)
        <4> TAKE s \in Upto(n)
        <4> HAVE s # {}
        <4>1. Some(s) \in s
          BY SomeIn
        <4>2. Cardinality(s \ {Some(s)}) \in Nat /\ Cardinality(s) = Cardinality(s \ {Some(s)}) + 1
          BY <4>1, FewerWithout
        <4> QED
          BY <4>2, <3>1, <2>1
      <3>4. \A s \in Upto(n - 1) : s # {} => s \ {Some(s)} \in Upto(n - 1)
        <4>1. Upto(n - 1) \subseteq Upto(n)
          BY <1>0, <3>1, <2>1
        <4> QED
          BY <3>3, <4>1
      <3>5. \A s \in Upto(n - 1) : g[s] = IF s = {} THEN 0 ELSE f[Some(s)] + g[s \ {Some(s)}]
        <4> HIDE DEF Upto
        <4> QED
          BY <3>2 DEF Sums
      <3>6. \A s \in Upto(n) : s \notin Upto(n - 1) => s # {}
        <4>1. {} \in SUBSET S /\ Cardinality({}) = 0
          BY FS_EmptySet
        <4>2. {} \in Upto(n - 1)
          BY <3>1, <4>1
        <4> HIDE DEF Upto
        <4> QED
          BY <4>2
      <3>7. Sums(h, f, Upto(n))
        <4> HIDE DEF Upto
        <4> SUFFICES ASSUME NEW s \in Upto(n)
              PROVE  h[s] = IF s = {} THEN 0 ELSE f[Some(s)] + h[s \ {Some(s)}]
          BY Zenon DEF Sums
        <4>1. CASE s = {}
          BY <4>1, <3>5, <3>6
        <4>2. CASE s # {}
          BY <4>2, <3>3, <3>4, <3>5
        <4> QED
          BY <4>1, <4>2
      <3> HIDE DEF h
      <3> QED
        BY <2>1, <3>7
    <2> QED
      BY <2>2, <2>3
  <1>2. Cardinality(S) \in Nat /\ Upto(Cardinality(S)) = SUBSET S
    <2>1. \A s \in SUBSET S : Cardinality(s) <= Cardinality(S)
      BY FS_Subset
    <2> QED
      BY <1>0, <2>1
  <1>3. \E g : Sums(g, f, Upto(Cardinality(S)))
    BY <1>1, <1>2
  <1> HIDE DEF Upto
  <1> QED
    BY <1>2, <1>3

(* Two such functions agree, whatever sets they are defined on.            *)
LEMMA SumsAgree ==
    ASSUME NEW f, NEW g, NEW h, NEW A, NEW B, NEW S, IsFiniteSet(S),
           S \subseteq A, S \subseteq B, Sums(g, f, SUBSET A), Sums(h, f, SUBSET B)
    PROVE  g[S] = h[S]
  <1> DEFINE Bad == {n \in Nat : \E s \in SUBSET S : Cardinality(s) = n /\ g[s] # h[s]}
  <1>1. Bad = {}
    <2> SUFFICES ASSUME Bad # {} PROVE FALSE
      OBVIOUS
    <2>1. PICK n \in Bad : \A k \in Bad : n <= k
      BY LeastNat
    <2>2. PICK s \in SUBSET S : Cardinality(s) = n /\ g[s] # h[s]
      BY <2>1
    <2>3. s \in SUBSET A /\ s \in SUBSET B
      OBVIOUS
    <2>4. s # {}
      BY <2>2, <2>3 DEF Sums
    <2>5. Some(s) \in s
      BY <2>4, SomeIn
    <2>6. Cardinality(s \ {Some(s)}) \in Nat /\ n = Cardinality(s \ {Some(s)}) + 1
      BY <2>2, <2>5, FewerWithout
    <2>7. g[s \ {Some(s)}] = h[s \ {Some(s)}]
      <3>1. Cardinality(s \ {Some(s)}) \notin Bad
        <4> HIDE DEF Bad
        <4> SUFFICES ASSUME Cardinality(s \ {Some(s)}) \in Bad PROVE FALSE
          OBVIOUS
        <4>1. n <= Cardinality(s \ {Some(s)})
          BY <2>1
        <4> QED
          BY <4>1, <2>6
      <3> QED
        BY <3>1, <2>6
    <2>8. g[s] = f[Some(s)] + g[s \ {Some(s)}] /\ h[s] = f[Some(s)] + h[s \ {Some(s)}]
      BY <2>3, <2>4 DEF Sums
    <2> QED
      BY <2>2, <2>7, <2>8
  <1>2. Cardinality(S) \in Nat
    BY FS_CardinalityType
  <1> QED
    BY <1>1, <1>2

(* So the sum over a finite set is its recursive definition.               *)
LEMMA SumUnfolds ==
    ASSUME NEW f, NEW S, IsFiniteSet(S)
    PROVE  SumFunctionOnSet(f, S) =
             IF S = {} THEN 0 ELSE f[Some(S)] + SumFunctionOnSet(f, S \ {Some(S)})
  <1> DEFINE g == CHOOSE g : Sums(g, f, SUBSET S)
             R == S \ {Some(S)}
             h == CHOOSE h : Sums(h, f, SUBSET R)
  <1>1. IsFiniteSet(R)
    BY FS_Subset
  <1>2. Sums(g, f, SUBSET S)
    BY SumsExist
  <1>3. Sums(h, f, SUBSET R)
    BY <1>1, SumsExist
  <1>4. g[R] = h[R]
    <2>1. R \subseteq S
      OBVIOUS
    <2> HIDE DEF g, h, R
    <2> QED
      BY <1>1, <1>2, <1>3, <2>1, SumsAgree
  <1>5. SumFunctionOnSet(f, S) = g[S] /\ SumFunctionOnSet(f, R) = h[R]
    BY SumIsChoice
  <1> HIDE DEF g, h
  <1>6. g[S] = IF S = {} THEN 0 ELSE f[Some(S)] + g[R]
    BY <1>2 DEF Sums
  <1> QED
    BY <1>4, <1>5, <1>6

(* The sum over nothing.                                                   *)
LEMMA SumEmpty == \A f : SumFunctionOnSet(f, {}) = 0
  BY SumUnfolds, FS_EmptySet

(* A sum can be taken from any element.                                    *)
LEMMA SumWithout ==
    ASSUME NEW S, IsFiniteSet(S), NEW f, \A x \in S : f[x] \in Int, NEW x \in S
    PROVE  /\ SumFunctionOnSet(f, S) \in Int
           /\ SumFunctionOnSet(f, S \ {x}) \in Int
           /\ SumFunctionOnSet(f, S) = f[x] + SumFunctionOnSet(f, S \ {x})
  <1> DEFINE Sm(s) == SumFunctionOnSet(f, s)
             Good(s) == Sm(s) \in Int /\ \A y \in s : Sm(s) = f[y] + Sm(s \ {y})
             Bad == {n \in Nat : \E s \in SUBSET S : Cardinality(s) = n /\ ~Good(s)}
  <1> HIDE DEF Sm
  <1>0. \A s \in SUBSET S : Sm(s) = IF s = {} THEN 0 ELSE f[Some(s)] + Sm(s \ {Some(s)})
    BY FS_Subset, SumUnfolds DEF Sm
  <1>1. Bad = {}
    <2> SUFFICES ASSUME Bad # {} PROVE FALSE
      OBVIOUS
    <2>1. PICK n \in Bad : \A k \in Bad : n <= k
      BY LeastNat
    <2>2. PICK s \in SUBSET S : Cardinality(s) = n /\ ~Good(s)
      BY <2>1
    <2>3. s # {} /\ Some(s) \in s
      <3>1. s # {}
        BY <1>0, <2>2
      <3> QED
        BY <3>1, SomeIn
    <2>4. \A y \in s : Good(s \ {y})
      <3> TAKE y \in s
      <3> SUFFICES ASSUME ~Good(s \ {y}) PROVE FALSE
        OBVIOUS
      <3>1. Cardinality(s \ {y}) \in Nat /\ n = Cardinality(s \ {y}) + 1
        BY <2>2, FewerWithout
      <3>2. Cardinality(s \ {y}) \in Bad
        BY <3>1
      <3> HIDE DEF Bad
      <3>3. n <= Cardinality(s \ {y})
        BY <3>2, <2>1
      <3> QED
        BY <3>1, <3>3
    <2>5. Sm(s) = f[Some(s)] + Sm(s \ {Some(s)})
      BY <1>0, <2>3
    <2>6. f[Some(s)] \in Int /\ Sm(s \ {Some(s)}) \in Int
      BY <2>3, <2>4
    <2>7. ASSUME NEW y \in s, y # Some(s)
          PROVE  Sm(s) = f[y] + Sm(s \ {y})
      <3> DEFINE z == Some(s)
      <3>1. Sm(s \ {z}) = f[y] + Sm((s \ {z}) \ {y})
        BY <2>3, <2>4, <2>7
      <3>2. Sm(s \ {y}) = f[z] + Sm((s \ {y}) \ {z})
        BY <2>3, <2>4, <2>7
      <3>3. (s \ {z}) \ {y} = (s \ {y}) \ {z}
        OBVIOUS
      <3>4. Good((s \ {y}) \ {z}) \/ Sm((s \ {y}) \ {z}) \in Int
        <4>1. Sm(s \ {z}) \in Int /\ f[y] \in Int /\ f[z] \in Int
          BY <2>3, <2>4
        <4>2. CASE (s \ {y}) \ {z} = {}
          BY <1>0, <4>2
        <4>3. CASE (s \ {y}) \ {z} # {}
          <5> DEFINE r == (s \ {y}) \ {z}
          <5> SUFFICES ASSUME ~Good(r) PROVE FALSE
            OBVIOUS
          <5>0. r \in SUBSET S /\ s \ {y} \in SUBSET S /\ z \in s \ {y}
            BY <2>3, <2>7
          <5>1. Cardinality(r) \in Nat /\ Cardinality(s \ {y}) = Cardinality(r) + 1
            BY <5>0, FewerWithout
          <5>2. n = Cardinality(s \ {y}) + 1
            BY <2>2, FewerWithout
          <5>3. Cardinality(r) \in Bad
            BY <5>0, <5>1
          <5> HIDE DEF Bad, r
          <5>4. n <= Cardinality(r)
            BY <5>3, <2>1
          <5> QED
            BY <5>1, <5>2, <5>4
        <4> QED
          BY <4>2, <4>3
      <3>5. f[y] \in Int /\ f[z] \in Int /\ Sm((s \ {y}) \ {z}) \in Int
        BY <2>3, <3>4
      <3> HIDE DEF z, Good
      <3>6. Sm(s) = f[z] + Sm(s \ {z})
        BY <2>5 DEF z
      <3> QED
        BY <3>1, <3>2, <3>3, <3>5, <3>6
    <2>8. Sm(s) \in Int
      BY <2>5, <2>6
    <2>9. \A y \in s : Sm(s) = f[y] + Sm(s \ {y})
      BY <2>5, <2>7
    <2> QED
      BY <2>2, <2>8, <2>9
  <1>2. Cardinality(S) \in Nat
    BY FS_CardinalityType
  <1>3. Good(S)
    BY <1>1, <1>2
  <1>4. S \ {x} \in SUBSET S /\ Cardinality(S \ {x}) \in Nat
    BY FewerWithout
  <1>5. Good(S \ {x})
    BY <1>1, <1>4
  <1> QED
    BY <1>3, <1>5 DEF Sm

(* Sums over sets that correspond are equal.                               *)
LEMMA SumReindexed ==
    ASSUME NEW S, IsFiniteSet(S), NEW f, NEW g, NEW b,
           \A x \in S : f[x] \in Int /\ g[b[x]] = f[x],
           \A x, y \in S : b[x] = b[y] => x = y
    PROVE  SumFunctionOnSet(g, {b[x] : x \in S}) = SumFunctionOnSet(f, S)
  <1> DEFINE B(s) == {b[x] : x \in s}
             Good(s) == SumFunctionOnSet(g, B(s)) = SumFunctionOnSet(f, s)
             Bad == {n \in Nat : \E s \in SUBSET S : Cardinality(s) = n /\ ~Good(s)}
  <1>0. \A s \in SUBSET S : IsFiniteSet(s) /\ IsFiniteSet(B(s))
    <2> TAKE s \in SUBSET S
    <2>1. IsFiniteSet(s)
      BY FS_Subset
    <2>2. [x \in s |-> b[x]] \in Surjection(s, B(s))
      BY DEF Surjection
    <2> HIDE DEF B
    <2> QED
      BY <2>1, <2>2, FS_Surjection
  <1>1. Bad = {}
    <2> SUFFICES ASSUME Bad # {} PROVE FALSE
      OBVIOUS
    <2>1. PICK n \in Bad : \A k \in Bad : n <= k
      BY LeastNat
    <2>2. PICK s \in SUBSET S : Cardinality(s) = n /\ ~Good(s)
      BY <2>1
    <2>3. s # {}
      <3> SUFFICES ASSUME s = {} PROVE Good(s)
        BY <2>2
      <3>1. B(s) = {}
        OBVIOUS
      <3> QED
        BY <3>1, SumEmpty
    <2>4. PICK y \in s : TRUE
      BY <2>3
    <2>5. Good(s \ {y})
      <3> SUFFICES ASSUME ~Good(s \ {y}) PROVE FALSE
        OBVIOUS
      <3>1. Cardinality(s \ {y}) \in Nat /\ n = Cardinality(s \ {y}) + 1
        BY <2>2, FewerWithout
      <3>2. Cardinality(s \ {y}) \in Bad
        BY <3>1
      <3> HIDE DEF Bad
      <3>3. n <= Cardinality(s \ {y})
        BY <3>2, <2>1
      <3> QED
        BY <3>1, <3>3
    <2>6. B(s \ {y}) = B(s) \ {b[y]} /\ b[y] \in B(s)
      OBVIOUS
    <2>7. SumFunctionOnSet(f, s) = f[y] + SumFunctionOnSet(f, s \ {y})
      <3>1. \A x \in s : f[x] \in Int
        OBVIOUS
      <3> QED
        BY <1>0, <3>1, SumWithout
    <2>8. SumFunctionOnSet(g, B(s)) = g[b[y]] + SumFunctionOnSet(g, B(s) \ {b[y]})
      <3>1. \A z \in B(s) : g[z] \in Int
        OBVIOUS
      <3>2. b[y] \in B(s) /\ IsFiniteSet(B(s))
        BY <1>0
      <3> HIDE DEF B
      <3> QED
        BY <3>1, <3>2, SumWithout
    <2>9. g[b[y]] = f[y]
      OBVIOUS
    <2> HIDE DEF B
    <2> QED
      BY <2>2, <2>5, <2>6, <2>7, <2>8, <2>9
  <1>2. Cardinality(S) \in Nat
    BY FS_CardinalityType
  <1> QED
    BY <1>1, <1>2

(* Functions that agree on a set have the same sum over it.                *)
LEMMA SumSame ==
    ASSUME NEW S, IsFiniteSet(S), NEW f, NEW g,
           \A x \in S : f[x] \in Int /\ g[x] = f[x]
    PROVE  SumFunctionOnSet(g, S) = SumFunctionOnSet(f, S)
  <1> DEFINE b == [x \in S |-> x]
  <1>1. {b[x] : x \in S} = S
    OBVIOUS
  <1>2. \A x \in S : f[x] \in Int /\ g[b[x]] = f[x]
    OBVIOUS
  <1>3. \A x, y \in S : b[x] = b[y] => x = y
    OBVIOUS
  <1> HIDE DEF b
  <1>4. SumFunctionOnSet(g, {b[x] : x \in S}) = SumFunctionOnSet(f, S)
    BY <1>2, <1>3, SumReindexed
  <1> QED
    BY <1>1, <1>4

(* The sum over two disjoint sets.                                         *)
LEMMA SumOfParts ==
    ASSUME NEW S, IsFiniteSet(S), NEW T, IsFiniteSet(T), S \cap T = {},
           NEW f, \A x \in S \cup T : f[x] \in Int
    PROVE  /\ SumFunctionOnSet(f, S) \in Int
           /\ SumFunctionOnSet(f, T) \in Int
           /\ SumFunctionOnSet(f, S \cup T) = SumFunctionOnSet(f, S) + SumFunctionOnSet(f, T)
  <1> DEFINE Sm(s) == SumFunctionOnSet(f, s)
             Good(t) == Sm(t) \in Int /\ Sm(S \cup t) = Sm(S) + Sm(t)
             Bad == {n \in Nat : \E t \in SUBSET T : Cardinality(t) = n /\ ~Good(t)}
  <1> HIDE DEF Sm
  <1>0. Sm(S) \in Int /\ Sm({}) = 0
    <2>1. Sm({}) = 0
      BY SumEmpty DEF Sm
    <2>2. CASE S = {}
      BY <2>1, <2>2
    <2>3. CASE S # {}
      <3>1. PICK x \in S : TRUE
        BY <2>3
      <3>2. \A y \in S : f[y] \in Int
        OBVIOUS
      <3> QED
        BY <2>1, <3>2, <3>1, SumWithout DEF Sm
    <2> QED
      BY <2>1, <2>2, <2>3
  <1>1. Bad = {}
    <2> SUFFICES ASSUME Bad # {} PROVE FALSE
      OBVIOUS
    <2>1. PICK n \in Bad : \A k \in Bad : n <= k
      BY LeastNat
    <2>2. PICK t \in SUBSET T : Cardinality(t) = n /\ ~Good(t)
      BY <2>1
    <2>3. t # {}
      <3> SUFFICES ASSUME t = {} PROVE Good(t)
        BY <2>2
      <3>1. S \cup t = S
        OBVIOUS
      <3> QED
        BY <3>1, <1>0
    <2>4. PICK y \in t : TRUE
      BY <2>3
    <2>5. Good(t \ {y})
      <3> SUFFICES ASSUME ~Good(t \ {y}) PROVE FALSE
        OBVIOUS
      <3>1. Cardinality(t \ {y}) \in Nat /\ n = Cardinality(t \ {y}) + 1
        BY <2>2, FewerWithout
      <3>2. Cardinality(t \ {y}) \in Bad
        BY <3>1
      <3> HIDE DEF Bad
      <3>3. n <= Cardinality(t \ {y})
        BY <3>2, <2>1
      <3> QED
        BY <3>1, <3>3
    <2>6. Sm(t) = f[y] + Sm(t \ {y}) /\ Sm(t) \in Int
      <3>1. IsFiniteSet(t) /\ \A x \in t : f[x] \in Int
        BY FS_Subset
      <3> QED
        BY <3>1, SumWithout DEF Sm
    <2>7. Sm(S \cup t) = f[y] + Sm((S \cup t) \ {y})
      <3>1. IsFiniteSet(S \cup t) /\ \A x \in S \cup t : f[x] \in Int
        BY FS_Subset, FS_Union
      <3>2. y \in S \cup t
        OBVIOUS
      <3> QED
        BY <3>1, <3>2, SumWithout DEF Sm
    <2>8. (S \cup t) \ {y} = S \cup (t \ {y}) /\ f[y] \in Int
      OBVIOUS
    <2>9. Sm(t \ {y}) \in Int /\ Sm(S \cup (t \ {y})) = Sm(S) + Sm(t \ {y})
      BY <2>5
    <2>10. Sm(S \cup t) = f[y] + (Sm(S) + Sm(t \ {y}))
      BY <2>7, <2>8, <2>9
    <2>11. Sm(S \cup t) = Sm(S) + Sm(t)
      BY <1>0, <2>6, <2>8, <2>9, <2>10
    <2>12. Good(t)
      BY <2>6, <2>11
    <2> QED
      BY <2>2, <2>12
  <1>2. Cardinality(T) \in Nat
    BY FS_CardinalityType
  <1> QED
    BY <1>0, <1>1, <1>2 DEF Sm

-----------------------------------------------------------------------------
(* The exact entry on its own: its totals are those of the events inside   *)
(* each window, its cards the latest of the distinct window.               *)

(* Tables of the latest event of some cards.                               *)
Tables == UNION {[S -> Nat] : S \in SUBSET Cards}
(* The entries that occur.                                                 *)
ExactEntry ==
    [ev : Seq(Event), base : Nat, start : [W -> Nat], count : [W -> Int], milli : [W -> Int],
     tracks : BOOLEAN, cards : Tables, distinct : Int, first : Int, last : Int, started : BOOLEAN]
(* The numbers of the events of window w.                                  *)
Inside(e, w) == e.start[w] .. End(e) - 1
(* The running totals are the totals of the windows.                       *)
Totals(e) ==
    \A w \in W : /\ e.base <= e.start[w] /\ e.start[w] <= End(e)
                 /\ e.count[w] = End(e) - e.start[w]
                 /\ e.milli[w] = MilliOf(e, Inside(e, w))
(* The table has the latest event of card c among the events S.            *)
LatestIn(e, c, S) == /\ e.cards[c] \in S /\ EvAt(e, e.cards[c]).card = c
                     /\ \A s \in S : EvAt(e, s).card = c => s <= e.cards[c]
(* The table knows exactly the cards of the distinct window, and counts    *)
(* them.                                                                   *)
CardsKnown(e) ==
    e.tracks =>
      /\ DOMAIN e.cards = {EvAt(e, s).card : s \in Inside(e, DistinctWindow)} \ {NoCard}
      /\ \A c \in DOMAIN e.cards : LatestIn(e, c, Inside(e, DistinctWindow))
      /\ e.distinct = Cardinality(DOMAIN e.cards)

(* The assumptions, in the form the proofs use.                            *)
LEMMA Config ==
    /\ W = 1 .. Len(Windows) /\ Len(Windows) \in Nat \ {0} /\ DistinctWindow \in W
    /\ Len(Windows) \in W
    /\ \A w \in W : Windows[w] \in Nat \ {0} /\ Windows[w] <= TTL
                    /\ Plan[w] \in Nat \ {0} /\ Windows[w] % Plan[w] = 0
    /\ \A v, w \in W : v < w => Windows[v] < Windows[w]
    /\ TTL \in Nat /\ DistinctCap \in Nat \ {0} /\ CardSlack \in Nat
  <1>1. Windows \in Seq(Nat \ {0}) /\ Windows # <<>>
    BY ConfigAssumption
  <1>2. Len(Windows) \in Nat \ {0} /\ DOMAIN Windows = 1 .. Len(Windows)
    BY <1>1, EmptySeq, LenProperties
  <1>3. \A w \in 1 .. Len(Windows) : Windows[w] \in Nat \ {0}
    BY <1>1, ElementOfSeq
  <1> QED
    BY <1>2, <1>3, ConfigAssumption DEF W

(* The fields of an event.                                                 *)
LEMMA EventTypes ==
    \A x \in Event : /\ x.t \in Moments /\ x.t \in Int /\ x.card \in Cards
                     /\ x.milli \in Int
  <1> TAKE x \in Event
  <1>1. x.t \in Moments /\ x.milli \in Int /\ x.card \in Cards
    BY DEF Event
  <1>2. Moments \subseteq Int
    BY PaymentsAssumption
  <1> DEFINE t == x.t
  <1>3. t \in Moments
    BY <1>1
  <1> HIDE DEF t
  <1>4. t \in Int
    BY <1>2, <1>3
  <1> QED BY <1>1, <1>4 DEF t

(* An event of an entry is an event.                                       *)
LEMMA EvAtType ==
    ASSUME NEW e, e.ev \in Seq(Event), e.base \in Int, NEW s \in e.base .. End(e) - 1
    PROVE  /\ EvAt(e, s) \in Event /\ EvAt(e, s).milli \in Int
           /\ EvAt(e, s).t \in Moments /\ EvAt(e, s).t \in Int /\ EvAt(e, s).card \in Cards
  <1>0. Len(e.ev) \in Nat /\ End(e) = e.base + Len(e.ev)
    BY LenProperties DEF End
  <1>1. s - e.base + 1 \in 1 .. Len(e.ev)
    BY <1>0
  <1>2. EvAt(e, s) \in Event
    BY <1>1, ElementOfSeq DEF EvAt
  <1> QED BY <1>2, EventTypes

(* Amounts of two disjoint sets of events.                                 *)
LEMMA MilliOfParts ==
    ASSUME NEW e, NEW S, IsFiniteSet(S), NEW T, IsFiniteSet(T), S \cap T = {},
           \A s \in S \cup T : EvAt(e, s).milli \in Int
    PROVE  /\ MilliOf(e, S) \in Int /\ MilliOf(e, T) \in Int
           /\ MilliOf(e, S \cup T) = MilliOf(e, S) + MilliOf(e, T)
  <1> DEFINE f == [s \in S \cup T |-> EvAt(e, s).milli]
             g == [s \in S |-> EvAt(e, s).milli]
             h == [s \in T |-> EvAt(e, s).milli]
  <1>1. MilliOf(e, S) = SumFunctionOnSet(g, S)
    BY DEF MilliOf, SumFunction
  <1>2. MilliOf(e, T) = SumFunctionOnSet(h, T)
    BY DEF MilliOf, SumFunction
  <1>3. MilliOf(e, S \cup T) = SumFunctionOnSet(f, S \cup T)
    BY DEF MilliOf, SumFunction
  <1>4. /\ SumFunctionOnSet(f, S) \in Int
        /\ SumFunctionOnSet(f, T) \in Int
        /\ SumFunctionOnSet(f, S \cup T) = SumFunctionOnSet(f, S) + SumFunctionOnSet(f, T)
    <2>1. \A x \in S \cup T : f[x] \in Int
      OBVIOUS
    <2> HIDE DEF f
    <2> QED BY <2>1, SumOfParts
  <1>5. /\ \A x \in S : g[x] \in Int /\ f[x] = g[x]
        /\ \A x \in T : h[x] \in Int /\ f[x] = h[x]
    OBVIOUS
  <1> HIDE DEF f, g, h
  <1>6. SumFunctionOnSet(f, S) = SumFunctionOnSet(g, S)
    BY <1>5, SumSame
  <1>7. SumFunctionOnSet(f, T) = SumFunctionOnSet(h, T)
    BY <1>5, SumSame
  <1> QED
    BY <1>1, <1>2, <1>3, <1>4, <1>6, <1>7

(* No events, no amount.                                                   *)
LEMMA MilliOfNone == \A e : MilliOf(e, {}) = 0
  BY SumEmpty DEF MilliOf, SumFunction

(* The amount of one event.                                                *)
LEMMA MilliOfOne ==
    ASSUME NEW e, NEW s, EvAt(e, s).milli \in Int
    PROVE  MilliOf(e, {s}) = EvAt(e, s).milli
  <1> DEFINE f == [x \in {s} |-> EvAt(e, x).milli]
  <1>1. MilliOf(e, {s}) = SumFunctionOnSet(f, {s})
    BY DEF MilliOf, SumFunction
  <1>2. f[s] = EvAt(e, s).milli /\ \A x \in {s} : f[x] \in Int
    OBVIOUS
  <1> HIDE DEF f
  <1>3. IsFiniteSet({s}) /\ {s} \ {s} = {}
    BY FS_Singleton
  <1>4. SumFunctionOnSet(f, {s}) = f[s] + SumFunctionOnSet(f, {s} \ {s})
    BY <1>2, <1>3, SumWithout
  <1>5. SumFunctionOnSet(f, {s}) = f[s] + 0
    BY <1>3, <1>4, SumEmpty
  <1> QED BY <1>1, <1>2, <1>5

(* The same events under the same numbers have the same amounts.           *)
LEMMA MilliOfSame ==
    ASSUME NEW e, NEW f, NEW S, IsFiniteSet(S),
           \A s \in S : EvAt(e, s) = EvAt(f, s) /\ EvAt(e, s).milli \in Int
    PROVE  MilliOf(f, S) = MilliOf(e, S)
  <1>1. [s \in S |-> EvAt(e, s).milli] = [s \in S |-> EvAt(f, s).milli]
    OBVIOUS
  <1> QED BY <1>1 DEF MilliOf

(* An amount is a number.                                                  *)
LEMMA MilliOfType ==
    ASSUME NEW e, NEW S, IsFiniteSet(S), \A s \in S : EvAt(e, s).milli \in Int
    PROVE  MilliOf(e, S) \in Int
  BY MilliOfParts, FS_EmptySet

(* The events of a window are finitely many, and the ends of a window are  *)
(* natural numbers.                                                        *)
LEMMA InsideFinite ==
    ASSUME NEW e \in ExactEntry, NEW w \in W
    PROVE  /\ End(e) \in Nat /\ Len(e.ev) \in Nat /\ e.base \in Nat /\ e.start[w] \in Nat
           /\ End(e) = e.base + Len(e.ev) /\ IsFiniteSet(Inside(e, w))
  <1>1. e.ev \in Seq(Event) /\ e.base \in Nat /\ e.start[w] \in Nat
    BY DEF ExactEntry
  <1>2. Len(e.ev) \in Nat
    BY <1>1, LenProperties
  <1>3. End(e) = e.base + Len(e.ev) /\ End(e) \in Nat /\ End(e) - 1 \in Int
    BY <1>1, <1>2 DEF End
  <1>4. IsFiniteSet(Inside(e, w))
    <2> DEFINE a == e.start[w] b == End(e) - 1
    <2>1. a \in Int /\ b \in Int /\ Inside(e, w) = a .. b
      BY <1>1, <1>3 DEF Inside
    <2> HIDE DEF a, b
    <2> QED BY <2>1, FS_Interval
  <1> QED BY <1>1, <1>2, <1>3, <1>4

(* The events of a window are events.                                      *)
LEMMA InsideEvents ==
    ASSUME NEW e \in ExactEntry, NEW w \in W, e.base <= e.start[w]
    PROVE  \A s \in Inside(e, w) :
             /\ EvAt(e, s) \in Event /\ EvAt(e, s).milli \in Int /\ s \in Nat
             /\ EvAt(e, s).t \in Int /\ EvAt(e, s).card \in Cards
  <1> TAKE s \in Inside(e, w)
  <1>1. e.ev \in Seq(Event) /\ e.base \in Int
    BY DEF ExactEntry
  <1>2. s \in e.base .. End(e) - 1 /\ s \in Nat
    <2>1. e.base \in Nat /\ e.start[w] \in Nat /\ End(e) \in Nat
      BY InsideFinite
    <2> QED BY <2>1 DEF Inside
  <1> QED BY <1>1, <1>2, EvAtType

(* An interval without its first n elements.                               *)
LEMMA Shortened ==
    ASSUME NEW a \in Int, NEW b \in Int, NEW n \in Nat, a + n <= b
    PROVE  /\ a + n .. b - 1 = (a .. b - 1) \ (a .. a + n - 1)
           /\ a .. a + n - 1 \subseteq a .. b - 1
  OBVIOUS

(* The fields of an entry whose oldest events are dropped.                 *)
FrontOf(e, n) == [w \in W |-> e.start[w] .. e.start[w] + n[w] - 1]
(* The cards whose latest event is among those of the distinct window.     *)
Forgotten(e, n) == {EvAt(e, s).card : s \in LatestOfCard(e, FrontOf(e, n)[DistinctWindow])}

(* dropOldest, field by field.                                             *)
LEMMA DropFields ==
    ASSUME NEW e \in ExactEntry, NEW n \in [W -> Nat],
           \A w \in W : e.start[w] + n[w] <= End(e)
    PROVE  LET d == DropOldest(e, FrontOf(e, n))
           IN  /\ d.ev = e.ev /\ d.base = e.base /\ d.tracks = e.tracks
               /\ d.first = e.first /\ d.last = e.last /\ d.started = e.started
               /\ d.start = [w \in W |-> e.start[w] + n[w]]
               /\ d.count = [w \in W |-> e.count[w] - n[w]]
               /\ d.milli = [w \in W |-> e.milli[w] - MilliOf(e, FrontOf(e, n)[w])]
               /\ d.cards = Restrict(e.cards, DOMAIN e.cards \ Forgotten(e, n))
               /\ d.distinct = e.distinct - Cardinality(Forgotten(e, n))
               /\ DOMAIN d = DOMAIN e
               /\ d = [ev |-> d.ev, base |-> d.base, start |-> d.start, count |-> d.count,
                       milli |-> d.milli, tracks |-> d.tracks, cards |-> d.cards,
                       distinct |-> d.distinct, first |-> d.first, last |-> d.last,
                       started |-> d.started]
  <1> DEFINE gone == FrontOf(e, n)
             d == DropOldest(e, gone)
  <1>1. \A w \in W : e.start[w] \in Nat /\ n[w] \in Nat /\ gone[w] = e.start[w] .. e.start[w] + n[w] - 1
    BY DEF ExactEntry, FrontOf
  <1>2. \A w \in W : Cardinality(gone[w]) = n[w]
    <2> TAKE w \in W
    <2> DEFINE a == e.start[w] b == e.start[w] + n[w] - 1
    <2>1. a \in Int /\ b \in Int /\ gone[w] = a .. b /\ n[w] = IF a > b THEN 0 ELSE b - a + 1
      BY <1>1
    <2> HIDE DEF a, b, gone
    <2> QED BY <2>1, FS_Interval
  <1>3. d = [e EXCEPT !.count    = [w \in W |-> e.count[w] - Cardinality(gone[w])],
                      !.milli    = [w \in W |-> e.milli[w] - MilliOf(e, gone[w])],
                      !.start    = [w \in W |-> e.start[w] + Cardinality(gone[w])],
                      !.cards    = Restrict(e.cards, DOMAIN e.cards \ Forgotten(e, n)),
                      !.distinct = e.distinct - Cardinality(Forgotten(e, n))]
    BY DEF DropOldest, Forgotten, ExactEntry
  <1>4. e = [ev |-> e.ev, base |-> e.base, start |-> e.start, count |-> e.count,
             milli |-> e.milli, tracks |-> e.tracks, cards |-> e.cards,
             distinct |-> e.distinct, first |-> e.first, last |-> e.last,
             started |-> e.started]
    BY DEF ExactEntry
  <1>5. /\ [w \in W |-> e.count[w] - Cardinality(gone[w])] = [w \in W |-> e.count[w] - n[w]]
        /\ [w \in W |-> e.start[w] + Cardinality(gone[w])] = [w \in W |-> e.start[w] + n[w]]
    BY <1>2
  <1>6. d = [ev |-> e.ev, base |-> e.base, start |-> [w \in W |-> e.start[w] + n[w]],
             count |-> [w \in W |-> e.count[w] - n[w]],
             milli |-> [w \in W |-> e.milli[w] - MilliOf(e, gone[w])], tracks |-> e.tracks,
             cards |-> Restrict(e.cards, DOMAIN e.cards \ Forgotten(e, n)),
             distinct |-> e.distinct - Cardinality(Forgotten(e, n)), first |-> e.first,
             last |-> e.last, started |-> e.started]
    <2> HIDE DEF gone, d
    <2> QED BY <1>3, <1>4, <1>5
  <1> HIDE DEF d
  <1>7. DOMAIN d = DOMAIN e
    BY <1>4, <1>6
  <1> QED BY <1>6, <1>7 DEF d

(* What stays of the totals of an entry when the oldest events leave.      *)
LEMMA DropTotals ==
    ASSUME NEW e \in ExactEntry, NEW n \in [W -> Nat], Totals(e),
           \A w \in W : e.start[w] + n[w] <= End(e)
    PROVE  LET d == DropOldest(e, FrontOf(e, n))
           IN  /\ Totals(d) /\ End(d) = End(e)
               /\ d.start \in [W -> Nat] /\ d.count \in [W -> Int] /\ d.milli \in [W -> Int]
               /\ \A s : EvAt(d, s) = EvAt(e, s)
               /\ \A w \in W : Inside(d, w) = Inside(e, w) \ FrontOf(e, n)[w]
               /\ \A w \in W : FrontOf(e, n)[w] \subseteq Inside(e, w)
  <1> DEFINE gone == FrontOf(e, n)
             d == DropOldest(e, gone)
  <1>1. /\ d.ev = e.ev /\ d.base = e.base
        /\ d.start = [w \in W |-> e.start[w] + n[w]]
        /\ d.count = [w \in W |-> e.count[w] - n[w]]
        /\ d.milli = [w \in W |-> e.milli[w] - MilliOf(e, gone[w])]
    BY DropFields
  <1>2. \A w \in W : gone[w] = e.start[w] .. e.start[w] + n[w] - 1
    BY DEF FrontOf
  <1> HIDE DEF gone, d
  <1>3. End(d) = End(e) /\ \A s : EvAt(d, s) = EvAt(e, s)
    BY <1>1 DEF End, EvAt
  <1>4. ASSUME NEW w \in W
        PROVE  /\ d.base <= d.start[w] /\ d.start[w] <= End(d)
               /\ d.count[w] = End(d) - d.start[w]
               /\ d.milli[w] = MilliOf(d, Inside(d, w))
               /\ d.start[w] \in Nat /\ d.count[w] \in Int /\ d.milli[w] \in Int
               /\ Inside(d, w) = Inside(e, w) \ gone[w]
               /\ gone[w] \subseteq Inside(e, w)
    <2>1. /\ e.start[w] \in Nat /\ n[w] \in Nat /\ e.base \in Nat /\ End(e) \in Nat
          /\ e.count[w] = End(e) - e.start[w] /\ e.base <= e.start[w] /\ e.start[w] <= End(e)
          /\ e.milli[w] = MilliOf(e, Inside(e, w)) /\ e.count[w] \in Int
          /\ IsFiniteSet(Inside(e, w)) /\ e.start[w] + n[w] <= End(e)
      BY InsideFinite DEF Totals, ExactEntry
    <2>2. /\ d.start[w] = e.start[w] + n[w] /\ d.count[w] = e.count[w] - n[w]
          /\ d.milli[w] = e.milli[w] - MilliOf(e, gone[w])
      BY <1>1
    <2>3. Inside(d, w) = Inside(e, w) \ gone[w] /\ gone[w] \subseteq Inside(e, w)
      <3>1. Inside(d, w) = e.start[w] + n[w] .. End(e) - 1
        BY <1>3, <2>2 DEF Inside
      <3>2. gone[w] = e.start[w] .. e.start[w] + n[w] - 1
        BY <1>2
      <3>3. Inside(e, w) = e.start[w] .. End(e) - 1
        BY DEF Inside
      <3> QED BY <2>1, <3>1, <3>2, <3>3, Shortened
    <2>4. \A s \in Inside(e, w) : EvAt(e, s).milli \in Int
      BY <2>1, InsideEvents
    <2>5. /\ MilliOf(e, gone[w]) \in Int /\ MilliOf(e, Inside(d, w)) \in Int
          /\ MilliOf(e, Inside(e, w)) = MilliOf(e, gone[w]) + MilliOf(e, Inside(d, w))
      <3> DEFINE S == gone[w] T == Inside(d, w)
      <3>1. S \cap T = {} /\ S \cup T = Inside(e, w) /\ \A s \in S \cup T : EvAt(e, s).milli \in Int
        BY <2>3, <2>4
      <3>2. IsFiniteSet(S) /\ IsFiniteSet(T)
        BY <2>1, <2>3, FS_Subset
      <3> HIDE DEF S, T
      <3>3. /\ MilliOf(e, S) \in Int /\ MilliOf(e, T) \in Int
            /\ MilliOf(e, S \cup T) = MilliOf(e, S) + MilliOf(e, T)
        BY <3>1, <3>2, MilliOfParts
      <3>4. MilliOf(e, Inside(e, w)) = MilliOf(e, S) + MilliOf(e, T)
        BY <3>1, <3>3
      <3> QED BY <3>3, <3>4 DEF S, T
    <2>6. MilliOf(d, Inside(d, w)) = MilliOf(e, Inside(d, w))
      BY <1>3 DEF MilliOf
    <2>7. d.milli[w] = MilliOf(d, Inside(d, w)) /\ d.milli[w] \in Int
      BY <2>1, <2>2, <2>5, <2>6
    <2> QED BY <2>1, <2>2, <2>3, <2>7, <1>1, <1>3
  <1>5. Totals(d)
    BY <1>4 DEF Totals
  <1>6. d.start \in [W -> Nat] /\ d.count \in [W -> Int] /\ d.milli \in [W -> Int]
    BY <1>1, <1>4
  <1> QED BY <1>3, <1>4, <1>5, <1>6 DEF d, gone

(* The image of a finite set is finite, no larger, and as large if the     *)
(* function is one-to-one.                                                 *)
LEMMA ImageFinite ==
    ASSUME NEW S, IsFiniteSet(S), NEW f
    PROVE  /\ IsFiniteSet({f[x] : x \in S})
           /\ Cardinality({f[x] : x \in S}) <= Cardinality(S)
           /\ (\A x, y \in S : f[x] = f[y] => x = y) => Cardinality({f[x] : x \in S}) = Cardinality(S)
  <1> DEFINE T == {f[x] : x \in S}
             g == [x \in S |-> f[x]]
  <1>1. g \in Surjection(S, T)
    BY DEF Surjection
  <1>2. (\A x, y \in S : f[x] = f[y] => x = y) => g \in Injection(S, T)
    BY DEF Injection, IsInjective
  <1> HIDE DEF g
  <1> QED BY <1>1, <1>2, FS_Surjection

(* The cards of finitely many events.                                      *)
LEMMA CardsFinite ==
    ASSUME NEW e, NEW S, IsFiniteSet(S)
    PROVE  /\ IsFiniteSet({EvAt(e, s).card : s \in S})
           /\ Cardinality({EvAt(e, s).card : s \in S}) <= Cardinality(S)
           /\ (\A r, s \in S : EvAt(e, r).card = EvAt(e, s).card => r = s)
                => Cardinality({EvAt(e, s).card : s \in S}) = Cardinality(S)
  <1> DEFINE f == [s \in S |-> EvAt(e, s).card]
  <1>1. {EvAt(e, s).card : s \in S} = {f[s] : s \in S}
    OBVIOUS
  <1>2. \A s \in S : f[s] = EvAt(e, s).card
    OBVIOUS
  <1> HIDE DEF f
  <1> QED BY <1>1, <1>2, ImageFinite

(* When the oldest events leave, the cards that leave are those whose      *)
(* latest event does, so the table and its count stay right: dropOldest    *)
(* removes a card only at its latest event.                                *)
LEMMA DropCards ==
    ASSUME NEW e \in ExactEntry, NEW n \in [W -> Nat], Totals(e), CardsKnown(e),
           \A w \in W : e.start[w] + n[w] <= End(e)
    PROVE  LET d == DropOldest(e, FrontOf(e, n))
           IN  /\ CardsKnown(d) /\ d.cards \in Tables /\ d.distinct \in Int
               /\ d.distinct = e.distinct - Cardinality(LatestOfCard(e, FrontOf(e, n)[DistinctWindow]))
  <1> DEFINE gone == FrontOf(e, n)
             d == DropOldest(e, gone)
             S == Inside(e, DistinctWindow)
             G == gone[DistinctWindow]
             R == Inside(d, DistinctWindow)
             late == LatestOfCard(e, G)
             F == Forgotten(e, n)
  <1>1. /\ d.tracks = e.tracks /\ d.cards = Restrict(e.cards, DOMAIN e.cards \ F)
        /\ d.distinct = e.distinct - Cardinality(F)
    BY DropFields
  <1>2. /\ \A s : EvAt(d, s) = EvAt(e, s)
        /\ R = S \ G /\ G \subseteq S
    BY DropTotals, Config
  <1>3. IsFiniteSet(S) /\ e.distinct \in Int /\ e.cards \in Tables /\ S \subseteq Nat
    <2>1. IsFiniteSet(S) /\ e.start[DistinctWindow] \in Nat /\ End(e) \in Nat
      BY InsideFinite, Config
    <2> QED BY <2>1 DEF ExactEntry, Inside
  <1>4. \A r \in G, s \in R : r < s
    <2>1. e.start[DistinctWindow] \in Nat /\ End(e) \in Nat /\ n[DistinctWindow] \in Nat
      BY InsideFinite, Config
    <2>2. G = e.start[DistinctWindow] .. e.start[DistinctWindow] + n[DistinctWindow] - 1
      BY Config DEF FrontOf
    <2>3. S = e.start[DistinctWindow] .. End(e) - 1
      BY DEF Inside
    <2> QED BY <2>1, <2>2, <2>3, <1>2
  <1>5. F = {EvAt(e, s).card : s \in late}
    BY DEF Forgotten
  <1>6. late = {s \in G : /\ e.tracks /\ EvAt(e, s).card # NoCard
                          /\ EvAt(e, s).card \in DOMAIN e.cards
                          /\ e.cards[EvAt(e, s).card] = s}
    BY DEF LatestOfCard
  <1> HIDE DEF gone, d, S, G, R, late, F
  <1>7. IsFiniteSet(late) /\ IsFiniteSet(F) /\ Cardinality(F) \in Nat
    <2>1. late \in SUBSET S
      BY <1>2, <1>6
    <2>2. IsFiniteSet(late)
      BY <2>1, <1>3, FS_Subset
    <2>3. IsFiniteSet(F)
      BY <2>2, <1>5, CardsFinite
    <2> QED BY <2>2, <2>3, FS_CardinalityType
  <1>8. Cardinality(F) = Cardinality(late)
    <2>1. \A r, s \in late : EvAt(e, r).card = EvAt(e, s).card => r = s
      BY <1>6
    <2> QED BY <2>1, <1>5, <1>7, CardsFinite
  <1>9. DOMAIN d.cards = DOMAIN e.cards \ F /\ \A c \in DOMAIN d.cards : d.cards[c] = e.cards[c]
    BY <1>1 DEF Restrict
  <1>10. d.cards \in Tables
    <2>1. PICK C \in SUBSET Cards : e.cards \in [C -> Nat]
      BY <1>3 DEF Tables
    <2>2. d.cards \in [C \ F -> Nat] /\ C \ F \in SUBSET Cards
      BY <1>1, <2>1 DEF Restrict
    <2> QED BY <2>2 DEF Tables
  <1>11. d.distinct \in Int
    BY <1>1, <1>3, <1>7
  <1>12. CardsKnown(d)
    <2>1. SUFFICES ASSUME e.tracks
          PROVE  /\ DOMAIN d.cards = {EvAt(d, s).card : s \in R} \ {NoCard}
                 /\ \A c \in DOMAIN d.cards : LatestIn(d, c, R)
                 /\ d.distinct = Cardinality(DOMAIN d.cards)
      BY <1>1 DEF CardsKnown, R
    <2>2. /\ DOMAIN e.cards = {EvAt(e, s).card : s \in S} \ {NoCard}
          /\ \A c \in DOMAIN e.cards : LatestIn(e, c, S)
          /\ e.distinct = Cardinality(DOMAIN e.cards)
      BY <2>1 DEF CardsKnown, S
    <2>3. ASSUME NEW c \in DOMAIN d.cards
          PROVE  /\ c \in DOMAIN e.cards /\ c # NoCard /\ LatestIn(d, c, R)
      <3>1. c \in DOMAIN e.cards /\ c \notin F /\ d.cards[c] = e.cards[c]
        BY <1>9
      <3>2. /\ e.cards[c] \in S /\ EvAt(e, e.cards[c]).card = c
            /\ \A s \in S : EvAt(e, s).card = c => s <= e.cards[c]
        BY <2>2, <3>1 DEF LatestIn
      <3>3. c # NoCard
        BY <2>2, <3>1
      <3>4. e.cards[c] \notin G
        <4>1. SUFFICES ASSUME e.cards[c] \in G PROVE FALSE
          OBVIOUS
        <4>2. e.cards[c] \in late
          BY <4>1, <3>1, <3>2, <3>3, <2>1, <1>6
        <4>3. c \in F
          BY <4>2, <3>2, <1>5
        <4> QED BY <4>3, <3>1
      <3>5. e.cards[c] \in R
        BY <3>2, <3>4, <1>2
      <3>6. LatestIn(d, c, R)
        BY <3>1, <3>2, <3>5, <1>2 DEF LatestIn
      <3> QED BY <3>1, <3>3, <3>6
    <2>4. ASSUME NEW s \in R, EvAt(e, s).card # NoCard
          PROVE  EvAt(e, s).card \in DOMAIN d.cards
      <3> DEFINE c == EvAt(e, s).card
      <3>1. c \in DOMAIN e.cards /\ s \in S
        BY <2>2, <2>4, <1>2
      <3>2. s <= e.cards[c]
        BY <3>1, <2>2 DEF LatestIn
      <3>3. c \notin F
        <4>1. SUFFICES ASSUME c \in F PROVE FALSE
          OBVIOUS
        <4>2. PICK r \in late : EvAt(e, r).card = c
          BY <4>1, <1>5
        <4>3. r \in G /\ e.cards[c] = r
          BY <4>2, <1>6
        <4>4. r < s
          BY <4>3, <1>4
        <4>5. r \in Nat /\ s \in Nat
          BY <4>3, <1>2, <1>3, <3>1
        <4> QED BY <4>3, <4>4, <4>5, <3>2
      <3> QED BY <3>1, <3>3, <1>9
    <2>5. DOMAIN d.cards = {EvAt(d, s).card : s \in R} \ {NoCard}
      <3>1. \A c \in DOMAIN d.cards : c \in {EvAt(d, s).card : s \in R} /\ c # NoCard
        BY <2>3 DEF LatestIn
      <3>2. \A c \in {EvAt(d, s).card : s \in R} \ {NoCard} : c \in DOMAIN d.cards
        <4> TAKE c \in {EvAt(d, s).card : s \in R} \ {NoCard}
        <4>1. PICK s \in R : c = EvAt(d, s).card
          OBVIOUS
        <4> QED BY <4>1, <2>4, <1>2
      <3> QED BY <3>1, <3>2
    <2>6. d.distinct = Cardinality(DOMAIN d.cards)
      <3>1. IsFiniteSet(DOMAIN e.cards)
        <4>1. IsFiniteSet({EvAt(e, s).card : s \in S})
          BY <1>3, CardsFinite
        <4> QED BY <4>1, <2>2, FS_Subset
      <3>2. F \subseteq DOMAIN e.cards
        BY <1>5, <1>6
      <3>3. Cardinality(DOMAIN e.cards \ F) = Cardinality(DOMAIN e.cards) - Cardinality(F)
        <4> DEFINE D == DOMAIN e.cards
        <4>1. D \cap F = F
          BY <3>2
        <4> HIDE DEF D
        <4> QED BY <3>1, <4>1, FS_Difference DEF D
      <3> QED BY <3>3, <1>1, <1>9, <2>2
    <2> QED BY <2>3, <2>5, <2>6
  <1> QED BY <1>1, <1>8, <1>10, <1>11, <1>12 DEF d, gone, late, G

(* What is left is an entry.                                               *)
LEMMA Dropped ==
    ASSUME NEW e \in ExactEntry, NEW n \in [W -> Nat], Totals(e), CardsKnown(e),
           \A w \in W : e.start[w] + n[w] <= End(e)
    PROVE  DropOldest(e, FrontOf(e, n)) \in ExactEntry
  <1> DEFINE d == DropOldest(e, FrontOf(e, n))
  <1>1. /\ d.ev = e.ev /\ d.base = e.base /\ d.tracks = e.tracks
        /\ d.first = e.first /\ d.last = e.last /\ d.started = e.started
        /\ d = [ev |-> d.ev, base |-> d.base, start |-> d.start, count |-> d.count,
                milli |-> d.milli, tracks |-> d.tracks, cards |-> d.cards,
                distinct |-> d.distinct, first |-> d.first, last |-> d.last,
                started |-> d.started]
    BY DropFields
  <1>2. d.start \in [W -> Nat] /\ d.count \in [W -> Int] /\ d.milli \in [W -> Int]
    BY DropTotals
  <1>3. d.cards \in Tables /\ d.distinct \in Int
    BY DropCards
  <1>4. /\ e.ev \in Seq(Event) /\ e.base \in Nat /\ e.tracks \in BOOLEAN
        /\ e.first \in Int /\ e.last \in Int /\ e.started \in BOOLEAN
    BY DEF ExactEntry
  <1> HIDE DEF d
  <1> QED BY <1>1, <1>2, <1>3, <1>4 DEF d, ExactEntry

(* The place of an event in the sequence once the front of it is freed.    *)
LEMMA Offsets ==
    ASSUME NEW a \in Int, NEW o \in Nat, NEW l \in Nat, NEW s \in a + o .. a + l - 1
    PROVE  s - (a + o) + 1 \in 1 .. l - o /\ o + (s - (a + o) + 1) = s - a + 1
  OBVIOUS

(* popFront forgets only what no window holds.                             *)
LEMMA FreeKeeps ==
    ASSUME NEW e \in ExactEntry, Totals(e), CardsKnown(e),
           \A w \in W : e.start[Len(Windows)] <= e.start[w]
    PROVE  LET f == FreeFront(e)
           IN  /\ f \in ExactEntry /\ Totals(f) /\ CardsKnown(f) /\ End(f) = End(e)
               /\ f.base = e.start[Len(Windows)]
               /\ f.ev = SubSeq(e.ev, f.base - e.base + 1, Len(e.ev))
               /\ \A s \in f.base .. End(e) - 1 : EvAt(f, s) = EvAt(e, s)
               /\ f.start = e.start /\ f.tracks = e.tracks
               /\ f.first = e.first /\ f.last = e.last /\ f.started = e.started
  <1> DEFINE f == FreeFront(e)
             old == e.start[Len(Windows)] - e.base
  <1>1. f = [ev |-> SubSeq(e.ev, old + 1, Len(e.ev)), base |-> e.base + old, start |-> e.start,
             count |-> e.count, milli |-> e.milli, tracks |-> e.tracks, cards |-> e.cards,
             distinct |-> e.distinct, first |-> e.first, last |-> e.last, started |-> e.started]
    <2> DEFINE q == SubSeq(e.ev, old + 1, Len(e.ev))
               b == e.base + old
    <2>1. e = [ev |-> e.ev, base |-> e.base, start |-> e.start, count |-> e.count,
               milli |-> e.milli, tracks |-> e.tracks, cards |-> e.cards,
               distinct |-> e.distinct, first |-> e.first, last |-> e.last,
               started |-> e.started]
      BY DEF ExactEntry
    <2>2. f = [e EXCEPT !.ev = q, !.base = b]
      BY DEF FreeFront
    <2> HIDE DEF q, b, old, f
    <2>3. f = [ev |-> q, base |-> b, start |-> e.start, count |-> e.count,
               milli |-> e.milli, tracks |-> e.tracks, cards |-> e.cards,
               distinct |-> e.distinct, first |-> e.first, last |-> e.last,
               started |-> e.started]
      BY <2>1, <2>2
    <2> QED BY <2>3 DEF q, b
  <1>2. /\ old \in Nat /\ Len(e.ev) \in Nat /\ old <= Len(e.ev) /\ e.base \in Nat
        /\ e.base + old = e.start[Len(Windows)] /\ e.base + old \in Nat
        /\ End(e) = e.base + Len(e.ev)
    <2>1. Len(Windows) \in W
      BY Config
    <2>2. e.base <= e.start[Len(Windows)] /\ e.start[Len(Windows)] <= End(e)
      BY <2>1 DEF Totals
    <2> QED BY <2>1, <2>2, InsideFinite
  <1> HIDE DEF old, f
  <1>3. e.ev \in Seq(Event) /\ \A i \in old + 1 .. Len(e.ev) : e.ev[i] \in Event
    <2>1. e.ev \in Seq(Event)
      BY DEF ExactEntry
    <2> QED BY <2>1, <1>2, ElementOfSeq
  <1>4. /\ f.ev \in Seq(Event) /\ Len(f.ev) = Len(e.ev) - old
        /\ \A i \in 1 .. Len(e.ev) - old : f.ev[i] = e.ev[old + i]
    <2> DEFINE q == SubSeq(e.ev, old + 1, Len(e.ev))
    <2>1. /\ q \in Seq(Event) /\ Len(q) = IF old + 1 <= Len(e.ev) THEN Len(e.ev) - (old + 1) + 1 ELSE 0
          /\ \A i \in 1 .. Len(e.ev) - (old + 1) + 1 : q[i] = e.ev[old + 1 + i - 1]
      BY <1>2, <1>3, SubSeqProperties
    <2> HIDE DEF q
    <2>2. f.ev = q
      BY <1>1 DEF q
    <2>3. Len(q) = Len(e.ev) - old
      BY <2>1, <1>2
    <2>4. ASSUME NEW i \in 1 .. Len(e.ev) - old PROVE q[i] = e.ev[old + i]
      <3>1. i \in 1 .. Len(e.ev) - (old + 1) + 1 /\ old + 1 + i - 1 = old + i
        BY <1>2
      <3>2. q[i] = e.ev[old + 1 + i - 1]
        BY <3>1, <2>1
      <3> QED BY <3>1, <3>2
    <2> QED BY <2>1, <2>2, <2>3, <2>4
  <1>5. End(f) = End(e) /\ f.base = e.base + old
    BY <1>1, <1>2, <1>4 DEF End
  <1>6. ASSUME NEW s \in f.base .. End(e) - 1
        PROVE  EvAt(f, s) = EvAt(e, s)
    <2>1. s - f.base + 1 \in 1 .. Len(e.ev) - old /\ old + (s - f.base + 1) = s - e.base + 1
      <3>1. f.base = e.base + old /\ f.base \in Nat /\ End(e) \in Nat /\ s \in Int
            /\ f.base <= s /\ s <= e.base + Len(e.ev) - 1
        BY <1>2, <1>5
      <3>2. s \in e.base + old .. e.base + Len(e.ev) - 1
        BY <3>1
      <3>3. /\ s - (e.base + old) + 1 \in 1 .. Len(e.ev) - old
            /\ old + (s - (e.base + old) + 1) = s - e.base + 1
        <4> DEFINE a == e.base l == Len(e.ev)
        <4>1. a \in Int /\ l \in Nat /\ old \in Nat /\ s \in a + old .. a + l - 1
          BY <3>2, <1>2
        <4> HIDE DEF a, l
        <4>2. s - (a + old) + 1 \in 1 .. l - old /\ old + (s - (a + old) + 1) = s - a + 1
          BY <4>1, Offsets
        <4> QED BY <4>2 DEF a, l
      <3> QED BY <3>1, <3>3
    <2>2. f.ev[s - f.base + 1] = e.ev[old + (s - f.base + 1)]
      BY <2>1, <1>4
    <2> QED BY <2>1, <2>2 DEF EvAt
  <1>7. f \in ExactEntry
    BY <1>1, <1>2, <1>4, <1>5 DEF ExactEntry
  <1>8. ASSUME NEW w \in W
        PROVE  /\ Inside(f, w) = Inside(e, w)
               /\ \A s \in Inside(e, w) : EvAt(f, s) = EvAt(e, s)
               /\ f.base <= f.start[w] /\ f.start[w] = e.start[w]
    <2>1. f.start[w] = e.start[w] /\ f.base <= e.start[w] /\ f.base \in Nat
          /\ e.start[w] \in Nat /\ End(e) \in Nat
      BY <1>1, <1>2, <1>5, InsideFinite
    <2>2. Inside(f, w) = Inside(e, w)
      BY <2>1, <1>5 DEF Inside
    <2>3. \A s \in Inside(e, w) : s \in f.base .. End(e) - 1
      BY <2>1 DEF Inside
    <2> QED BY <2>1, <2>2, <2>3, <1>6
  <1>9. Totals(f)
    <2> SUFFICES ASSUME NEW w \in W
                 PROVE  /\ f.base <= f.start[w] /\ f.start[w] <= End(f)
                        /\ f.count[w] = End(f) - f.start[w]
                        /\ f.milli[w] = MilliOf(f, Inside(f, w))
      BY DEF Totals
    <2>1. /\ e.base <= e.start[w] /\ e.start[w] <= End(e) /\ e.count[w] = End(e) - e.start[w]
          /\ e.milli[w] = MilliOf(e, Inside(e, w))
      BY DEF Totals
    <2>2. IsFiniteSet(Inside(e, w)) /\ \A s \in Inside(e, w) : EvAt(e, s).milli \in Int
      BY <2>1, InsideFinite, InsideEvents
    <2>3. MilliOf(f, Inside(e, w)) = MilliOf(e, Inside(e, w))
      <3>1. \A s \in Inside(e, w) : EvAt(e, s) = EvAt(f, s) /\ EvAt(e, s).milli \in Int
        BY <1>8, <2>2
      <3> QED BY <3>1, <2>2, MilliOfSame
    <2>4. f.count = e.count /\ f.milli = e.milli
      BY <1>1
    <2> QED BY <2>1, <2>3, <2>4, <1>5, <1>8
  <1>10. CardsKnown(f)
    <2>1. f.tracks = e.tracks /\ f.cards = e.cards /\ f.distinct = e.distinct
      BY <1>1
    <2> DEFINE S == Inside(e, DistinctWindow)
    <2>2. Inside(f, DistinctWindow) = S /\ \A s \in S : EvAt(f, s) = EvAt(e, s)
      BY <1>8, Config
    <2>3. {EvAt(e, s).card : s \in S} = {EvAt(f, s).card : s \in S}
      BY <2>2
    <2>4. \A c \in DOMAIN e.cards : LatestIn(e, c, S) => LatestIn(f, c, S)
      BY <2>1, <2>2 DEF LatestIn
    <2> HIDE DEF S
    <2> QED BY <2>1, <2>2, <2>3, <2>4 DEF CardsKnown, S
  <1>11. /\ f.base = e.start[Len(Windows)] /\ f.ev = SubSeq(e.ev, f.base - e.base + 1, Len(e.ev))
    <2>1. old = f.base - e.base /\ f.base = e.start[Len(Windows)]
      BY <1>2, <1>5
    <2>2. f.ev = SubSeq(e.ev, old + 1, Len(e.ev))
      BY <1>1
    <2> QED BY <2>1, <2>2
  <1>12. /\ f.start = e.start /\ f.tracks = e.tracks
         /\ f.first = e.first /\ f.last = e.last /\ f.started = e.started
    BY <1>1
  <1> QED BY <1>12, <1>5, <1>6, <1>7, <1>9, <1>10, <1>11 DEF f

(* A new entry has no events, and totals and cards that fit.               *)
LEMMA NewKeeps ==
    ASSUME NEW b \in BOOLEAN
    PROVE  LET e == NewExact(b)
           IN  /\ e \in ExactEntry /\ Totals(e) /\ CardsKnown(e) /\ End(e) = 0
               /\ e.ev = <<>> /\ e.base = 0 /\ e.start = Zero /\ e.tracks = b /\ ~e.started
  <1> DEFINE e == NewExact(b)
  <1>1. e = [ev |-> <<>>, base |-> 0, start |-> Zero, count |-> Zero, milli |-> Zero,
             tracks |-> b, cards |-> <<>>, distinct |-> 0,
             first |-> 0, last |-> 0, started |-> FALSE]
    BY DEF NewExact
  <1> HIDE DEF e
  <1>2. <<>> \in Seq(Event) /\ Len(<<>>) = 0
    BY EmptySeq
  <1>3. Zero \in [W -> Nat] /\ Zero \in [W -> Int] /\ \A w \in W : Zero[w] = 0
    BY DEF Zero
  <1>4. <<>> \in Tables /\ DOMAIN <<>> = {}
    <2>1. <<>> \in [{} -> Nat] /\ DOMAIN <<>> = {}
      OBVIOUS
    <2> QED BY <2>1 DEF Tables
  <1>5. e \in ExactEntry
    BY <1>1, <1>2, <1>3, <1>4 DEF ExactEntry
  <1>6. End(e) = 0
    BY <1>1, <1>2 DEF End
  <1>7. \A w \in W : Inside(e, w) = {}
    BY <1>1, <1>3, <1>6 DEF Inside
  <1>8. Totals(e)
    <2> SUFFICES ASSUME NEW w \in W
                 PROVE  /\ e.base <= e.start[w] /\ e.start[w] <= End(e)
                        /\ e.count[w] = End(e) - e.start[w]
                        /\ e.milli[w] = MilliOf(e, Inside(e, w))
      BY DEF Totals
    <2>1. MilliOf(e, Inside(e, w)) = 0
      BY <1>7, MilliOfNone
    <2> QED BY <1>1, <1>3, <1>6, <2>1
  <1>9. CardsKnown(e)
    <2>1. Inside(e, DistinctWindow) = {}
      BY <1>7, Config
    <2>2. {EvAt(e, s).card : s \in Inside(e, DistinctWindow)} \ {NoCard} = {}
      BY <2>1
    <2>3. DOMAIN e.cards = {} /\ e.distinct = 0
      BY <1>1, <1>4
    <2> QED BY <2>2, <2>3, FS_EmptySet DEF CardsKnown
  <1> QED BY <1>1, <1>5, <1>6, <1>8, <1>9 DEF e

(* push, field by field.                                                   *)
LEMMA PushFields ==
    ASSUME NEW e \in ExactEntry, NEW x \in Event
    PROVE  LET p == Push(e, x)
               isNew == x.card # NoCard /\ x.card \notin DOMAIN e.cards
           IN  p = [ev |-> Append(e.ev, x), base |-> e.base, start |-> e.start,
                    count |-> [w \in W |-> e.count[w] + 1],
                    milli |-> [w \in W |-> e.milli[w] + x.milli],
                    tracks |-> e.tracks,
                    cards |-> IF e.tracks /\ x.card # NoCard
                              THEN Put(e.cards, x.card, End(e)) ELSE e.cards,
                    distinct |-> IF e.tracks /\ isNew THEN e.distinct + 1 ELSE e.distinct,
                    first |-> e.first, last |-> e.last, started |-> e.started]
  <1> DEFINE p == Push(e, x)
             isNew == x.card # NoCard /\ x.card \notin DOMAIN e.cards
             ev == Append(e.ev, x)
             count == [w \in W |-> e.count[w] + 1]
             milli == [w \in W |-> e.milli[w] + x.milli]
             distinct == IF e.tracks /\ isNew THEN e.distinct + 1 ELSE e.distinct
             cards == IF e.tracks /\ x.card # NoCard
                      THEN Put(e.cards, x.card, End(e)) ELSE e.cards
  <1>1. e = [ev |-> e.ev, base |-> e.base, start |-> e.start, count |-> e.count,
             milli |-> e.milli, tracks |-> e.tracks, cards |-> e.cards,
             distinct |-> e.distinct, first |-> e.first, last |-> e.last,
             started |-> e.started]
    BY DEF ExactEntry
  <1>2. p = [e EXCEPT !.ev = ev, !.count = count, !.milli = milli,
                      !.distinct = distinct, !.cards = cards]
    BY <1>1 DEF Push
  <1> HIDE DEF p, ev, count, milli, distinct, cards
  <1>3. p = [ev |-> ev, base |-> e.base, start |-> e.start, count |-> count, milli |-> milli,
             tracks |-> e.tracks, cards |-> cards, distinct |-> distinct,
             first |-> e.first, last |-> e.last, started |-> e.started]
    BY <1>1, <1>2
  <1> QED BY <1>3 DEF p, ev, count, milli, distinct, cards

(* A pushed event is the last one and counts in every window.              *)
LEMMA PushTotals ==
    ASSUME NEW e \in ExactEntry, NEW x \in Event, Totals(e)
    PROVE  LET p == Push(e, x)
           IN  /\ Totals(p) /\ p.base = e.base /\ p.start = e.start /\ End(p) = End(e) + 1
               /\ p.ev = Append(e.ev, x) /\ p.ev \in Seq(Event) /\ Len(p.ev) = Len(e.ev) + 1
               /\ \A s \in e.base .. End(e) - 1 : EvAt(p, s) = EvAt(e, s)
               /\ EvAt(p, End(e)) = x
               /\ p.tracks = e.tracks /\ p.first = e.first /\ p.last = e.last
               /\ p.started = e.started
               /\ \A w \in W : /\ Inside(p, w) = Inside(e, w) \cup {End(e)}
                               /\ \A s \in Inside(e, w) : s < End(e) /\ EvAt(p, s) = EvAt(e, s)
               /\ p.count \in [W -> Int] /\ p.milli \in [W -> Int]
  <1> DEFINE p == Push(e, x)
             l == Len(e.ev)
  <1>1. /\ p.ev = Append(e.ev, x) /\ p.base = e.base /\ p.start = e.start
        /\ p.count = [w \in W |-> e.count[w] + 1]
        /\ p.milli = [w \in W |-> e.milli[w] + x.milli]
        /\ p.tracks = e.tracks /\ p.first = e.first /\ p.last = e.last
        /\ p.started = e.started
    BY PushFields
  <1> HIDE DEF p
  <1>2. e.ev \in Seq(Event) /\ l \in Nat /\ e.base \in Nat /\ x.milli \in Int
        /\ End(e) = e.base + l /\ End(e) \in Nat
    <2>1. e.ev \in Seq(Event) /\ e.base \in Nat
      BY DEF ExactEntry
    <2>2. l \in Nat
      BY <2>1, LenProperties
    <2> QED BY <2>1, <2>2 DEF End, Event
  <1>3. /\ p.ev \in Seq(Event) /\ Len(p.ev) = l + 1 /\ p.ev[l + 1] = x
        /\ \A i \in 1 .. l : p.ev[i] = e.ev[i]
    BY <1>1, <1>2
  <1>4. End(p) = End(e) + 1
    BY <1>1, <1>2, <1>3 DEF End
  <1>5. EvAt(p, End(e)) = x
    <2>1. End(e) - p.base + 1 = l + 1
      BY <1>1, <1>2
    <2> QED BY <2>1, <1>3 DEF EvAt
  <1>6. ASSUME NEW s \in e.base .. End(e) - 1
        PROVE  EvAt(p, s) = EvAt(e, s)
    <2>1. s - e.base + 1 \in 1 .. l
      BY <1>2
    <2> QED BY <2>1, <1>1, <1>3 DEF EvAt
  <1>7. ASSUME NEW w \in W
        PROVE  /\ Inside(p, w) = Inside(e, w) \cup {End(e)}
               /\ \A s \in Inside(e, w) : s < End(e) /\ EvAt(p, s) = EvAt(e, s)
               /\ p.count[w] \in Int /\ p.milli[w] \in Int
               /\ p.base <= p.start[w] /\ p.start[w] <= End(p)
               /\ p.count[w] = End(p) - p.start[w]
               /\ p.milli[w] = MilliOf(p, Inside(p, w))
    <2>1. /\ e.base <= e.start[w] /\ e.start[w] <= End(e) /\ e.count[w] = End(e) - e.start[w]
          /\ e.milli[w] = MilliOf(e, Inside(e, w)) /\ e.start[w] \in Nat
          /\ e.count[w] \in Int /\ e.milli[w] \in Int
      BY DEF Totals, ExactEntry
    <2> DEFINE S == Inside(e, w)
               T == {End(e)}
    <2>2. IsFiniteSet(S) /\ \A s \in S : EvAt(e, s).milli \in Int
      BY <2>1, InsideFinite, InsideEvents
    <2>3. S = e.start[w] .. End(e) - 1
      BY DEF Inside
    <2>4. Inside(p, w) = e.start[w] .. End(e)
      BY <1>1, <1>2, <1>4 DEF Inside
    <2> HIDE DEF S
    <2>5. Inside(p, w) = S \cup T /\ S \cap T = {}
      BY <2>1, <2>3, <2>4, <1>2
    <2>6. \A s \in S : s < End(e) /\ s \in e.base .. End(e) - 1
      BY <2>1, <2>3, <1>2
    <2>7. \A s \in S : EvAt(p, s) = EvAt(e, s)
      BY <2>6, <1>6
    <2>8. MilliOf(p, S) = MilliOf(e, S)
      BY <2>2, <2>7, MilliOfSame
    <2>9. MilliOf(p, T) = x.milli
      BY <1>2, <1>5, MilliOfOne
    <2>10. MilliOf(p, S \cup T) = MilliOf(p, S) + MilliOf(p, T)
      <3>1. \A s \in S \cup T : EvAt(p, s).milli \in Int
        BY <2>2, <2>7, <1>2, <1>5
      <3>2. IsFiniteSet(T)
        BY FS_Singleton
      <3> HIDE DEF T
      <3> QED BY <3>1, <3>2, <2>2, <2>5, MilliOfParts
    <2>11. p.milli[w] = MilliOf(p, Inside(p, w))
      <3>1. p.milli[w] = e.milli[w] + x.milli
        BY <1>1
      <3> QED BY <3>1, <2>1, <2>5, <2>8, <2>9, <2>10 DEF S
    <2>12. p.milli[w] \in Int /\ p.count[w] = e.count[w] + 1
      BY <2>1, <1>1, <1>2
    <2>13. /\ p.base <= p.start[w] /\ p.start[w] <= End(p)
           /\ p.count[w] = End(p) - p.start[w] /\ p.count[w] \in Int
      <3>1. p.base = e.base /\ p.start[w] = e.start[w]
        BY <1>1
      <3>2. End(e) \in Nat /\ e.base \in Nat /\ e.start[w] \in Nat /\ p.count[w] = e.count[w] + 1
            /\ e.count[w] = End(e) - e.start[w] /\ e.base <= e.start[w] /\ e.start[w] <= End(e)
            /\ End(p) = End(e) + 1
        BY <2>1, <2>12, <1>2, <1>4
      <3>3. p.base <= p.start[w] /\ p.start[w] <= End(p)
        BY <3>1, <3>2
      <3> QED BY <3>1, <3>2, <3>3
    <2> QED BY <2>5, <2>6, <2>7, <2>11, <2>12, <2>13 DEF S
  <1>8. Totals(p)
    BY <1>7 DEF Totals
  <1>9. p.count \in [W -> Int] /\ p.milli \in [W -> Int]
    BY <1>1, <1>7
  <1> QED BY <1>1, <1>3, <1>4, <1>5, <1>6, <1>7, <1>8, <1>9 DEF p

(* A push keeps the totals and the cards right.                            *)
LEMMA PushKeeps ==
    ASSUME NEW e \in ExactEntry, NEW x \in Event, Totals(e), CardsKnown(e)
    PROVE  LET p == Push(e, x) IN p \in ExactEntry /\ Totals(p) /\ CardsKnown(p)
  <1> DEFINE p == Push(e, x)
             S == Inside(e, DistinctWindow)
             R == Inside(p, DistinctWindow)
             c == x.card
             isNew == c # NoCard /\ c \notin DOMAIN e.cards
  <1>1. /\ p = [ev |-> p.ev, base |-> p.base, start |-> p.start, count |-> p.count,
                milli |-> p.milli, tracks |-> p.tracks, cards |-> p.cards,
                distinct |-> p.distinct, first |-> p.first, last |-> p.last,
                started |-> p.started]
        /\ p.cards = IF e.tracks /\ c # NoCard THEN Put(e.cards, c, End(e)) ELSE e.cards
        /\ p.distinct = IF e.tracks /\ isNew THEN e.distinct + 1 ELSE e.distinct
    BY PushFields
  <1>2. /\ Totals(p) /\ p.base = e.base /\ p.start = e.start /\ p.ev \in Seq(Event)
        /\ p.tracks = e.tracks /\ p.first = e.first /\ p.last = e.last
        /\ p.started = e.started /\ p.count \in [W -> Int] /\ p.milli \in [W -> Int]
        /\ R = S \cup {End(e)} /\ EvAt(p, End(e)) = x
        /\ \A s \in S : s < End(e) /\ EvAt(p, s) = EvAt(e, s)
    BY PushTotals, Config
  <1>3. /\ IsFiniteSet(S) /\ End(e) \in Nat /\ e.distinct \in Int /\ e.cards \in Tables
        /\ c \in Cards
    <2>1. IsFiniteSet(S) /\ End(e) \in Nat
      BY InsideFinite, Config
    <2> QED BY <2>1 DEF ExactEntry, Event
  <1>4. S \subseteq Nat
    <2>1. e.start[DistinctWindow] \in Nat /\ S = e.start[DistinctWindow] .. End(e) - 1
      BY Config DEF ExactEntry, Inside
    <2> QED BY <2>1, <1>3
  <1> HIDE DEF p, S, R, isNew
  <1>5. p.cards \in Tables
    <2>1. PICK C \in SUBSET Cards : e.cards \in [C -> Nat]
      BY <1>3 DEF Tables
    <2>2. Put(e.cards, c, End(e)) \in [{c} \cup C -> Nat] /\ {c} \cup C \in SUBSET Cards
      BY <1>3, <2>1 DEF Put
    <2> QED BY <1>1, <1>3, <2>2 DEF Tables
  <1>6. p.distinct \in Int
    BY <1>1, <1>3
  <1>7. p \in ExactEntry
    <2>1. /\ e.base \in Nat /\ e.start \in [W -> Nat] /\ e.tracks \in BOOLEAN
          /\ e.first \in Int /\ e.last \in Int /\ e.started \in BOOLEAN
      BY DEF ExactEntry
    <2> QED BY <2>1, <1>1, <1>2, <1>5, <1>6 DEF ExactEntry
  <1>8. CardsKnown(p)
    <2>1. SUFFICES ASSUME e.tracks
          PROVE  /\ DOMAIN p.cards = {EvAt(p, s).card : s \in R} \ {NoCard}
                 /\ \A a \in DOMAIN p.cards : LatestIn(p, a, R)
                 /\ p.distinct = Cardinality(DOMAIN p.cards)
      BY <1>2 DEF CardsKnown, R
    <2>2. /\ DOMAIN e.cards = {EvAt(e, s).card : s \in S} \ {NoCard}
          /\ \A a \in DOMAIN e.cards : LatestIn(e, a, S)
          /\ e.distinct = Cardinality(DOMAIN e.cards)
      BY <2>1 DEF CardsKnown, S
    <2>3. {EvAt(p, s).card : s \in R} = {EvAt(e, s).card : s \in S} \cup {c}
      <3>1. {EvAt(p, s).card : s \in R} = {EvAt(p, s).card : s \in S} \cup {EvAt(p, End(e)).card}
        BY <1>2
      <3>2. {EvAt(p, s).card : s \in S} = {EvAt(e, s).card : s \in S}
        BY <1>2
      <3> QED BY <3>1, <3>2, <1>2
    <2>4. IsFiniteSet(DOMAIN e.cards)
      <3>1. IsFiniteSet({EvAt(e, s).card : s \in S})
        BY <1>3, CardsFinite
      <3> QED BY <3>1, <2>2, FS_Subset
    <2>5. \A a \in DOMAIN e.cards : LatestIn(e, a, S) /\ a # c => LatestIn(p, a, R) \/ p.cards[a] # e.cards[a]
      <3> TAKE a \in DOMAIN e.cards
      <3> HAVE LatestIn(e, a, S) /\ a # c
      <3>1. /\ e.cards[a] \in S /\ EvAt(e, e.cards[a]).card = a
            /\ \A s \in S : EvAt(e, s).card = a => s <= e.cards[a]
        BY DEF LatestIn
      <3>2. \A s \in R : EvAt(p, s).card = a => s \in S /\ EvAt(e, s).card = a
        BY <1>2
      <3> QED BY <1>2, <3>1, <3>2 DEF LatestIn
    <2>6. CASE c = NoCard
      <3>1. p.cards = e.cards /\ p.distinct = e.distinct
        BY <1>1, <2>6 DEF isNew
      <3>2. \A a \in DOMAIN e.cards : LatestIn(p, a, R)
        BY <2>2, <2>5, <2>6, <3>1
      <3> QED BY <3>1, <3>2, <2>2, <2>3, <2>6
    <2>7. CASE c # NoCard
      <3>1. /\ DOMAIN p.cards = DOMAIN e.cards \cup {c} /\ p.cards[c] = End(e)
            /\ \A a \in DOMAIN e.cards \ {c} : p.cards[a] = e.cards[a]
        <4>1. p.cards = Put(e.cards, c, End(e))
          BY <1>1, <2>1, <2>7
        <4> QED BY <4>1 DEF Put
      <3>2. DOMAIN p.cards = {EvAt(p, s).card : s \in R} \ {NoCard}
        BY <3>1, <2>2, <2>3, <2>7
      <3>3. LatestIn(p, c, R)
        <4>1. \A s \in R : s <= End(e)
          BY <1>2, <1>3, <1>4
        <4> QED BY <4>1, <3>1, <1>2 DEF LatestIn
      <3>4. \A a \in DOMAIN p.cards : LatestIn(p, a, R)
        BY <3>1, <3>3, <2>2, <2>5
      <3>5. p.distinct = Cardinality(DOMAIN e.cards \cup {c})
        <4>1. Cardinality(DOMAIN e.cards \cup {c}) =
                IF c \in DOMAIN e.cards THEN e.distinct ELSE e.distinct + 1
          BY <2>2, <2>4, FS_AddElement
        <4> QED BY <4>1, <1>1, <2>1, <2>7 DEF isNew
      <3> QED BY <3>1, <3>2, <3>4, <3>5
    <2> QED BY <2>6, <2>7
  <1> QED BY <1>2, <1>7, <1>8 DEF p

(* g applies the first m pushes of evs to e.                               *)
Pushes(g, e, evs, m) == g = [n \in 0 .. m |-> IF n = 0 THEN e ELSE Push(g[n - 1], evs[n])]

(* There is a function that makes the pushes one after another.            *)
LEMMA PushesExist ==
    ASSUME NEW e, NEW evs, NEW l \in Nat
    PROVE  \E g : Pushes(g, e, evs, l)
  <1> DEFINE Bad == {n \in Nat : ~ \E g : Pushes(g, e, evs, n)}
  <1>1. SUFFICES ASSUME Bad # {} PROVE FALSE
    OBVIOUS
  <1>2. Bad \subseteq Nat /\ \A n \in Nat : n \notin Bad => \E g : Pushes(g, e, evs, n)
    OBVIOUS
  <1>3. \A n \in Bad : ~ \E g : Pushes(g, e, evs, n)
    OBVIOUS
  <1> HIDE DEF Bad
  <1>4. PICK m \in Bad : \A n \in Bad : m <= n
    BY <1>1, <1>2, LeastNat
  <1>5. CASE m = 0
    <2> DEFINE g == [n \in 0 .. 0 |-> e]
    <2>1. g = [n \in 0 .. 0 |-> IF n = 0 THEN e ELSE Push(g[n - 1], evs[n])]
      OBVIOUS
    <2> QED BY <2>1, <1>3, <1>5 DEF Pushes
  <1>6. CASE m # 0
    <2>1. m \in Nat /\ m - 1 \in Nat /\ m - 1 \notin Bad
      BY <1>2, <1>4, <1>6
    <2>2. PICK g : Pushes(g, e, evs, m - 1)
      BY <2>1, <1>2
    <2> DEFINE h == [n \in 0 .. m |-> IF n = m THEN Push(g[m - 1], evs[m]) ELSE g[n]]
    <2>3. ASSUME NEW n \in 0 .. m
          PROVE  h[n] = IF n = 0 THEN e ELSE Push(h[n - 1], evs[n])
      <3>1. CASE n = m
        <4>1. h[n] = Push(g[m - 1], evs[m]) /\ m - 1 \in 0 .. m /\ m - 1 # m
          BY <2>1, <3>1
        <4>2. h[m - 1] = g[m - 1]
          BY <4>1
        <4> QED BY <4>1, <4>2, <3>1, <1>6
      <3>2. CASE n # m
        <4>1. n \in 0 .. m - 1 /\ h[n] = g[n]
          BY <2>1, <3>2
        <4>2. g[n] = IF n = 0 THEN e ELSE Push(g[n - 1], evs[n])
          BY <2>2, <4>1 DEF Pushes
        <4>3. n # 0 => n - 1 \in 0 .. m /\ n - 1 # m
          BY <2>1, <4>1
        <4>4. n # 0 => h[n - 1] = g[n - 1]
          BY <4>3
        <4> QED BY <4>1, <4>2, <4>4
      <3> QED BY <3>1, <3>2
    <2>4. DOMAIN h = 0 .. m /\ h = [n \in DOMAIN h |-> h[n]]
      OBVIOUS
    <2> HIDE DEF h
    <2>5. Pushes(h, e, evs, m)
      BY <2>3, <2>4 DEF Pushes
    <2> QED BY <2>5, <1>3
  <1> QED BY <1>5, <1>6

(* Pushing every event of a snapshot into a new entry gives an entry with  *)
(* those events, all inside every window, and totals and cards that fit    *)
(* (exact.go:204-207).                                                     *)
LEMMA Rebuilt ==
    ASSUME NEW evs \in Seq(Event), NEW s, s.tracks \in BOOLEAN, s.first \in Int, s.last \in Int
    PROVE  LET p == Pushed(Started(NewExact(s.tracks), s), evs)
           IN  /\ p \in ExactEntry /\ Totals(p) /\ CardsKnown(p)
               /\ p.ev = evs /\ p.base = 0 /\ p.start = Zero /\ p.tracks = s.tracks
               /\ p.first = s.first /\ p.last = s.last /\ p.started
  <1> DEFINE b == s.tracks
             o == NewExact(b)
             e == Started(o, s)
             l == Len(evs)
  <1>1. /\ o \in ExactEntry /\ Totals(o) /\ CardsKnown(o) /\ End(o) = 0
        /\ o.ev = <<>> /\ o.base = 0 /\ o.start = Zero /\ o.tracks = b
    BY NewKeeps
  <1>2. l \in Nat
    BY LenProperties
  <1>3. e = [ev |-> o.ev, base |-> o.base, start |-> o.start, count |-> o.count,
             milli |-> o.milli, tracks |-> o.tracks, cards |-> o.cards,
             distinct |-> o.distinct, first |-> s.first, last |-> s.last, started |-> TRUE]
    <2>1. o = [ev |-> o.ev, base |-> o.base, start |-> o.start, count |-> o.count,
               milli |-> o.milli, tracks |-> o.tracks, cards |-> o.cards,
               distinct |-> o.distinct, first |-> o.first, last |-> o.last,
               started |-> o.started]
      BY <1>1 DEF ExactEntry
    <2>2. e = [o EXCEPT !.first = s.first, !.last = s.last, !.started = TRUE]
      BY DEF Started
    <2> HIDE DEF e, o
    <2> QED BY <2>1, <2>2
  <1> HIDE DEF e, o
  <1>4. e \in ExactEntry
    BY <1>1, <1>3 DEF ExactEntry
  <1>5. /\ End(e) = 0 /\ e.start = o.start /\ e.base = 0 /\ e.count = o.count /\ e.milli = o.milli
        /\ e.cards = o.cards /\ e.distinct = o.distinct /\ e.tracks = o.tracks /\ e.ev = o.ev
    BY <1>1, <1>3 DEF End
  <1>6. \A w \in W : Inside(e, w) = Inside(o, w) /\ Inside(o, w) = {}
    <2> TAKE w \in W
    <2>1. e.start[w] = 0
      BY <1>1, <1>5 DEF Zero
    <2> QED BY <2>1, <1>1, <1>5 DEF Inside
  <1>7. Totals(e)
    <2> SUFFICES ASSUME NEW w \in W
                 PROVE  /\ e.base <= e.start[w] /\ e.start[w] <= End(e)
                        /\ e.count[w] = End(e) - e.start[w]
                        /\ e.milli[w] = MilliOf(e, Inside(e, w))
      BY DEF Totals
    <2>1. /\ o.base <= o.start[w] /\ o.start[w] <= End(o) /\ o.count[w] = End(o) - o.start[w]
          /\ o.milli[w] = MilliOf(o, Inside(o, w))
      BY <1>1 DEF Totals
    <2>2. MilliOf(e, Inside(e, w)) = 0 /\ MilliOf(o, Inside(o, w)) = 0
      BY <1>6, MilliOfNone
    <2> QED BY <2>1, <2>2, <1>1, <1>5
  <1>8. CardsKnown(e)
    <2>1. Inside(e, DistinctWindow) = {} /\ Inside(o, DistinctWindow) = {}
      BY <1>6, Config
    <2>2. o.tracks => /\ DOMAIN o.cards = {} /\ o.distinct = Cardinality(DOMAIN o.cards)
      BY <1>1, <2>1 DEF CardsKnown
    <2> QED BY <2>1, <2>2, <1>5 DEF CardsKnown
  <1> DEFINE Q(p, n) == /\ p \in ExactEntry /\ Totals(p) /\ CardsKnown(p)
                        /\ Len(p.ev) = n /\ \A i \in 1 .. n : p.ev[i] = evs[i]
                        /\ p.base = 0 /\ p.start = Zero /\ p.tracks = b
                        /\ p.first = s.first /\ p.last = s.last /\ p.started
  <1>9. Q(e, 0)
    <2>1. Len(e.ev) = 0
      BY <1>1, <1>5, EmptySeq
    <2> QED BY <2>1, <1>1, <1>3, <1>4, <1>5, <1>7, <1>8
  <1>10. ASSUME NEW n \in Nat, n < l, NEW p, Q(p, n)
         PROVE  Q(Push(p, evs[n + 1]), n + 1)
    <2>1. n + 1 \in 1 .. Len(evs)
      BY <1>2, <1>10
    <2>2. evs[n + 1] \in Event
      BY <2>1, ElementOfSeq
    <2> DEFINE x == evs[n + 1]
               q == Push(p, x)
    <2>3. q \in ExactEntry /\ Totals(q) /\ CardsKnown(q)
      BY <1>10, <2>2, PushKeeps
    <2>4. /\ q.base = p.base /\ q.start = p.start /\ q.ev = Append(p.ev, x)
          /\ Len(q.ev) = Len(p.ev) + 1
          /\ q.tracks = p.tracks /\ q.first = p.first /\ q.last = p.last /\ q.started = p.started
      BY <1>10, <2>2, PushTotals
    <2>5. p.ev \in Seq(Event)
      BY <1>10 DEF ExactEntry
    <2> HIDE DEF x, q
    <2>6. \A i \in 1 .. n + 1 : q.ev[i] = IF i = n + 1 THEN x ELSE p.ev[i]
      BY <2>2, <2>4, <2>5, <1>10
    <2>7. \A i \in 1 .. n + 1 : q.ev[i] = evs[i]
      <3> TAKE i \in 1 .. n + 1
      <3>1. CASE i = n + 1
        BY <3>1, <2>6 DEF x
      <3>2. CASE i # n + 1
        <4>1. i \in 1 .. n
          BY <3>2
        <4> QED BY <4>1, <3>2, <2>6, <1>10
      <3> QED BY <3>1, <3>2
    <2>8. Q(q, n + 1)
      BY <2>3, <2>4, <2>7, <1>10
    <2> QED BY <2>8 DEF q, x
  <1> HIDE DEF Q
  <1> DEFINE g == CHOOSE g : Pushes(g, e, evs, l)
  <1>11. Pushes(g, e, evs, l)
    <2>1. \E f : Pushes(f, e, evs, l)
      BY <1>2, PushesExist
    <2> QED BY <2>1
  <1>12. Pushed(e, evs) = g[l]
    BY DEF Pushed, Pushes
  <1> HIDE DEF g, l
  <1>13. \A n \in 0 .. l : g[n] = IF n = 0 THEN e ELSE Push(g[n - 1], evs[n])
    BY <1>11 DEF Pushes
  <1> DEFINE Bad == {n \in Nat : n <= l /\ ~Q(g[n], n)}
  <1>14. Bad = {}
    <2>1. SUFFICES ASSUME Bad # {} PROVE FALSE
      OBVIOUS
    <2>2. /\ Bad \subseteq Nat /\ \A n \in Bad : n <= l /\ ~Q(g[n], n)
          /\ \A n \in Nat : n <= l /\ n \notin Bad => Q(g[n], n)
      OBVIOUS
    <2> HIDE DEF Bad
    <2>3. PICK m \in Bad : \A n \in Bad : m <= n
      BY <2>1, <2>2, LeastNat
    <2>4. m # 0
      <3>1. g[0] = e
        BY <1>2, <1>13
      <3> QED BY <3>1, <1>9, <2>2
    <2>5. m - 1 \in Nat /\ m - 1 < l /\ m - 1 \notin Bad /\ m \in 0 .. l /\ m - 1 + 1 = m
      BY <2>2, <2>3, <2>4, <1>2
    <2>6. Q(g[m - 1], m - 1)
      BY <2>2, <2>5, <1>2
    <2>7. Q(Push(g[m - 1], evs[m - 1 + 1]), m - 1 + 1)
      BY <2>5, <2>6, <1>10
    <2>8. g[m] = Push(g[m - 1], evs[m])
      BY <2>4, <2>5, <1>13
    <2> QED BY <2>5, <2>7, <2>8, <2>2
  <1>15. Q(g[l], l)
    BY <1>2, <1>14
  <1> DEFINE p == g[l]
  <1> HIDE DEF p
  <1>16. p.ev = evs
    <2>1. p.ev \in Seq(Event) /\ Len(p.ev) = Len(evs) /\ \A i \in 1 .. Len(p.ev) : p.ev[i] = evs[i]
      BY <1>15 DEF Q, ExactEntry, p, l
    <2> QED BY <2>1, SeqEqual
  <1>17. /\ p \in ExactEntry /\ Totals(p) /\ CardsKnown(p)
         /\ p.base = 0 /\ p.start = Zero /\ p.tracks = b
         /\ p.first = s.first /\ p.last = s.last /\ p.started
    BY <1>15 DEF Q, p
  <1> QED BY <1>12, <1>16, <1>17 DEF p, e, o

-----------------------------------------------------------------------------
(* The exact entry and the history: where its events are, and what a read, *)
(* an add and a restart make of it.                                        *)

(* The times of a history never go back.                                   *)
InOrder(h) == \A i, j \in DOMAIN h : i <= j => h[i].t <= h[j].t
(* The entry's events are the last of the history, and each window starts  *)
(* at the first event it holds at time now.                                *)
Placed(e, h, now) ==
    /\ Len(e.ev) <= Len(h)
    /\ \A s \in e.base .. End(e) - 1 : EvAt(e, s) = h[s + 1 + Len(h) - End(e)]
    /\ \A w \in W, i \in DOMAIN h :
         h[i].t > now - Windows[w] <=> i > Len(h) - (End(e) - e.start[w])
(* The later of a time and the last one.                                   *)
Later(now, last) == IF now < last THEN last ELSE now

(* The events of a history.                                                *)
LEMMA HistoryTypes ==
    ASSUME NEW h \in Seq(Event)
    PROVE  /\ Len(h) \in Nat /\ DOMAIN h = 1 .. Len(h)
           /\ \A i \in DOMAIN h : /\ h[i] \in Event /\ h[i].t \in Int /\ h[i].t \in Moments
                                  /\ h[i].milli \in Int /\ h[i].card \in Cards
  <1>1. Len(h) \in Nat /\ DOMAIN h = 1 .. Len(h)
    BY LenProperties
  <1>2. \A i \in DOMAIN h : h[i] \in Event
    BY <1>1, ElementOfSeq
  <1> QED BY <1>1, <1>2, EventTypes

(* Where an event of the entry is in the history.                          *)
LEMMA Position ==
    ASSUME NEW e \in ExactEntry, NEW h \in Seq(Event), Len(e.ev) <= Len(h),
           NEW s \in e.base .. End(e) - 1
    PROVE  /\ s + 1 + Len(h) - End(e) \in DOMAIN h
           /\ s + 1 + Len(h) - End(e) \in Int /\ s \in Nat
  <1>1. e.ev \in Seq(Event) /\ e.base \in Nat
    BY DEF ExactEntry
  <1>2. Len(e.ev) \in Nat /\ End(e) = e.base + Len(e.ev) /\ End(e) \in Nat
    BY <1>1, LenProperties DEF End
  <1>3. Len(h) \in Nat /\ DOMAIN h = 1 .. Len(h)
    BY HistoryTypes
  <1> DEFINE b == e.base l == Len(e.ev) m == Len(h)
  <1>4. b \in Nat /\ l \in Nat /\ m \in Nat /\ l <= m /\ s \in b .. b + l - 1
    BY <1>1, <1>2, <1>3
  <1> HIDE DEF b, l, m
  <1>5. s + 1 + m - (b + l) \in 1 .. m /\ s \in Nat
    BY <1>4
  <1> QED BY <1>5, <1>2, <1>3 DEF b, l, m

(* What has left a window at a time is its front, and what is inside after *)
(* it is what the history has in the window then.                          *)
LEMMA LeftOf ==
    ASSUME NEW e \in ExactEntry, Totals(e), NEW h \in Seq(Event), InOrder(h),
           NEW last \in Int, Placed(e, h, last), NEW now \in Int, NEW w \in W
    PROVE  \E x \in Nat :
             /\ e.start[w] <= x /\ x <= End(e)
             /\ Left(e, w, now) = e.start[w] .. x - 1
             /\ \A i \in DOMAIN h : h[i].t > Later(now, last) - Windows[w]
                                      <=> i > Len(h) - (End(e) - x)
  <1> DEFINE a == e.start[w]
             z == End(e)
             cut == now - Windows[w]
             stays == {s \in a .. z : s = z \/ EvAt(e, s).t > cut}
             D == Len(h) - z
  <1>1. /\ a \in Nat /\ z \in Nat /\ a <= z /\ e.base \in Nat /\ e.base <= a
        /\ cut \in Int /\ Windows[w] \in Nat /\ Len(h) \in Nat /\ D \in Int
        /\ DOMAIN h = 1 .. Len(h) /\ Len(e.ev) <= Len(h)
    BY InsideFinite, Config, HistoryTypes DEF Totals, Placed
  <1>2. \A s \in a .. z - 1 : /\ EvAt(e, s) = h[s + 1 + D] /\ EvAt(e, s).t \in Int
                              /\ s + 1 + D \in DOMAIN h
    <2> TAKE s \in a .. z - 1
    <2>1. s \in e.base .. End(e) - 1
      BY <1>1
    <2>2. EvAt(e, s) = h[s + 1 + Len(h) - End(e)]
      BY <2>1 DEF Placed
    <2>3. s + 1 + Len(h) - End(e) = s + 1 + D
      BY <1>1
    <2>4. s + 1 + D \in DOMAIN h
      BY <2>1, <2>3, <1>1, Position
    <2> QED BY <2>2, <2>3, <2>4, HistoryTypes
  <1>3. \A i \in DOMAIN h : h[i].t > last - Windows[w] <=> i > Len(h) - (End(e) - e.start[w])
    BY DEF Placed
  <1> HIDE DEF D
  <1>4. PICK x \in stays : \A y \in stays : x <= y
    <2>1. stays \subseteq Nat /\ z \in stays
      BY <1>1
    <2> HIDE DEF stays
    <2> QED BY <2>1, LeastNat
  <1>5. /\ x \in Nat /\ a <= x /\ x <= z /\ (x < z => EvAt(e, x).t > cut)
        /\ \A s \in a .. x - 1 : EvAt(e, s).t <= cut
    <2>1. x \in Nat /\ a <= x /\ x <= z
      BY <1>1, <1>4
    <2>2. x < z => EvAt(e, x).t > cut
      BY <1>4, <2>1
    <2>3. ASSUME NEW s \in a .. x - 1 PROVE EvAt(e, s).t <= cut
      <3>1. s \in a .. z - 1 /\ s \in a .. z /\ s < x /\ s # z
        BY <1>1, <2>1
      <3>2. EvAt(e, s).t \in Int
        BY <3>1, <1>2
      <3>3. s \notin stays
        BY <3>1, <2>1, <1>4
      <3> QED BY <1>1, <3>1, <3>2, <3>3
    <2> QED BY <2>1, <2>2, <2>3
  <1>6. Left(e, w, now) = a .. x - 1
    <2>1. Left(e, w, now) = {s \in a .. z - 1 : \A r \in a .. s : EvAt(e, r).t <= cut}
      BY DEF Left
    <2>2. ASSUME NEW s \in a .. x - 1 PROVE s \in Left(e, w, now)
      <3>1. s \in a .. z - 1 /\ \A r \in a .. s : r \in a .. x - 1
        BY <1>1, <1>5
      <3> QED BY <3>1, <2>1, <1>5
    <2>3. ASSUME NEW s \in Left(e, w, now) PROVE s \in a .. x - 1
      <3>1. s \in a .. z - 1 /\ \A r \in a .. s : EvAt(e, r).t <= cut
        BY <2>1
      <3>2. SUFFICES ASSUME x <= s PROVE FALSE
        BY <3>1, <1>1, <1>5
      <3>3. x \in a .. s /\ x < z /\ x \in a .. z - 1
        BY <3>1, <3>2, <1>1, <1>5
      <3>4. EvAt(e, x).t <= cut /\ EvAt(e, x).t > cut /\ EvAt(e, x).t \in Int
        BY <3>1, <3>3, <1>2, <1>5
      <3> QED BY <3>4, <1>1
    <2> QED BY <2>2, <2>3
  <1> HIDE DEF stays, a, z, cut
  <1>7. ASSUME NEW i \in DOMAIN h
        PROVE  h[i].t > Later(now, last) - Windows[w] <=> i > Len(h) - (z - x)
    <2> DEFINE t == h[i].t
               s == i - 1 - D
               m == Later(now, last)
               l == Len(h)
    <2>0. t \in Int /\ i \in 1 .. l /\ l \in Nat /\ D = l - z
      BY <1>1, HistoryTypes DEF D
    <2>a. m \in Int /\ m >= now /\ m >= last /\ (m = now \/ m = last)
      BY DEF Later
    <2> HIDE DEF t, m, l
    <2>1. i \in Int /\ s \in Int /\ s + 1 + D = i /\ s < z
      BY <2>0, <1>1
    <2>2. i > l - (z - x) <=> s >= x
      BY <2>0, <1>1, <1>5
    <2>b. i > l - (z - a) <=> s >= a
      BY <2>0, <1>1
    <2> HIDE DEF s
    <2>3. t > last - Windows[w] <=> s >= a
      <3>1. t > last - Windows[w] <=> i > l - (z - a)
        BY <1>3 DEF a, z, t, l
      <3> QED BY <3>1, <2>b
    <2>4. s >= a => s \in a .. z - 1 /\ EvAt(e, s).t = t
      <3>1. s >= a => s \in a .. z - 1
        BY <2>1, <1>1
      <3>2. s \in a .. z - 1 => EvAt(e, s) = h[s + 1 + D]
        BY <1>2
      <3> QED BY <3>1, <3>2, <2>1 DEF t
    <2>5. ASSUME s >= x PROVE t > m - Windows[w]
      <3>1. x < z /\ x \in a .. z - 1 /\ s >= a
        BY <2>1, <2>5, <1>1, <1>5
      <3>2. EvAt(e, x).t > cut /\ EvAt(e, x).t \in Int /\ EvAt(e, x) = h[x + 1 + D] /\ x + 1 + D \in DOMAIN h
        BY <3>1, <1>2, <1>5
      <3>3. x + 1 + D <= i
        BY <2>1, <2>5, <1>1, <1>5
      <3>4. h[x + 1 + D].t <= t
        BY <3>2, <3>3 DEF InOrder, t
      <3>5. t > cut
        BY <3>2, <3>4, <2>0, <1>1
      <3>6. t > last - Windows[w]
        BY <3>1, <2>3
      <3> QED BY <3>5, <3>6, <2>a, <1>1 DEF cut
    <2>6. ASSUME t > m - Windows[w] PROVE s >= x
      <3>1. t > last - Windows[w] /\ t > cut
        BY <2>6, <2>a, <2>0, <1>1 DEF cut
      <3>2. s >= a
        BY <3>1, <2>3
      <3>3. s < x => s \in a .. x - 1
        BY <3>2, <2>1, <1>1, <1>5
      <3>4. s \in a .. x - 1 => t <= cut
        BY <1>5, <2>4, <3>2
      <3> QED BY <3>1, <3>3, <3>4, <2>0, <2>1, <1>1, <1>5
    <2> QED BY <2>2, <2>5, <2>6 DEF t, m, l
  <1> QED BY <1>5, <1>6, <1>7 DEF a, z

(* The commit of a read's walk: the entry is brought to the later time,    *)
(* and its totals are what the read computed without writing.              *)
LEMMA Advanced ==
    ASSUME NEW e \in ExactEntry, Totals(e), CardsKnown(e), NEW h \in Seq(Event), InOrder(h),
           NEW last \in Int, Placed(e, h, last), NEW now \in Int
    PROVE  LET d == DropOldest(e, [w \in W |-> Left(e, w, now)])
           IN  /\ d \in ExactEntry /\ Totals(d) /\ CardsKnown(d)
               /\ Placed(d, h, Later(now, last))
               /\ End(d) = End(e) /\ d.ev = e.ev /\ d.base = e.base /\ d.tracks = e.tracks
               /\ d.first = e.first /\ d.last = e.last /\ d.started = e.started
               /\ \A w \in W : /\ d.count[w] = e.count[w] - Cardinality(Left(e, w, now))
                               /\ d.milli[w] = e.milli[w] - MilliOf(e, Left(e, w, now))
               /\ d.distinct = e.distinct - Cardinality(LatestOfCard(e, Left(e, DistinctWindow, now)))
  <1> DEFINE X(w, x) == /\ e.start[w] <= x /\ x <= End(e)
                        /\ Left(e, w, now) = e.start[w] .. x - 1
                        /\ \A i \in DOMAIN h : h[i].t > Later(now, last) - Windows[w]
                                                 <=> i > Len(h) - (End(e) - x)
             x == [w \in W |-> CHOOSE y \in Nat : X(w, y)]
             n == [w \in W |-> x[w] - e.start[w]]
             gone == [w \in W |-> Left(e, w, now)]
             d == DropOldest(e, gone)
  <1>1. ASSUME NEW w \in W
        PROVE  x[w] \in Nat /\ X(w, x[w])
    <2>1. \E y \in Nat : X(w, y)
      BY LeftOf
    <2> HIDE DEF X
    <2> QED BY <2>1
  <1> HIDE DEF x
  <1>2. ASSUME NEW w \in W
        PROVE  /\ e.start[w] \in Nat /\ End(e) \in Nat /\ n[w] \in Nat
               /\ e.start[w] + n[w] = x[w] /\ e.start[w] + n[w] <= End(e)
               /\ Left(e, w, now) = e.start[w] .. e.start[w] + n[w] - 1
    <2>1. x[w] \in Nat /\ e.start[w] <= x[w] /\ x[w] <= End(e)
          /\ Left(e, w, now) = e.start[w] .. x[w] - 1
      BY <1>1
    <2>2. e.start[w] \in Nat /\ End(e) \in Nat
      BY InsideFinite
    <2> QED BY <2>1, <2>2
  <1>3. n \in [W -> Nat] /\ \A w \in W : e.start[w] + n[w] <= End(e)
    BY <1>2
  <1>4. gone = FrontOf(e, n)
    BY <1>2 DEF FrontOf
  <1> HIDE DEF n
  <1>5. d = DropOldest(e, FrontOf(e, n))
    BY <1>4
  <1> HIDE DEF d, gone
  <1>6. d \in ExactEntry /\ Totals(d) /\ CardsKnown(d) /\ End(d) = End(e)
        /\ \A s : EvAt(d, s) = EvAt(e, s)
    BY <1>3, <1>5, Dropped, DropTotals, DropCards
  <1>7. /\ d.ev = e.ev /\ d.base = e.base /\ d.tracks = e.tracks
        /\ d.first = e.first /\ d.last = e.last /\ d.started = e.started
        /\ d.start = [w \in W |-> e.start[w] + n[w]]
        /\ d.count = [w \in W |-> e.count[w] - n[w]]
        /\ d.milli = [w \in W |-> e.milli[w] - MilliOf(e, FrontOf(e, n)[w])]
    BY <1>3, <1>5, DropFields
  <1>8. d.distinct = e.distinct - Cardinality(LatestOfCard(e, FrontOf(e, n)[DistinctWindow]))
    BY <1>3, <1>5, DropCards
  <1>9. \A w \in W : FrontOf(e, n)[w] = Left(e, w, now) /\ Cardinality(Left(e, w, now)) = n[w]
    <2> TAKE w \in W
    <2>1. FrontOf(e, n)[w] = Left(e, w, now)
      <3>1. gone[w] = Left(e, w, now)
        BY DEF gone
      <3> QED BY <3>1, <1>4
    <2> DEFINE a == e.start[w] b == e.start[w] + n[w] - 1
    <2>2. a \in Int /\ b \in Int /\ Left(e, w, now) = a .. b /\ n[w] = IF a > b THEN 0 ELSE b - a + 1
      BY <1>2
    <2> HIDE DEF a, b
    <2> QED BY <2>1, <2>2, FS_Interval
  <1>10. Placed(d, h, Later(now, last))
    <2>1. /\ Len(e.ev) <= Len(h)
          /\ \A s \in e.base .. End(e) - 1 : EvAt(e, s) = h[s + 1 + Len(h) - End(e)]
      BY DEF Placed
    <2>2. ASSUME NEW w \in W
          PROVE  \A i \in DOMAIN h : h[i].t > Later(now, last) - Windows[w]
                                       <=> i > Len(h) - (End(d) - d.start[w])
      <3>1. d.start[w] = x[w]
        BY <1>2, <1>7
      <3> QED BY <3>1, <1>1, <1>6
    <2> QED BY <2>1, <2>2, <1>6, <1>7 DEF Placed
  <1>11. /\ \A w \in W : /\ d.count[w] = e.count[w] - Cardinality(Left(e, w, now))
                         /\ d.milli[w] = e.milli[w] - MilliOf(e, Left(e, w, now))
         /\ d.distinct = e.distinct - Cardinality(LatestOfCard(e, Left(e, DistinctWindow, now)))
    BY <1>7, <1>8, <1>9, Config
  <1> QED BY <1>6, <1>7, <1>10, <1>11 DEF d, gone

(* The last c of l numbers.                                                *)
LEMMA LastOf ==
    ASSUME NEW l \in Nat, NEW c \in Nat, c <= l
    PROVE  {i \in 1 .. l : i > l - c} = l - c + 1 .. l
  OBVIOUS

(* The totals of an entry brought to a time are the history's, to the      *)
(* payment, the cent and the card.                                         *)
LEMMA WindowTotals ==
    ASSUME NEW e \in ExactEntry, Totals(e), CardsKnown(e), NEW h \in Seq(Event),
           NEW now \in Int, Placed(e, h, now)
    PROVE  /\ \A w \in W : LET S == {i \in DOMAIN h : now - Windows[w] < h[i].t}
                           IN  e.count[w] = Cardinality(S) /\ e.milli[w] = MilliSum(h, S)
           /\ e.tracks => e.distinct = DistinctCards(h, {i \in DOMAIN h : now - Windows[DistinctWindow] < h[i].t})
  <1> DEFINE D == Len(h) - End(e)
             S(w) == {i \in DOMAIN h : now - Windows[w] < h[i].t}
  <1>1. ASSUME NEW w \in W
        PROVE  /\ S(w) = {s + 1 + D : s \in Inside(e, w)}
               /\ \A s \in Inside(e, w) : /\ EvAt(e, s) = h[s + 1 + D] /\ s \in Nat
                                          /\ s + 1 + D \in Int
                                          /\ EvAt(e, s).milli \in Int
               /\ Cardinality(S(w)) = e.count[w]
               /\ IsFiniteSet(Inside(e, w)) /\ D \in Int
    <2> DEFINE a == e.start[w] z == End(e) l == Len(h)
    <2>1. /\ a \in Nat /\ z \in Nat /\ a <= z /\ e.base <= a /\ e.base \in Nat
          /\ e.count[w] = z - a /\ l \in Nat /\ DOMAIN h = 1 .. l /\ Len(e.ev) <= l
          /\ z = e.base + Len(e.ev) /\ Len(e.ev) \in Nat /\ D = l - z
          /\ IsFiniteSet(Inside(e, w)) /\ Windows[w] \in Int
          /\ Inside(e, w) = a .. z - 1
      BY InsideFinite, HistoryTypes, Config DEF Totals, Placed, Inside
    <2>0. z - a \in Nat /\ z - a <= l
      <3> DEFINE c == e.base m == Len(e.ev)
      <3>1. c \in Nat /\ m \in Nat /\ z = c + m /\ c <= a /\ a <= z /\ m <= l /\ a \in Nat /\ l \in Nat
        BY <2>1
      <3> HIDE DEF c, m, a, z, l
      <3> QED BY <3>1
    <2>9. D \in Int
      <3>1. z \in Nat /\ l \in Nat /\ D = l - z
        BY <2>1
      <3> HIDE DEF D, l, z
      <3> QED BY <3>1
    <2>2. \A i \in DOMAIN h : h[i].t > now - Windows[w] <=> i > Len(h) - (End(e) - e.start[w])
      BY DEF Placed
    <2>3. \A s \in Inside(e, w) : EvAt(e, s) = h[s + 1 + D] /\ s \in Nat /\ EvAt(e, s).milli \in Int
      <3> TAKE s \in Inside(e, w)
      <3>1. s \in e.base .. End(e) - 1
        BY <2>1
      <3>2. EvAt(e, s) = h[s + 1 + Len(h) - End(e)] /\ s + 1 + Len(h) - End(e) = s + 1 + D
        BY <3>1, <2>1 DEF Placed
      <3> QED BY <3>2, <2>1, InsideEvents
    <2> HIDE DEF a, z, l, D
    <2>4. S(w) = l - (z - a) + 1 .. l
      <3>1. \A i \in DOMAIN h : h[i].t \in Int
        BY HistoryTypes
      <3>2. \A i \in DOMAIN h : now - Windows[w] < h[i].t <=> i > l - (z - a)
        BY <3>1, <2>1, <2>2 DEF l, z, a
      <3>3. S(w) = {i \in 1 .. l : i > l - (z - a)}
        BY <2>1, <3>2
      <3>4. l \in Nat
        BY <2>1
      <3> HIDE DEF S
      <3> QED BY <2>0, <3>3, <3>4, LastOf
    <2> HIDE DEF S
    <2>5. S(w) = {s + 1 + D : s \in Inside(e, w)} /\ Cardinality(S(w)) = e.count[w]
      <3>1. a \in Nat /\ z \in Nat /\ l \in Nat /\ a <= z /\ D = l - z /\ z - a <= l /\ D \in Int
        BY <2>0, <2>1, <2>9
      <3> DEFINE b == l - (z - a) + 1
      <3>2. /\ b \in Int /\ l \in Int /\ b = a + 1 + D /\ l = z + D
            /\ z - a = IF b > l THEN 0 ELSE l - b + 1
        BY <3>1
      <3>3. S(w) = b .. l
        BY <2>4
      <3> HIDE DEF b
      <3>4. Cardinality(b .. l) = z - a
        BY <3>2, FS_Interval
      <3>5. \A i \in b .. l : i - 1 - D \in a .. z - 1 /\ i - 1 - D + 1 + D = i
        BY <3>1, <3>2
      <3>6. \A s \in a .. z - 1 : s + 1 + D \in b .. l
        BY <3>1, <3>2
      <3>7. b .. l = {s + 1 + D : s \in a .. z - 1}
        BY <3>5, <3>6
      <3>8. Inside(e, w) = a .. z - 1 /\ e.count[w] = z - a
        BY <2>1
      <3> QED BY <3>3, <3>4, <3>7, <3>8
    <2>7. D \in Int /\ \A s \in Inside(e, w) : s + 1 + D \in Int
      BY <2>3, <2>9
    <2> QED BY <2>1, <2>3, <2>5, <2>7 DEF S
  <1>2. ASSUME NEW w \in W
        PROVE  e.milli[w] = MilliSum(h, S(w))
    <2> DEFINE T == Inside(e, w)
               f == [s \in T |-> EvAt(e, s).milli]
               b == [s \in T |-> s + 1 + D]
               g == [i \in S(w) |-> h[i].milli]
    <2>1. e.milli[w] = SumFunctionOnSet(f, T)
      BY DEF Totals, MilliOf, SumFunction
    <2>2. MilliSum(h, S(w)) = SumFunctionOnSet(g, S(w))
      BY DEF MilliSum, SumFunction
    <2>3. S(w) = {b[s] : s \in T}
      BY <1>1
    <2>4. \A s \in T : f[s] \in Int /\ g[b[s]] = f[s]
      <3> TAKE s \in T
      <3>1. b[s] = s + 1 + D /\ b[s] \in S(w)
        BY <1>1
      <3>2. f[s] = EvAt(e, s).milli /\ g[b[s]] = h[b[s]].milli
        BY <3>1
      <3> QED BY <3>1, <3>2, <1>1
    <2>5. \A r, s \in T : b[r] = b[s] => r = s
      <3> TAKE r, s \in T
      <3>1. b[r] = r + 1 + D /\ b[s] = s + 1 + D
        OBVIOUS
      <3>2. r \in Nat /\ s \in Nat /\ D \in Int
        BY <1>1
      <3> HIDE DEF b, D, T
      <3> QED BY <3>1, <3>2
    <2>6. IsFiniteSet(T)
      BY <1>1
    <2> HIDE DEF T, f, b, g, S
    <2> QED BY <2>1, <2>2, <2>3, <2>4, <2>5, <2>6, SumReindexed
  <1>3. ASSUME e.tracks
        PROVE  e.distinct = DistinctCards(h, S(DistinctWindow))
    <2> DEFINE T == Inside(e, DistinctWindow)
    <2>1. e.distinct = Cardinality({EvAt(e, s).card : s \in T} \ {NoCard})
      BY <1>3 DEF CardsKnown
    <2>2. /\ S(DistinctWindow) = {s + 1 + D : s \in T}
          /\ \A s \in T : EvAt(e, s) = h[s + 1 + D]
      BY <1>1, Config
    <2> HIDE DEF T, S, D
    <2>3. {EvAt(e, s).card : s \in T} = {h[i].card : i \in S(DistinctWindow)}
      BY <2>2
    <2> QED BY <2>1, <2>3 DEF DistinctCards
  <1> QED BY <1>1, <1>2, <1>3

(* What an exact entry knows of key k with history h.                      *)
ExactOf(e, h, k) ==
    /\ e \in ExactEntry /\ Totals(e) /\ CardsKnown(e)
    /\ h # <<>> /\ InOrder(h) /\ Placed(e, h, e.last)
    /\ e.start[Len(Windows)] = e.base
    /\ e.started /\ e.tracks = k.distinct /\ e.first = h[1].t /\ e.last = Last(h).t

(* A longer window starts no later.                                        *)
LEMMA StartsNest ==
    ASSUME NEW e \in ExactEntry, Totals(e), NEW h \in Seq(Event), NEW now \in Int,
           Placed(e, h, now), NEW v \in W, NEW w \in W, v < w
    PROVE  e.start[w] <= e.start[v]
  <1> DEFINE a == e.start[v] b == e.start[w] z == End(e) l == Len(h) c == e.base m == Len(e.ev)
             i == l - (z - a) + 1
  <1>1. /\ a \in Nat /\ b \in Nat /\ z \in Nat /\ l \in Nat /\ c \in Nat /\ m \in Nat
        /\ z = c + m /\ m <= l /\ c <= a /\ a <= z /\ c <= b /\ b <= z /\ DOMAIN h = 1 .. l
    BY InsideFinite, HistoryTypes DEF Totals, Placed
  <1>2. Windows[v] < Windows[w] /\ Windows[v] \in Nat /\ Windows[w] \in Nat
    BY Config
  <1>3. \A j \in DOMAIN h : /\ h[j].t \in Int
                            /\ h[j].t > now - Windows[v] => j > l - (z - a)
                            /\ j > l - (z - a) => h[j].t > now - Windows[v]
                            /\ h[j].t > now - Windows[w] => j > l - (z - b)
    BY HistoryTypes DEF Placed
  <1> HIDE DEF a, b, z, l, c, m
  <1>4. SUFFICES ASSUME a < b PROVE FALSE
    BY <1>1 DEF a, b
  <1>5. i \in 1 .. l /\ i > l - (z - a) /\ ~(i > l - (z - b))
    BY <1>1, <1>4
  <1> HIDE DEF i
  <1>6. h[i].t > now - Windows[v] /\ h[i].t \in Int /\ ~(h[i].t > now - Windows[w])
    BY <1>1, <1>3, <1>5
  <1> QED BY <1>2, <1>6

(* A history with one event more.                                          *)
LEMMA Appended ==
    ASSUME NEW h \in Seq(Event), NEW x \in Event
    PROVE  LET g == Append(h, x)
           IN  /\ g \in Seq(Event) /\ Len(g) = Len(h) + 1 /\ g[Len(h) + 1] = x
               /\ \A i \in 1 .. Len(h) : g[i] = h[i]
               /\ DOMAIN g = 1 .. Len(h) + 1 /\ g # <<>>
  OBVIOUS

(* A read answers what the history says at that time, whether or not the   *)
(* entry was brought to it.                                                *)
LEMMA ReadOfExact ==
    ASSUME NEW e \in ExactEntry, Totals(e), CardsKnown(e), NEW h \in Seq(Event), InOrder(h),
           NEW last \in Int, Placed(e, h, last), NEW k, NEW now \in Int, now - last < TTL,
           h # <<>>, e.tracks = k.distinct, e.first = h[1].t, e.last = last, last = Last(h).t
    PROVE  ReadExact(e, now) = HistoryRead(h, k, now)
  <1> DEFINE d == DropOldest(e, [w \in W |-> Left(e, w, now)])
             m == Later(now, last)
             S(w) == {i \in DOMAIN h : m - Windows[w] < h[i].t}
  <1>2. m \in Int
    BY DEF Later
  <1>3. /\ d \in ExactEntry /\ Totals(d) /\ CardsKnown(d) /\ Placed(d, h, m)
        /\ d.tracks = e.tracks
        /\ \A w \in W : /\ d.count[w] = e.count[w] - Cardinality(Left(e, w, now))
                        /\ d.milli[w] = e.milli[w] - MilliOf(e, Left(e, w, now))
        /\ d.distinct = e.distinct - Cardinality(LatestOfCard(e, Left(e, DistinctWindow, now)))
    <2>1. /\ d \in ExactEntry /\ Totals(d) /\ CardsKnown(d) /\ d.tracks = e.tracks
          /\ Placed(d, h, Later(now, last))
      BY Advanced
    <2>2. \A w \in W : d.count[w] = e.count[w] - Cardinality(Left(e, w, now))
      BY Advanced
    <2>3. \A w \in W : d.milli[w] = e.milli[w] - MilliOf(e, Left(e, w, now))
      BY Advanced
    <2>4. d.distinct = e.distinct - Cardinality(LatestOfCard(e, Left(e, DistinctWindow, now)))
      BY Advanced
    <2> HIDE DEF d
    <2> QED BY <2>1, <2>2, <2>3, <2>4
  <1> HIDE DEF d
  <1>4. /\ \A w \in W : d.count[w] = Cardinality(S(w)) /\ d.milli[w] = MilliSum(h, S(w))
        /\ d.tracks => d.distinct = DistinctCards(h, S(DistinctWindow))
    BY <1>2, <1>3, WindowTotals
  <1>5. \A w \in W : Within(h, now, Windows[w]) = S(w)
    BY DEF Within, Latest, Later
  <1>6. /\ d.count = [w \in W |-> e.count[w] - Cardinality(Left(e, w, now))]
        /\ d.milli = [w \in W |-> e.milli[w] - MilliOf(e, Left(e, w, now))]
    <2>1. d.count \in [W -> Int] /\ d.milli \in [W -> Int]
      BY <1>3 DEF ExactEntry
    <2> QED BY <2>1, <1>3
  <1> DEFINE r == [seen |-> TRUE, first |-> e.first, last |-> e.last,
                   count |-> [w \in W |-> Cardinality(S(w))],
                   sum |-> [w \in W |-> MilliSum(h, S(w))],
                   distinct |-> IF e.tracks THEN DistinctCards(h, S(DistinctWindow)) ELSE -1]
  <1>7. ReadExact(e, now) = [seen |-> TRUE, first |-> e.first, last |-> e.last,
                             count |-> d.count, sum |-> d.milli,
                             distinct |-> IF e.tracks THEN d.distinct ELSE -1]
    BY <1>3, <1>6 DEF ReadExact
  <1> HIDE DEF S, m
  <1>8. d.count = [w \in W |-> Cardinality(S(w))] /\ d.milli = [w \in W |-> MilliSum(h, S(w))]
    <2>1. d.count \in [W -> Int] /\ d.milli \in [W -> Int]
      BY <1>3 DEF ExactEntry
    <2> QED BY <2>1, <1>4
  <1>9. ReadExact(e, now) = r
    BY <1>3, <1>4, <1>7, <1>8
  <1>10. HistoryRead(h, k, now) =
           [seen |-> TRUE, first |-> h[1].t, last |-> Last(h).t,
            count |-> [w \in W |-> Cardinality(Within(h, now, Windows[w]))],
            sum   |-> [w \in W |-> MilliSum(h, Within(h, now, Windows[w]))],
            distinct |-> IF k.distinct
                         THEN DistinctCards(h, Within(h, now, Windows[DistinctWindow])) ELSE -1]
    <2>1. ~(now - Last(h).t >= TTL)
      BY Config
    <2> QED BY <2>1 DEF HistoryRead
  <1>11. HistoryRead(h, k, now) = r
    BY <1>5, <1>10, Config
  <1> QED BY <1>9, <1>11

(* Expire, then push: the entry knows the history with one event more, and *)
(* keeps nothing the longest window has lost.                              *)
LEMMA Grown ==
    ASSUME NEW e \in ExactEntry, Totals(e), CardsKnown(e), NEW h \in Seq(Event), InOrder(h),
           NEW last \in Int, Placed(e, h, last), NEW x \in Event, last <= x.t,
           \A i \in DOMAIN h : h[i].t <= x.t
    PROVE  LET p == Push(ExpireExact(e, x.t), x)
               g == Append(h, x)
           IN  /\ p \in ExactEntry /\ Totals(p) /\ CardsKnown(p) /\ p.start[Len(Windows)] = p.base
               /\ p.tracks = e.tracks /\ p.first = e.first /\ p.started = e.started
               /\ g \in Seq(Event) /\ g # <<>> /\ InOrder(g) /\ Placed(p, g, x.t)
               /\ Last(g) = x /\ (h # <<>> => g[1] = h[1]) /\ (h = <<>> => g[1] = x)
  <1> DEFINE d == DropOldest(e, [w \in W |-> Left(e, w, x.t)])
             f == FreeFront(d)
             p == Push(f, x)
             g == Append(h, x)
  <1>1. x.t \in Int
    BY PaymentsAssumption DEF Event
  <1>2. /\ d \in ExactEntry /\ Totals(d) /\ CardsKnown(d) /\ Placed(d, h, Later(x.t, last))
        /\ d.tracks = e.tracks /\ d.first = e.first /\ d.started = e.started
    BY <1>1, Advanced
  <1>3. Later(x.t, last) = x.t
    BY <1>1 DEF Later
  <1>4. f = ExpireExact(e, x.t)
    BY DEF ExpireExact
  <1> HIDE DEF d
  <1>5. \A w \in W : d.start[Len(Windows)] <= d.start[w]
    <2> TAKE w \in W
    <2>1. Len(Windows) \in W /\ (w = Len(Windows) \/ w < Len(Windows)) /\ d.start[w] \in Nat
      BY <1>2, Config, InsideFinite
    <2>2. CASE w < Len(Windows)
      BY <2>1, <2>2, <1>1, <1>2, <1>3, StartsNest
    <2> QED BY <2>1, <2>2
  <1>6. /\ f \in ExactEntry /\ Totals(f) /\ CardsKnown(f) /\ End(f) = End(d)
        /\ f.base = d.start[Len(Windows)] /\ f.start = d.start
        /\ \A s \in f.base .. End(d) - 1 : EvAt(f, s) = EvAt(d, s)
        /\ f.tracks = d.tracks /\ f.first = d.first /\ f.started = d.started
    BY <1>2, <1>5, FreeKeeps
  <1> HIDE DEF f
  <1>7. p \in ExactEntry /\ Totals(p) /\ CardsKnown(p)
    BY <1>6, PushKeeps
  <1>8. /\ p.base = f.base /\ p.start = f.start /\ End(p) = End(f) + 1
        /\ Len(p.ev) = Len(f.ev) + 1
        /\ \A s \in f.base .. End(f) - 1 : EvAt(p, s) = EvAt(f, s)
        /\ EvAt(p, End(f)) = x
        /\ p.tracks = f.tracks /\ p.first = f.first /\ p.started = f.started
    BY <1>6, PushTotals
  <1> HIDE DEF p
  <1> DEFINE l == Len(h) z == End(f) b == f.base
  <1>9. /\ l \in Nat /\ DOMAIN h = 1 .. l /\ z \in Nat /\ b \in Nat /\ Len(f.ev) \in Nat
        /\ z = b + Len(f.ev)
    <2>1. Len(Windows) \in W
      BY Config
    <2> QED BY <2>1, <1>6, HistoryTypes, InsideFinite
  <1>10. /\ g \in Seq(Event) /\ Len(g) = l + 1 /\ g[l + 1] = x /\ \A i \in 1 .. l : g[i] = h[i]
         /\ DOMAIN g = 1 .. l + 1 /\ g # <<>>
    BY Appended
  <1>11. InOrder(g)
    <2> SUFFICES ASSUME NEW i \in DOMAIN g, NEW j \in DOMAIN g, i <= j PROVE g[i].t <= g[j].t
      BY DEF InOrder
    <2>1. CASE j \in 1 .. l
      <3>1. i \in 1 .. l
        BY <2>1, <1>9, <1>10
      <3> QED BY <3>1, <2>1, <1>9, <1>10 DEF InOrder
    <2>2. CASE j = l + 1 /\ i \in 1 .. l
      BY <2>2, <1>9, <1>10
    <2>3. CASE j = l + 1 /\ i = l + 1
      BY <2>3, <1>1, <1>10
    <2> QED BY <2>1, <2>2, <2>3, <1>9, <1>10
  <1>12. /\ Last(g) = x /\ (h # <<>> => g[1] = h[1]) /\ (h = <<>> => g[1] = x)
    <2>1. Last(g) = x
      BY <1>10 DEF Last
    <2>2. h # <<>> => 1 \in 1 .. l
      BY <1>9, EmptySeq
    <2>3. h = <<>> => l = 0
      BY EmptySeq
    <2> QED BY <2>1, <2>2, <2>3, <1>10
  <1> HIDE DEF g, l
  <1>13. Len(f.ev) <= l /\ \A s \in b .. z - 1 : EvAt(f, s) = h[s + 1 + l - z]
    <2>1. /\ Len(d.ev) <= Len(h) /\ d.base \in Nat /\ d.base <= b /\ z = d.base + Len(d.ev)
          /\ Len(d.ev) \in Nat
          /\ \A s \in d.base .. End(d) - 1 : EvAt(d, s) = h[s + 1 + Len(h) - End(d)]
      <3>1. Len(Windows) \in W
        BY Config
      <3> QED BY <3>1, <1>2, <1>6, InsideFinite DEF Placed, Totals
    <2>2. Len(f.ev) <= l
      BY <2>1, <1>9 DEF l
    <2>3. ASSUME NEW s \in b .. z - 1 PROVE EvAt(f, s) = h[s + 1 + l - z]
      <3>1. s \in f.base .. End(d) - 1 /\ s \in d.base .. End(d) - 1
        BY <2>1, <1>6, <1>9
      <3> QED BY <3>1, <2>1, <1>6 DEF l
    <2> QED BY <2>2, <2>3
  <1> DEFINE y == End(p)
  <1>14. y = z + 1
    BY <1>8
  <1> HIDE DEF z, b, y
  <1>17. /\ l \in Nat /\ z \in Nat /\ b \in Nat /\ y = z + 1 /\ Len(g) = l + 1
    BY <1>9, <1>10, <1>14
  <1>15. Placed(p, g, x.t)
    <2>1. Len(p.ev) <= Len(g)
      BY <1>8, <1>9, <1>10, <1>13
    <2>2. ASSUME NEW s \in p.base .. y - 1 PROVE EvAt(p, s) = g[s + 1 + Len(g) - y]
      <3>1. p.base = b /\ s \in Int /\ b <= s /\ s <= z
        BY <1>8, <1>9, <1>14 DEF b
      <3>2. s + 1 + Len(g) - y = s + 1 + l - z
        BY <3>1, <1>9, <1>10, <1>14
      <3>3. CASE s = z
        <4>1. s + 1 + l - z = l + 1
          BY <3>3, <1>17
        <4> QED BY <4>1, <3>2, <3>3, <1>8, <1>10 DEF z
      <3>4. CASE s < z
        <4>1. s \in b .. z - 1
          BY <3>1, <3>4, <1>9
        <4>2. EvAt(p, s) = EvAt(f, s) /\ EvAt(f, s) = h[s + 1 + l - z]
          BY <4>1, <1>8, <1>13 DEF b, z
        <4> DEFINE c == Len(f.ev)
        <4>3. c \in Nat /\ z = b + c /\ c <= l
          BY <1>9, <1>13
        <4> HIDE DEF c
        <4>4. s + 1 + l - z \in 1 .. l
          BY <3>1, <4>1, <4>3, <1>9
        <4> QED BY <4>2, <4>4, <3>2, <1>10
      <3> QED BY <3>1, <3>3, <3>4, <1>9
    <2>3. ASSUME NEW w \in W, NEW i \in DOMAIN g
          PROVE  g[i].t > x.t - Windows[w] <=> i > Len(g) - (y - p.start[w])
      <3> DEFINE a == f.start[w]
      <3>1. a \in Nat /\ a <= z /\ p.start[w] = a /\ Windows[w] \in Nat \ {0}
        BY <1>6, <1>8, InsideFinite, Config DEF Totals, z
      <3>2. \A j \in DOMAIN h : h[j].t > x.t - Windows[w] <=> j > l - (z - a)
        BY <1>2, <1>3, <1>6 DEF Placed, l, z
      <3> HIDE DEF a
      <3>3. i > Len(g) - (y - p.start[w]) <=> i > l - (z - a)
        BY <3>1, <1>17
      <3>4. CASE i = l + 1
        <4>1. g[i].t > x.t - Windows[w]
          BY <3>1, <3>4, <1>1, <1>10
        <4>2. i > l - (z - a)
          BY <3>1, <3>4, <1>17
        <4> QED BY <4>1, <4>2, <3>3
      <3>5. CASE i \in 1 .. l
        BY <3>2, <3>3, <3>5, <1>9, <1>10
      <3> QED BY <3>4, <3>5, <1>9, <1>10
    <2> QED BY <2>1, <2>2, <2>3 DEF Placed, y
  <1>16. p.start[Len(Windows)] = p.base
    BY <1>6, <1>8
  <1> QED BY <1>2, <1>4, <1>6, <1>7, <1>8, <1>10, <1>11, <1>12, <1>15, <1>16 DEF p, g

(* The first and last times of an exact entry are set last.                *)
LEMMA TouchedFields ==
    ASSUME NEW e \in ExactEntry, NEW t \in Int
    PROVE  LET f == Touched(e, t)
           IN  /\ f \in ExactEntry /\ f.started /\ f.last = t
               /\ f.first = IF e.started THEN e.first ELSE t
               /\ f.ev = e.ev /\ f.base = e.base /\ f.start = e.start /\ f.count = e.count
               /\ f.milli = e.milli /\ f.tracks = e.tracks /\ f.cards = e.cards
               /\ f.distinct = e.distinct
  <1> DEFINE f == Touched(e, t)
             first == IF e.started THEN e.first ELSE t
  <1>1. e = [ev |-> e.ev, base |-> e.base, start |-> e.start, count |-> e.count,
             milli |-> e.milli, tracks |-> e.tracks, cards |-> e.cards,
             distinct |-> e.distinct, first |-> e.first, last |-> e.last,
             started |-> e.started]
    BY DEF ExactEntry
  <1>2. f = [e EXCEPT !.first = first, !.last = t, !.started = TRUE]
    BY <1>1 DEF Touched
  <1>3. first \in Int
    BY DEF ExactEntry
  <1> HIDE DEF f, first
  <1>4. f = [ev |-> e.ev, base |-> e.base, start |-> e.start, count |-> e.count,
             milli |-> e.milli, tracks |-> e.tracks, cards |-> e.cards,
             distinct |-> e.distinct, first |-> first, last |-> t, started |-> TRUE]
    BY <1>1, <1>2
  <1>5. f \in ExactEntry
    BY <1>3, <1>4 DEF ExactEntry
  <1> QED BY <1>4, <1>5 DEF f, first

(* Entries with the same events and totals.                                *)
LEMMA SameTotals ==
    ASSUME NEW e, NEW f, f.ev = e.ev, f.base = e.base, f.start = e.start, f.count = e.count,
           f.milli = e.milli, f.tracks = e.tracks, f.cards = e.cards, f.distinct = e.distinct
    PROVE  /\ Totals(e) => Totals(f)
           /\ CardsKnown(e) => CardsKnown(f)
           /\ \A h, now : Placed(e, h, now) => Placed(f, h, now)
  <1>1. End(f) = End(e) /\ \A s : EvAt(f, s) = EvAt(e, s)
    BY DEF End, EvAt
  <1>2. \A w : Inside(f, w) = Inside(e, w)
    BY <1>1 DEF Inside
  <1>3. \A S : MilliOf(f, S) = MilliOf(e, S)
    BY <1>1 DEF MilliOf
  <1>4. Totals(e) => Totals(f)
    BY <1>1, <1>2, <1>3 DEF Totals
  <1>5. CardsKnown(e) => CardsKnown(f)
    <2>1. \A S : {EvAt(e, s).card : s \in S} = {EvAt(f, s).card : s \in S}
      BY <1>1
    <2>2. \A c, S : LatestIn(e, c, S) => LatestIn(f, c, S)
      BY <1>1 DEF LatestIn
    <2> QED BY <1>2, <2>1, <2>2 DEF CardsKnown
  <1>6. \A h, now : Placed(e, h, now) => Placed(f, h, now)
    BY <1>1 DEF Placed
  <1> QED BY <1>4, <1>5, <1>6

(* An add to a new entry: a key seen for the first time, or idle.          *)
LEMMA AddToNew ==
    ASSUME NEW k, k.distinct \in BOOLEAN, NEW ev \in Event
    PROVE  ExactOf(AddExact(NewExact(k.distinct), ev), <<ev>>, k)
  <1> DEFINE e == NewExact(k.distinct)
             p == Push(ExpireExact(e, ev.t), ev)
             f == Touched(p, ev.t)
             g == Append(<<>>, ev)
  <1>1. /\ e \in ExactEntry /\ Totals(e) /\ CardsKnown(e) /\ End(e) = 0
        /\ e.ev = <<>> /\ e.base = 0 /\ e.tracks = k.distinct /\ ~e.started
    BY NewKeeps
  <1>2. ev.t \in Int /\ <<>> \in Seq(Event) /\ Len(<<>>) = 0 /\ DOMAIN <<>> = {}
    <2>1. ev.t \in Int
      BY PaymentsAssumption DEF Event
    <2>2. DOMAIN <<>> = {}
      OBVIOUS
    <2> QED BY <2>1, <2>2, EmptySeq
  <1>3. AddExact(e, ev) = f
    BY <1>1 DEF AddExact, Clamped
  <1>4. Placed(e, <<>>, ev.t)
    BY <1>1, <1>2 DEF Placed
  <1> HIDE DEF e
  <1>5. InOrder(<<>>) /\ \A i \in DOMAIN <<>> : <<>>[i].t <= ev.t
    BY <1>2 DEF InOrder
  <1>6. /\ p \in ExactEntry /\ Totals(p) /\ CardsKnown(p) /\ p.start[Len(Windows)] = p.base
        /\ p.tracks = e.tracks /\ p.started = e.started
        /\ g \in Seq(Event) /\ g # <<>> /\ InOrder(g) /\ Placed(p, g, ev.t)
        /\ Last(g) = ev /\ g[1] = ev
    <2> DEFINE h == <<>> last == ev.t
    <2>1. /\ h \in Seq(Event) /\ InOrder(h) /\ last \in Int /\ Placed(e, h, last) /\ last <= ev.t
          /\ \A i \in DOMAIN h : h[i].t <= ev.t
      BY <1>2, <1>4, <1>5
    <2>2. h = <<>>
      OBVIOUS
    <2> HIDE DEF h, last
    <2>3. /\ p \in ExactEntry /\ Totals(p) /\ CardsKnown(p) /\ p.start[Len(Windows)] = p.base
          /\ p.tracks = e.tracks /\ p.started = e.started
      BY <1>1, <2>1, Grown
    <2>4. /\ Append(h, ev) \in Seq(Event) /\ Append(h, ev) # <<>> /\ InOrder(Append(h, ev))
          /\ Placed(p, Append(h, ev), ev.t) /\ Last(Append(h, ev)) = ev
          /\ Append(h, ev)[1] = ev
      <3>1. Append(h, ev) \in Seq(Event) /\ Append(h, ev) # <<>> /\ Last(Append(h, ev)) = ev
        BY <1>1, <2>1, Grown
      <3>2. InOrder(Append(h, ev)) /\ Placed(p, Append(h, ev), ev.t)
        BY <1>1, <2>1, Grown
      <3>3. Append(h, ev)[1] = ev
        BY <1>1, <2>1, <2>2, Grown
      <3> QED BY <3>1, <3>2, <3>3
    <2> QED BY <2>2, <2>3, <2>4
  <1> HIDE DEF p
  <1>7. /\ f \in ExactEntry /\ f.started /\ f.last = ev.t /\ f.first = ev.t
        /\ f.ev = p.ev /\ f.base = p.base /\ f.start = p.start /\ f.count = p.count
        /\ f.milli = p.milli /\ f.tracks = p.tracks /\ f.cards = p.cards
        /\ f.distinct = p.distinct
    <2>1. f.first = IF p.started THEN p.first ELSE ev.t
      BY <1>2, <1>6, TouchedFields
    <2>2. /\ f \in ExactEntry /\ f.started /\ f.last = ev.t
          /\ f.ev = p.ev /\ f.base = p.base /\ f.start = p.start /\ f.count = p.count
          /\ f.milli = p.milli /\ f.tracks = p.tracks /\ f.cards = p.cards
          /\ f.distinct = p.distinct
      BY <1>2, <1>6, TouchedFields
    <2> HIDE DEF f
    <2> QED BY <2>1, <2>2, <1>1, <1>6
  <1>8. g = <<ev>>
    OBVIOUS
  <1> HIDE DEF f, g
  <1>9. Totals(f) /\ CardsKnown(f) /\ Placed(f, g, ev.t)
    BY <1>6, <1>7, SameTotals
  <1>10. ExactOf(f, g, k)
    BY <1>1, <1>6, <1>7, <1>9 DEF ExactOf
  <1> QED BY <1>3, <1>8, <1>10 DEF e

(* An add to a live entry, a late event at the key's latest time           *)
(* (exact.go:118-121).                                                     *)
LEMMA AddToLive ==
    ASSUME NEW e, NEW h \in Seq(Event), NEW k, ExactOf(e, h, k), NEW ev \in Event
    PROVE  /\ ExactOf(AddExact(e, ev), Append(h, IF ev.t < Last(h).t THEN [ev EXCEPT !.t = Last(h).t] ELSE ev), k)
           /\ (IF ev.t < Last(h).t THEN [ev EXCEPT !.t = Last(h).t] ELSE ev) \in Event
  <1> DEFINE x == IF ev.t < Last(h).t THEN [ev EXCEPT !.t = Last(h).t] ELSE ev
             p == Push(ExpireExact(e, x.t), x)
             f == Touched(p, x.t)
             g == Append(h, x)
             last == Last(h).t
  <1>1. /\ e \in ExactEntry /\ Totals(e) /\ CardsKnown(e) /\ InOrder(h) /\ Placed(e, h, e.last)
        /\ h # <<>> /\ e.tracks = k.distinct /\ e.first = h[1].t /\ e.last = Last(h).t /\ e.started
    BY DEF ExactOf
  <1>2. /\ Len(h) \in DOMAIN h /\ DOMAIN h = 1 .. Len(h) /\ last = h[Len(h)].t
        /\ last \in Int /\ last \in Moments /\ ev.t \in Int /\ ev.t \in Moments
        /\ \A i \in DOMAIN h : h[i].t \in Int /\ h[i].t <= last
    <2>1. Len(h) \in Nat \ {0} /\ DOMAIN h = 1 .. Len(h) /\ last = h[Len(h)].t
      BY <1>1, EmptySeq, HistoryTypes DEF Last
    <2>2. Len(h) \in DOMAIN h
      BY <2>1
    <2>3. \A i \in DOMAIN h : h[i].t \in Int /\ h[i].t <= last
      BY <2>1, <2>2, <1>1, HistoryTypes DEF InOrder
    <2> QED BY <2>1, <2>2, <2>3, HistoryTypes, PaymentsAssumption DEF Event
  <1>3. /\ x \in Event /\ x.t \in Int /\ last <= x.t
    <2>1. CASE ev.t < last
      <3>1. x = [t |-> last, milli |-> ev.milli, card |-> ev.card]
        BY <2>1 DEF Event
      <3>2. ev.milli \in Int /\ ev.card \in Cards
        BY DEF Event
      <3> HIDE DEF x, last
      <3> QED BY <3>1, <3>2, <1>2 DEF Event
    <2>2. CASE ~(ev.t < last)
      BY <2>2, <1>2
    <2> QED BY <2>1, <2>2
  <1>4. AddExact(e, ev) = f
    <2>1. Clamped(e, ev) = x
      BY <1>1 DEF Clamped
    <2> HIDE DEF x
    <2> QED BY <2>1 DEF AddExact
  <1>5. Placed(e, h, last)
    BY <1>1
  <1> HIDE DEF x, last
  <1>6. \A i \in DOMAIN h : h[i].t <= x.t
    BY <1>2, <1>3
  <1>7. /\ p \in ExactEntry /\ Totals(p) /\ CardsKnown(p) /\ p.start[Len(Windows)] = p.base
        /\ p.tracks = e.tracks /\ p.first = e.first /\ p.started = e.started
        /\ g \in Seq(Event) /\ g # <<>> /\ InOrder(g) /\ Placed(p, g, x.t)
        /\ Last(g) = x /\ g[1] = h[1]
    <2>1. /\ p \in ExactEntry /\ Totals(p) /\ CardsKnown(p) /\ p.start[Len(Windows)] = p.base
          /\ p.tracks = e.tracks /\ p.first = e.first /\ p.started = e.started
      BY <1>1, <1>2, <1>3, <1>5, <1>6, Grown
    <2>2. /\ g \in Seq(Event) /\ g # <<>> /\ InOrder(g) /\ Placed(p, g, x.t)
          /\ Last(g) = x /\ g[1] = h[1]
      BY <1>1, <1>2, <1>3, <1>5, <1>6, Grown
    <2> QED BY <2>1, <2>2
  <1> HIDE DEF p
  <1>8. /\ f \in ExactEntry /\ f.started /\ f.last = x.t /\ f.first = p.first
        /\ f.ev = p.ev /\ f.base = p.base /\ f.start = p.start /\ f.count = p.count
        /\ f.milli = p.milli /\ f.tracks = p.tracks /\ f.cards = p.cards
        /\ f.distinct = p.distinct
    <2>1. f.first = IF p.started THEN p.first ELSE x.t
      <3> DEFINE t == x.t
      <3>1. t \in Int /\ p \in ExactEntry
        BY <1>3, <1>7
      <3> HIDE DEF t
      <3>2. Touched(p, t).first = IF p.started THEN p.first ELSE t
        BY <3>1, TouchedFields
      <3> QED BY <3>2 DEF t
    <2>2. /\ f \in ExactEntry /\ f.started /\ f.last = x.t
          /\ f.ev = p.ev /\ f.base = p.base /\ f.start = p.start /\ f.count = p.count
          /\ f.milli = p.milli /\ f.tracks = p.tracks /\ f.cards = p.cards
          /\ f.distinct = p.distinct
      BY <1>3, <1>7, TouchedFields
    <2> HIDE DEF f
    <2> QED BY <2>1, <2>2, <1>1, <1>7
  <1> HIDE DEF f, g
  <1>9. Totals(f) /\ CardsKnown(f) /\ Placed(f, g, x.t)
    BY <1>7, <1>8, SameTotals
  <1>10. ExactOf(f, g, k)
    BY <1>1, <1>7, <1>8, <1>9 DEF ExactOf
  <1> QED BY <1>3, <1>4, <1>10 DEF g, x

(* A restored exact entry knows the same history.                          *)
LEMMA RestartOfExact ==
    ASSUME NEW e, NEW h \in Seq(Event), NEW k, ExactOf(e, h, k)
    PROVE  LET d == DecodeExact(EncodeExact(e))
           IN  ExactOf(d, h, k) /\ EncodeExact(d) = EncodeExact(e)
  <1> DEFINE s == EncodeExact(e)
             p == Pushed(Started(NewExact(s.tracks), s), s.ev)
             n == [w \in W |-> e.start[w] - e.base]
             d == DropOldest(p, FrontOf(p, n))
             l == Len(e.ev)
  <1>1. /\ e \in ExactEntry /\ Totals(e) /\ CardsKnown(e) /\ InOrder(h) /\ Placed(e, h, e.last)
        /\ h # <<>> /\ e.tracks = k.distinct /\ e.first = h[1].t /\ e.last = Last(h).t /\ e.started
        /\ e.start[Len(Windows)] = e.base
    BY DEF ExactOf
  <1>2. /\ s.first = e.first /\ s.last = e.last /\ s.ev = e.ev /\ s.tracks = e.tracks
        /\ s.starts = n
    BY DEF EncodeExact
  <1>3. /\ e.first \in Int /\ e.last \in Int /\ e.tracks \in BOOLEAN /\ e.ev \in Seq(Event)
    BY <1>1 DEF ExactEntry
  <1> HIDE DEF s
  <1>4. /\ p \in ExactEntry /\ Totals(p) /\ CardsKnown(p)
        /\ p.ev = e.ev /\ p.base = 0 /\ p.start = Zero /\ p.tracks = e.tracks
        /\ p.first = e.first /\ p.last = e.last /\ p.started
    BY <1>2, <1>3, Rebuilt
  <1>5. \A w \in W : /\ n[w] \in Nat /\ e.start[w] \in Nat /\ e.base \in Nat /\ l \in Nat
                     /\ n[w] = e.start[w] - e.base /\ n[w] <= l /\ End(e) = e.base + l
    <2> TAKE w \in W
    <2>1. e.start[w] \in Nat /\ e.base \in Nat /\ l \in Nat /\ End(e) = e.base + l
          /\ e.base <= e.start[w] /\ e.start[w] <= End(e)
      BY <1>1, InsideFinite DEF Totals
    <2>2. n[w] = e.start[w] - e.base
      OBVIOUS
    <2> HIDE DEF n, l
    <2> QED BY <2>1, <2>2
  <1>6. DecodeExact(s) = DropOldest(p, [w \in W |-> 0 .. n[w] - 1])
    BY <1>2 DEF DecodeExact
  <1> HIDE DEF p, n
  <1>7. End(p) = l
    BY <1>4, <1>5, Config DEF End
  <1>8. n \in [W -> Nat] /\ \A w \in W : p.start[w] = 0 /\ p.start[w] + n[w] <= End(p)
    <2>1. \A w \in W : p.start[w] = 0
      BY <1>4 DEF Zero
    <2>2. n = [w \in W |-> n[w]]
      BY DEF n
    <2> QED BY <2>1, <2>2, <1>5, <1>7
  <1>9. DecodeExact(s) = d
    <2>1. \A w \in W : 0 .. n[w] - 1 = p.start[w] .. p.start[w] + n[w] - 1
      BY <1>5, <1>8
    <2>2. FrontOf(p, n) = [w \in W |-> 0 .. n[w] - 1]
      BY <2>1 DEF FrontOf
    <2> QED BY <2>2, <1>6
  <1>10. d \in ExactEntry /\ CardsKnown(d)
    BY <1>4, <1>8, Dropped, DropCards
  <1>11. Totals(d) /\ End(d) = End(p) /\ \A r : EvAt(d, r) = EvAt(p, r)
    BY <1>4, <1>8, DropTotals
  <1>12. /\ d.ev = p.ev /\ d.base = p.base /\ d.tracks = p.tracks
         /\ d.first = p.first /\ d.last = p.last /\ d.started = p.started
         /\ d.start = [w \in W |-> p.start[w] + n[w]]
    BY <1>4, <1>8, DropFields
  <1>13. \A w \in W : d.start[w] = n[w]
    BY <1>5, <1>8, <1>12
  <1> HIDE DEF d, l
  <1>14. Placed(d, h, e.last)
    <2>1. Len(d.ev) <= Len(h) /\ Len(h) \in Nat
      BY <1>1, <1>4, <1>12, HistoryTypes DEF Placed
    <2>2. ASSUME NEW r \in d.base .. End(d) - 1 PROVE EvAt(d, r) = h[r + 1 + Len(h) - End(d)]
      <3> DEFINE b == e.base q == r + b z == End(e) m == Len(h)
      <3>1. d.base = 0 /\ End(d) = l /\ b \in Nat /\ l \in Nat /\ z = b + l /\ m \in Nat
        BY <1>4, <1>5, <1>7, <1>11, <1>12, <2>1, Config
      <3>2. r \in 0 .. l - 1
        BY <3>1
      <3>3. EvAt(d, r) = e.ev[r + 1]
        <4>1. r - 0 + 1 = r + 1
          BY <3>2
        <4> QED BY <4>1, <1>4, <1>12 DEF EvAt
      <3> HIDE DEF b, z, m
      <3>4. q \in b .. z - 1 /\ q - b + 1 = r + 1 /\ q + 1 + m - z = r + 1 + m - l
        BY <3>1, <3>2
      <3>5. EvAt(e, q) = e.ev[r + 1]
        BY <3>4 DEF EvAt, b
      <3>6. EvAt(e, q) = h[q + 1 + m - z]
        BY <3>4, <1>1 DEF Placed, b, z, m
      <3> QED BY <3>1, <3>3, <3>4, <3>5, <3>6 DEF m
    <2>3. ASSUME NEW w \in W, NEW i \in DOMAIN h
          PROVE  h[i].t > e.last - Windows[w] <=> i > Len(h) - (End(d) - d.start[w])
      <3>1. h[i].t > e.last - Windows[w] <=> i > Len(h) - (End(e) - e.start[w])
        BY <1>1 DEF Placed
      <3>2. End(e) - e.start[w] = End(d) - d.start[w]
        BY <1>5, <1>7, <1>11, <1>13
      <3> QED BY <3>1, <3>2
    <2> QED BY <2>1, <2>2, <2>3 DEF Placed
  <1>15. d.start[Len(Windows)] = d.base
    BY <1>1, <1>4, <1>5, <1>12, <1>13, Config
  <1>16. ExactOf(d, h, k)
    BY <1>1, <1>4, <1>10, <1>11, <1>12, <1>14, <1>15 DEF ExactOf
  <1>17. EncodeExact(d) = s
    <2>1. [w \in W |-> d.start[w] - d.base] = n
      <3>1. \A w \in W : d.start[w] - d.base = n[w]
        BY <1>4, <1>5, <1>12, <1>13
      <3>2. n = [w \in W |-> n[w]]
        BY DEF n
      <3> QED BY <3>1, <3>2
    <2>2. s = [first |-> e.first, last |-> e.last, ev |-> e.ev, tracks |-> e.tracks, starts |-> n]
      BY DEF s, n, EncodeExact
    <2> QED BY <2>1, <2>2, <1>4, <1>12 DEF EncodeExact
  <1> QED BY <1>9, <1>16, <1>17 DEF s

-----------------------------------------------------------------------------
(* Division rounds towards minus infinity; sums by groups.                 *)

(* The quotient, by what it satisfies.                                     *)
LEMMA Division ==
    ASSUME NEW a \in Int, NEW p \in Nat \ {0}
    PROVE  /\ a \div p \in Int
           /\ p * (a \div p) <= a /\ a < p * (a \div p) + p
  OBVIOUS

(* Whatever satisfies it is the quotient.                                  *)
LEMMA DivisionIs ==
    ASSUME NEW a \in Int, NEW p \in Nat \ {0}, NEW q \in Int, p * q <= a, a < p * q + p
    PROVE  a \div p = q
  <1>1. a \div p \in Int /\ p * (a \div p) <= a /\ a < p * (a \div p) + p
    BY Division
  <1> DEFINE r == a \div p
  <1> HIDE DEF r
  <1>2. r \in Int /\ p * r <= a /\ a < p * r + p
    BY <1>1 DEF r
  <1>3. p * (q - r) < p /\ p * (r - q) < p
    BY <1>2
  <1>4. q - r < 1 /\ r - q < 1
    BY <1>2, <1>3
  <1> QED BY <1>2, <1>4 DEF r

(* Division keeps the order.                                               *)
LEMMA DivisionMonotone ==
    ASSUME NEW a \in Int, NEW b \in Int, NEW p \in Nat \ {0}, a <= b
    PROVE  a \div p <= b \div p
  <1> DEFINE r == a \div p s == b \div p
  <1>1. r \in Int /\ s \in Int /\ p * r <= a /\ b < p * s + p
    BY Division
  <1> HIDE DEF r, s
  <1>2. p * (r - s) < p
    BY <1>1
  <1>3. r - s < 1
    BY <1>1, <1>2
  <1> QED BY <1>1, <1>3 DEF r, s

(* A multiple of the divisor can be taken out.                             *)
LEMMA DivisionShifts ==
    ASSUME NEW a \in Int, NEW p \in Nat \ {0}, NEW m \in Nat, m % p = 0
    PROVE  /\ (a - m) \div p = a \div p - m \div p
           /\ p * (m \div p) = m
  <1> DEFINE r == a \div p s == m \div p
  <1>1. r \in Int /\ p * r <= a /\ a < p * r + p /\ s \in Int
    BY Division
  <1>2. p * s = m
    OBVIOUS
  <1> HIDE DEF r, s
  <1>3. p * (r - s) = p * r - p * s
    BY <1>1
  <1>4. p * (r - s) <= a - m /\ a - m < p * (r - s) + p /\ r - s \in Int
    BY <1>1, <1>2, <1>3
  <1>5. (a - m) \div p = r - s
    BY <1>4, DivisionIs
  <1> QED BY <1>2, <1>5 DEF r, s

(* The oldest bucket of a window is the one its trailing edge is in.       *)
LEMMA Buckets ==
    ASSUME NEW w \in W
    PROVE  /\ \A t \in Int : BucketOf(w, t) \in Int /\ Oldest(w, t) \in Int
           /\ \A t, u \in Int : t <= u => BucketOf(w, t) <= BucketOf(w, u) /\ Oldest(w, t) <= Oldest(w, u)
           /\ \A t \in Int : Oldest(w, t) <= BucketOf(w, t)
           /\ \A t, now \in Int : t > now - Windows[w] => BucketOf(w, t) >= Oldest(w, now)
           /\ \A t, now \in Int : BucketOf(w, t) >= Oldest(w, now) => t > now - (Windows[w] + Plan[w])
           /\ \A t \in Int : BucketOf(w, t) - Oldest(w, t) = Windows[w] \div Plan[w]
           /\ Windows[w] \div Plan[w] \in Nat
  <1> DEFINE p == Plan[w] m == Windows[w] s == m \div p
  <1>1. p \in Nat \ {0} /\ m \in Nat \ {0} /\ m % p = 0
    BY Config
  <1>3. \A t : BucketOf(w, t) = t \div p /\ Oldest(w, t) = t \div p - s
    BY DEF BucketOf, Oldest
  <1> HIDE DEF p, m
  <1>2. s \in Int /\ p * s = m
    <2>1. m \in Int /\ m \in Nat /\ 0 \in Int
      BY <1>1
    <2>2. s \in Int
      BY <1>1, <2>1, Division
    <2>3. p * (m \div p) = m
      BY <1>1, <2>1, DivisionShifts
    <2> QED BY <2>2, <2>3
  <1>4. \A t \in Int : t \div p \in Int
    BY <1>1, Division
  <1>5. \A t, u \in Int : t <= u => t \div p <= u \div p
    BY <1>1, DivisionMonotone
  <1>6. \A t \in Int : (t - m) \div p = t \div p - s
    BY <1>1, DivisionShifts
  <1>7. s \in Nat
    <2>1. 0 \div p = 0
      <3>1. p * 0 = 0
        BY <1>1
      <3> QED BY <1>1, <3>1, DivisionIs
    <2>2. 0 \div p <= m \div p
      BY <1>1, <1>5
    <2> QED BY <2>1, <2>2, <1>2
  <1>8. ASSUME NEW t \in Int, NEW now \in Int, t > now - m
        PROVE  t \div p >= now \div p - s
    <2>1. (now - m) \div p <= t \div p
      BY <1>1, <1>5, <1>8
    <2> QED BY <2>1, <1>6
  <1>9. ASSUME NEW t \in Int, NEW now \in Int, t \div p >= now \div p - s
        PROVE  t > now - (m + p)
    <2> DEFINE a == t \div p b == (now - m) \div p
    <2>1. a \in Int /\ b \in Int /\ p * a <= t /\ now - m < p * b + p
      BY <1>1, Division
    <2>2. b <= a
      BY <1>6, <1>9
    <2> HIDE DEF a, b
    <2>3. p * b <= p * a
      BY <1>1, <2>1, <2>2
    <2>4. p * a \in Int /\ p * b \in Int
      BY <1>1, <2>1
    <2> QED BY <1>1, <2>1, <2>3, <2>4
  <1> HIDE DEF s
  <1>10. \A t \in Int : t \div p - s \in Int /\ t \div p - s <= t \div p /\ t \div p - (t \div p - s) = s
    BY <1>4, <1>7
  <1>11. \A t, u \in Int : t <= u => t \div p - s <= u \div p - s
    BY <1>4, <1>5, <1>7
  <1>12. /\ \A t \in Int : BucketOf(w, t) \in Int /\ Oldest(w, t) \in Int
         /\ \A t \in Int : Oldest(w, t) <= BucketOf(w, t)
         /\ \A t \in Int : BucketOf(w, t) - Oldest(w, t) = s
    BY <1>3, <1>4, <1>10
  <1>13. \A t, u \in Int : t <= u => BucketOf(w, t) <= BucketOf(w, u) /\ Oldest(w, t) <= Oldest(w, u)
    BY <1>3, <1>5, <1>11
  <1>14. \A t, now \in Int : t > now - m => BucketOf(w, t) >= Oldest(w, now)
    BY <1>3, <1>8
  <1>15. \A t, now \in Int : BucketOf(w, t) >= Oldest(w, now) => t > now - (m + p)
    BY <1>3, <1>9
  <1> QED BY <1>7, <1>12, <1>13, <1>14, <1>15 DEF p, m, s

(* The buckets of a window hold what is in a window at most a bucket       *)
(* longer.                                                                 *)
LEMMA Trailing ==
    ASSUME NEW w \in W, NEW now \in Int
    PROVE  \E late \in 0 .. Plan[w] : \A t \in Int :
             BucketOf(w, t) >= Oldest(w, now) <=> now - (Windows[w] + late) < t
  <1> DEFINE p == Plan[w] m == Windows[w] b == (now - m) \div p
  <1>1. p \in Nat \ {0} /\ m \in Nat \ {0} /\ m % p = 0
    BY Config
  <1>2. \A t : BucketOf(w, t) = t \div p /\ Oldest(w, t) = t \div p - m \div p
    BY DEF BucketOf, Oldest
  <1> HIDE DEF p, m
  <1>3. Oldest(w, now) = b
    <2>1. (now - m) \div p = now \div p - m \div p
      BY <1>1, DivisionShifts
    <2> QED BY <1>2, <2>1
  <1>4. b \in Int /\ p * b <= now - m /\ now - m < p * b + p
    BY <1>1, Division
  <1> HIDE DEF b
  <1> DEFINE e == p * b late == now - m - e + 1
  <1>5. e \in Int /\ late \in 0 .. p /\ now - (m + late) = e - 1
    BY <1>1, <1>4
  <1>6. ASSUME NEW t \in Int PROVE t \div p >= b <=> e <= t
    <2>1. t \div p \in Int /\ p * (t \div p) <= t
      BY <1>1, Division
    <2>2. ASSUME t \div p >= b PROVE e <= t
      <3> DEFINE a == t \div p
      <3>1. a \in Int /\ p * a <= t /\ b <= a
        BY <2>1, <2>2, <1>4
      <3> HIDE DEF a
      <3>2. p * b <= p * a /\ p * a \in Int
        BY <1>1, <1>4, <3>1
      <3> QED BY <1>5, <3>1, <3>2
    <2>3. ASSUME e <= t PROVE t \div p >= b
      <3>1. e < p * b + p /\ p * b <= e
        BY <1>1, <1>4
      <3>2. e \div p = b
        BY <1>1, <1>4, <1>5, <3>1, DivisionIs
      <3> HIDE DEF e
      <3>3. e \div p <= t \div p
        BY <1>1, <1>5, <2>3, DivisionMonotone
      <3> QED BY <1>4, <2>1, <3>2, <3>3
    <2> QED BY <2>2, <2>3
  <1> HIDE DEF e, late
  <1>7. \A t \in Int : BucketOf(w, t) >= Oldest(w, now) <=> now - (m + late) < t
    BY <1>2, <1>3, <1>5, <1>6
  <1> QED BY <1>5, <1>7 DEF p, m

-----------------------------------------------------------------------------
(* A sum of ones counts.                                                   *)
LEMMA SumOfOnes ==
    ASSUME NEW S, IsFiniteSet(S), NEW f, \A x \in S : f[x] = 1
    PROVE  SumFunctionOnSet(f, S) = Cardinality(S)
  <1> DEFINE Good(s) == SumFunctionOnSet(f, s) = Cardinality(s)
             Bad == {n \in Nat : \E s \in SUBSET S : Cardinality(s) = n /\ ~Good(s)}
  <1>1. \A s \in SUBSET S : IsFiniteSet(s) /\ Cardinality(s) \in Nat
    BY FS_Subset, FS_CardinalityType
  <1>2. SUFFICES ASSUME ~Good(S) PROVE FALSE
    OBVIOUS
  <1>3. Cardinality(S) \in Bad /\ Bad \subseteq Nat
    BY <1>1, <1>2
  <1>4. /\ \A n \in Bad : \E s \in SUBSET S : Cardinality(s) = n /\ ~Good(s)
        /\ \A s \in SUBSET S : ~Good(s) => Cardinality(s) \in Bad
    BY <1>1
  <1> HIDE DEF Bad, Good
  <1>5. PICK m \in Bad : \A n \in Bad : m <= n
    BY <1>3, LeastNat
  <1>6. PICK s \in SUBSET S : Cardinality(s) = m /\ ~Good(s)
    BY <1>4
  <1>7. s # {}
    BY <1>6, SumEmpty, FS_EmptySet DEF Good
  <1>8. PICK x \in s : TRUE
    BY <1>7
  <1> DEFINE r == s \ {x}
  <1>9. /\ r \in SUBSET S /\ Cardinality(r) \in Nat /\ Cardinality(s) = Cardinality(r) + 1
    BY FewerWithout
  <1>10. SumFunctionOnSet(f, s) = f[x] + SumFunctionOnSet(f, r)
    <2>1. IsFiniteSet(s) /\ \A y \in s : f[y] \in Int
      BY <1>1
    <2> QED BY <2>1, SumWithout
  <1> HIDE DEF r
  <1>11. Good(r)
    <2>1. SUFFICES ASSUME ~Good(r) PROVE FALSE
      OBVIOUS
    <2>2. Cardinality(r) \in Bad
      BY <2>1, <1>4, <1>9
    <2> QED BY <2>2, <1>5, <1>6, <1>9
  <1>12. f[x] = 1
    OBVIOUS
  <1> QED BY <1>6, <1>9, <1>10, <1>11, <1>12 DEF Good

(* n groups g[i] of S by their value idx[i] of b, and u all of them.       *)
Groups(g, u, n, S, b, idx) ==
    /\ \A i, j \in 1 .. n : idx[i] = idx[j] => i = j
    /\ \A i \in 1 .. n : g[i] \subseteq S /\ \A x \in S : x \in g[i] <=> b[x] = idx[i]
    /\ u \subseteq S /\ \A x \in S : x \in u <=> \E i \in 1 .. n : b[x] = idx[i]

(* A sum by groups: v[i] is the sum of f over the elements of group i.     *)
LEMMA GroupedSum ==
    ASSUME NEW S, IsFiniteSet(S), NEW f, \A x \in S : f[x] \in Int, NEW b, NEW idx,
           NEW n \in Nat, NEW g, NEW u, Groups(g, u, n, S, b, idx),
           NEW v, \A i \in 1 .. n : v[i] = SumFunctionOnSet(f, g[i])
    PROVE  SumFunctionOnSet(v, 1 .. n) = SumFunctionOnSet(f, u)
  <1>0. /\ \A i, j \in 1 .. n : idx[i] = idx[j] => i = j
        /\ \A i \in 1 .. n : g[i] \subseteq S /\ \A x \in S : x \in g[i] <=> b[x] = idx[i]
        /\ u \subseteq S /\ \A x \in S : x \in u <=> \E i \in 1 .. n : b[x] = idx[i]
    BY DEF Groups
  <1> USE <1>0
  <1> DEFINE G(i) == g[i]
             U(m) == {x \in S : \E i \in 1 .. m : b[x] = idx[i]}
             Good(m) == SumFunctionOnSet(v, 1 .. m) = SumFunctionOnSet(f, U(m))
             Bad == {m \in Nat : m <= n /\ ~Good(m)}
  <1>1. SUFFICES ASSUME ~Good(n) PROVE FALSE
    OBVIOUS
  <1>2. n \in Bad /\ Bad \subseteq Nat /\ \A m \in Bad : m <= n /\ ~Good(m)
    BY <1>1
  <1>3. \A m \in Nat : m <= n /\ ~Good(m) => m \in Bad
    OBVIOUS
  <1> HIDE DEF Bad
  <1>4. PICK m \in Bad : \A k \in Bad : m <= k
    BY <1>2, LeastNat
  <1>5. m # 0
    <2>1. SUFFICES ASSUME m = 0 PROVE FALSE
      OBVIOUS
    <2>2. 1 .. m = {} /\ U(m) = {}
      BY <2>1
    <2> HIDE DEF U
    <2>3. Good(m)
      BY <2>2, SumEmpty
    <2> QED BY <2>3, <1>2
  <1>6. m \in 1 .. n /\ m - 1 \in Nat /\ m - 1 <= n /\ m - 1 \notin Bad
    BY <1>2, <1>4, <1>5
  <1>7. Good(m - 1)
    BY <1>3, <1>6
  <1>8. /\ U(m) = U(m - 1) \cup G(m) /\ U(m - 1) \cap G(m) = {}
        /\ U(m - 1) \subseteq S /\ G(m) \subseteq S
    <2>1. 1 .. m = 1 .. m - 1 \cup {m}
      BY <1>6
    <2>2. \A i \in 1 .. m - 1 : i \in 1 .. n /\ i # m
      BY <1>6
    <2> QED BY <2>1, <2>2, <1>6
  <1>9. \A i \in 1 .. n : SumFunctionOnSet(f, g[i]) \in Int
    <2> TAKE i \in 1 .. n
    <2> DEFINE t == g[i]
    <2>1. t \in SUBSET S
      OBVIOUS
    <2> HIDE DEF t
    <2>2. IsFiniteSet(t) /\ \A x \in t : f[x] \in Int
      BY <2>1, FS_Subset
    <2>3. SumFunctionOnSet(f, t) \in Int
      BY <2>2, SumOfParts, FS_EmptySet
    <2> QED BY <2>3 DEF t
  <1>10. SumFunctionOnSet(f, U(m)) = SumFunctionOnSet(f, U(m - 1)) + SumFunctionOnSet(f, G(m))
    <2> DEFINE a == U(m - 1) c == G(m) d == U(m)
    <2>1. a \in SUBSET S /\ c \in SUBSET S /\ d = a \cup c /\ a \cap c = {}
      BY <1>8
    <2> HIDE DEF a, c, d
    <2>2. IsFiniteSet(a) /\ IsFiniteSet(c) /\ \A x \in a \cup c : f[x] \in Int
      BY <2>1, FS_Subset
    <2>3. a \cap c = {} /\ IsFiniteSet(a) /\ IsFiniteSet(c) /\ \A x \in a \cup c : f[x] \in Int
      BY <2>1, <2>2
    <2>4. SumFunctionOnSet(f, a \cup c) = SumFunctionOnSet(f, a) + SumFunctionOnSet(f, c)
      BY ONLY <2>3, SumOfParts
    <2> QED BY <2>1, <2>4 DEF a, c, d
  <1>11. SumFunctionOnSet(v, 1 .. m) = v[m] + SumFunctionOnSet(v, 1 .. m - 1)
    <2>1. IsFiniteSet(1 .. m) /\ (1 .. m) \ {m} = 1 .. m - 1 /\ m \in 1 .. m
      <3>1. m \in Nat /\ m # 0
        BY <1>6
      <3>2. IsFiniteSet(1 .. m)
        BY <3>1, FS_Interval
      <3> QED BY <3>1, <3>2
    <2>2. \A i \in 1 .. m : v[i] \in Int
      <3>1. \A i \in 1 .. m : i \in 1 .. n
        BY <1>6
      <3> QED BY <3>1, <1>9
    <2>3. SumFunctionOnSet(v, 1 .. m) = v[m] + SumFunctionOnSet(v, (1 .. m) \ {m})
      BY <2>1, <2>2, SumWithout
    <2> QED BY <2>1, <2>3
  <1>12. SumFunctionOnSet(f, U(m - 1)) \in Int /\ v[m] \in Int /\ v[m] = SumFunctionOnSet(f, G(m))
    <2>1. v[m] \in Int /\ v[m] = SumFunctionOnSet(f, G(m))
      BY <1>6, <1>9
    <2>2. U(m - 1) \in SUBSET S
      BY <1>8
    <2> HIDE DEF U
    <2>3. IsFiniteSet(U(m - 1)) /\ \A x \in U(m - 1) : f[x] \in Int
      BY <2>2, FS_Subset
    <2>4. SumFunctionOnSet(f, U(m - 1)) \in Int
      BY <2>3, SumOfParts, FS_EmptySet
    <2> QED BY <2>1, <2>4
  <1> HIDE DEF U, G
  <1>13. Good(m)
    BY <1>7, <1>10, <1>11, <1>12
  <1> QED BY <1>2, <1>13

-----------------------------------------------------------------------------
(* The buckets of one window: which events they hold, what expires, and    *)
(* one event more.                                                         *)

(* The buckets that occur.                                                 *)
Bucket == [idx : Int, count : Int, milli : Int, lastCards : Int]
(* The events of the history in bucket i of window w.                      *)
InBucket(h, w, i) == {j \in DOMAIN h : BucketOf(w, h[j].t) = i}
(* The events from bucket old on.                                          *)
InSpan(h, w, old) == {j \in DOMAIN h : BucketOf(w, h[j].t) >= old}
(* The buckets' indices increase.                                          *)
Increasing(q)     == \A i, j \in DOMAIN q : i < j => q[i].idx < q[j].idx
(* The buckets at the front that are older than old.                       *)
Older(q, old)     == {i \in DOMAIN q : \A j \in 1 .. i : q[j].idx < old}
(* q holds the buckets of window w from bucket old to bucket new.          *)
Queue(q, h, w, old, new) ==
    /\ q \in Seq(Bucket) /\ Increasing(q)
    /\ \A i \in DOMAIN q : /\ old <= q[i].idx /\ q[i].idx <= new
                           /\ q[i].count = Cardinality(InBucket(h, w, q[i].idx))
                           /\ q[i].count > 0
                           /\ q[i].milli = MilliSum(h, InBucket(h, w, q[i].idx))
    /\ \A j \in InSpan(h, w, old) : \E i \in DOMAIN q : q[i].idx = BucketOf(w, h[j].t)

(* The fields of the buckets.                                              *)
LEMMA QueueTypes ==
    ASSUME NEW q \in Seq(Bucket)
    PROVE  /\ Len(q) \in Nat /\ DOMAIN q = 1 .. Len(q)
           /\ \A i \in DOMAIN q : /\ q[i] \in Bucket /\ q[i].idx \in Int /\ q[i].count \in Int
                                  /\ q[i].milli \in Int /\ q[i].lastCards \in Int
  <1>1. Len(q) \in Nat /\ DOMAIN q = 1 .. Len(q)
    BY LenProperties
  <1>2. \A i \in DOMAIN q : q[i] \in Bucket
    BY <1>1, ElementOfSeq
  <1> QED BY <1>1, <1>2 DEF Bucket

(* The numbers up to n.                                                    *)
LEMMA IntervalFinite ==
    ASSUME NEW n \in Nat
    PROVE  IsFiniteSet(1 .. n) /\ Cardinality(1 .. n) = n
  BY FS_Interval

(* A part of the amounts and events of a history, and what is left.        *)
LEMMA MilliSumParts ==
    ASSUME NEW h \in Seq(Event), NEW S \in SUBSET DOMAIN h, NEW T \in SUBSET S
    PROVE  /\ IsFiniteSet(S) /\ IsFiniteSet(T)
           /\ MilliSum(h, S) \in Int /\ MilliSum(h, T) \in Int
           /\ MilliSum(h, S \ T) = MilliSum(h, S) - MilliSum(h, T)
           /\ Cardinality(S) \in Nat /\ Cardinality(T) \in Nat /\ Cardinality(T) <= Cardinality(S)
           /\ Cardinality(S \ T) = Cardinality(S) - Cardinality(T)
  <1> DEFINE R == S \ T
  <1>1. /\ IsFiniteSet(S) /\ IsFiniteSet(T) /\ IsFiniteSet(R) /\ R \cap T = {} /\ R \cup T = S
        /\ \A j \in S : h[j].milli \in Int
    BY HistoryTypes, IntervalFinite, FS_Subset
  <1> HIDE DEF R
  <1> DEFINE f == [j \in S |-> h[j].milli]
             g == [j \in T |-> h[j].milli]
             r == [j \in R |-> h[j].milli]
  <1>2. /\ MilliSum(h, S) = SumFunctionOnSet(f, S)
        /\ MilliSum(h, T) = SumFunctionOnSet(g, T)
        /\ MilliSum(h, R) = SumFunctionOnSet(r, R)
    BY DEF MilliSum, SumFunction
  <1>3. /\ \A j \in R \cup T : f[j] \in Int
        /\ \A j \in T : f[j] \in Int /\ g[j] = f[j]
        /\ \A j \in R : f[j] \in Int /\ r[j] = f[j]
    BY <1>1
  <1> HIDE DEF f, g, r
  <1>4. SumFunctionOnSet(g, T) = SumFunctionOnSet(f, T)
    BY <1>1, <1>3, SumSame
  <1>5. SumFunctionOnSet(r, R) = SumFunctionOnSet(f, R)
    BY <1>1, <1>3, SumSame
  <1>6. /\ SumFunctionOnSet(f, R) \in Int /\ SumFunctionOnSet(f, T) \in Int
        /\ SumFunctionOnSet(f, R \cup T) = SumFunctionOnSet(f, R) + SumFunctionOnSet(f, T)
    BY <1>1, <1>3, SumOfParts
  <1>7. /\ Cardinality(S) \in Nat /\ Cardinality(T) \in Nat /\ Cardinality(T) <= Cardinality(S)
        /\ Cardinality(R) = Cardinality(S) - Cardinality(T)
    <2>1. Cardinality(S) \in Nat /\ Cardinality(T) \in Nat /\ Cardinality(T) <= Cardinality(S)
      BY <1>1, FS_CardinalityType, FS_Subset
    <2>2. S \cap T = T
      OBVIOUS
    <2>3. Cardinality(S \ T) = Cardinality(S) - Cardinality(S \cap T)
      BY <1>1, FS_Difference
    <2> QED BY <2>1, <2>2, <2>3 DEF R
  <1>8. MilliSum(h, S) \in Int /\ MilliSum(h, T) \in Int /\ MilliSum(h, R) = MilliSum(h, S) - MilliSum(h, T)
    <2>1. /\ MilliSum(h, R) \in Int /\ MilliSum(h, T) \in Int
          /\ MilliSum(h, S) = MilliSum(h, R) + MilliSum(h, T)
      <3>1. SumFunctionOnSet(f, S) = SumFunctionOnSet(f, R) + SumFunctionOnSet(f, T)
        BY <1>1, <1>6
      <3> QED BY <1>2, <1>4, <1>5, <1>6, <3>1
    <2> HIDE DEF MilliSum
    <2> QED BY <2>1
  <1> QED BY <1>1, <1>7, <1>8 DEF R

(* Counting by groups.                                                     *)
LEMMA GroupedCount ==
    ASSUME NEW S, IsFiniteSet(S), NEW b, NEW idx,
           NEW n \in Nat, NEW g, NEW u, Groups(g, u, n, S, b, idx),
           NEW v, \A i \in 1 .. n : v[i] = Cardinality(g[i])
    PROVE  SumFunctionOnSet(v, 1 .. n) = Cardinality(u)
  <1>1. PICK f : \A x \in S : f[x] = 1
    <2>1. \A x \in S : [y \in S |-> 1][x] = 1
      OBVIOUS
    <2> QED BY <2>1
  <1>2. \A T \in SUBSET S : SumFunctionOnSet(f, T) = Cardinality(T)
    <2> TAKE T \in SUBSET S
    <2>1. IsFiniteSet(T) /\ \A x \in T : f[x] = 1
      BY <1>1, FS_Subset
    <2> QED BY <2>1, SumOfOnes
  <1>0. u \in SUBSET S /\ \A i \in 1 .. n : g[i] \in SUBSET S
    BY DEF Groups
  <1>3. \A i \in 1 .. n : v[i] = SumFunctionOnSet(f, g[i])
    BY <1>0, <1>2
  <1>4. \A x \in S : f[x] \in Int
    BY <1>1
  <1>5. SumFunctionOnSet(v, 1 .. n) = SumFunctionOnSet(f, u)
    BY <1>3, <1>4, GroupedSum
  <1> QED BY <1>0, <1>2, <1>5

(* The buckets older than old are the front of the queue.                  *)
LEMMA OldFront ==
    ASSUME NEW q \in Seq(Bucket), Increasing(q), NEW old \in Int
    PROVE  LET E == Older(q, old)
               n == Cardinality(E)
           IN  /\ n \in Nat /\ n <= Len(q) /\ E = 1 .. n
               /\ \A i \in DOMAIN q : q[i].idx < old <=> i <= n
  <1> DEFINE E == Older(q, old)
             l == Len(q)
             stays == {i \in 1 .. l + 1 : i = l + 1 \/ q[i].idx >= old}
  <1>1. l \in Nat /\ DOMAIN q = 1 .. l /\ \A i \in 1 .. l : q[i].idx \in Int
    BY QueueTypes
  <1>2. \A i, j \in 1 .. l : i < j => q[i].idx < q[j].idx
    BY <1>1 DEF Increasing
  <1>0. E = {i \in 1 .. l : \A j \in 1 .. i : q[j].idx < old}
    BY <1>1 DEF Older
  <1> HIDE DEF l, E
  <1>3. PICK x \in stays : \A y \in stays : x <= y
    <2>1. stays \subseteq Nat /\ l + 1 \in stays
      BY <1>1
    <2> HIDE DEF stays
    <2> QED BY <2>1, LeastNat
  <1>4. x \in 1 .. l + 1 /\ (x = l + 1 \/ q[x].idx >= old)
    OBVIOUS
  <1>5. \A i \in 1 .. l : i < x => q[i].idx < old
    <2> TAKE i \in 1 .. l
    <2>1. i < x => i \notin stays
      BY <1>1, <1>3, <1>4
    <2> QED BY <2>1, <1>1
  <1> HIDE DEF stays
  <1> DEFINE n == x - 1
  <1>6. n \in Nat /\ n <= l
    BY <1>1, <1>4
  <1>7. \A i \in 1 .. l : q[i].idx < old <=> i <= n
    <2> TAKE i \in 1 .. l
    <2>1. i <= n => q[i].idx < old
      BY <1>1, <1>4, <1>5
    <2>2. ASSUME i > n PROVE ~(q[i].idx < old)
      <3>1. x \in 1 .. l /\ (i = x \/ x < i) /\ q[x].idx >= old
        BY <2>2, <1>1, <1>4
      <3>2. i = x \/ q[x].idx < q[i].idx
        BY <3>1, <1>2
      <3> QED BY <3>1, <3>2, <1>1
    <2> QED BY <2>1, <2>2, <1>1, <1>4
  <1> HIDE DEF n
  <1>8. E = 1 .. n
    <2>1. ASSUME NEW i \in E PROVE i \in 1 .. n
      <3>1. i \in 1 .. l /\ q[i].idx < old
        BY <1>0
      <3> QED BY <3>1, <1>6, <1>7
    <2>2. ASSUME NEW i \in 1 .. n PROVE i \in E
      <3>1. i \in 1 .. l /\ \A j \in 1 .. i : j \in 1 .. l /\ j <= n
        BY <1>1, <1>6
      <3> QED BY <3>1, <1>0, <1>7
    <2> QED BY <2>1, <2>2
  <1>9. Cardinality(E) = n
    BY <1>6, <1>8, IntervalFinite
  <1> QED BY <1>1, <1>6, <1>7, <1>8, <1>9 DEF E, l

(* The elements whose value is i.                                          *)
Group(S, b, i) == {x \in S : b[x] = i}
(* u is what the first n buckets of q hold of S, grouped by b.             *)
Spanned(u, n, S, b, q) ==
    u \subseteq S /\ \A x \in S : x \in u <=> \E i \in 1 .. n : b[x] = q[i].idx

(* The sums of the buckets at the front are the sums of what is in them.   *)
LEMMA QueueSums ==
    ASSUME NEW q \in Seq(Bucket), Increasing(q), NEW n \in Nat, n <= Len(q),
           NEW S, IsFiniteSet(S), NEW b, NEW u, Spanned(u, n, S, b, q)
    PROVE  /\ (\A i \in 1 .. n : q[i].count = Cardinality(Group(S, b, q[i].idx)))
                => CountIn(q, 1 .. n) = Cardinality(u)
           /\ (\A i \in 1 .. n : q[i].lastCards = Cardinality(Group(S, b, q[i].idx)))
                => CardsIn(q, 1 .. n) = Cardinality(u)
           /\ \A f : /\ \A x \in S : f[x] \in Int
                     /\ \A i \in 1 .. n : q[i].milli = SumFunctionOnSet(f, Group(S, b, q[i].idx))
                     => MilliIn(q, 1 .. n) = SumFunctionOnSet(f, u)
  <1> DEFINE idx == [i \in 1 .. n |-> q[i].idx]
             g == [i \in 1 .. n |-> Group(S, b, q[i].idx)]
             counts == [i \in 1 .. n |-> q[i].count]
             cards == [i \in 1 .. n |-> q[i].lastCards]
             millis == [i \in 1 .. n |-> q[i].milli]
  <1>1. \A i \in 1 .. n : i \in DOMAIN q /\ q[i].idx \in Int /\ idx[i] = q[i].idx
    BY QueueTypes
  <1>2. Groups(g, u, n, S, b, idx)
    <2>1. ASSUME NEW i \in 1 .. n, NEW j \in 1 .. n, idx[i] = idx[j] PROVE i = j
      <3>1. q[i].idx = q[j].idx /\ q[i].idx \in Int /\ i \in DOMAIN q /\ j \in DOMAIN q
        BY <1>1, <2>1
      <3>2. i < j => q[i].idx < q[j].idx
        BY <3>1 DEF Increasing
      <3>3. j < i => q[j].idx < q[i].idx
        BY <3>1 DEF Increasing
      <3> QED BY <3>1, <3>2, <3>3
    <2>2. \A i \in 1 .. n : g[i] \subseteq S /\ \A x \in S : x \in g[i] <=> b[x] = idx[i]
      BY DEF Group
    <2>3. u \subseteq S /\ \A x \in S : x \in u <=> \E i \in 1 .. n : b[x] = idx[i]
      BY DEF Spanned
    <2> HIDE DEF idx, g
    <2> QED BY <2>1, <2>2, <2>3 DEF Groups
  <1>3. /\ CountIn(q, 1 .. n) = SumFunctionOnSet(counts, 1 .. n)
        /\ CardsIn(q, 1 .. n) = SumFunctionOnSet(cards, 1 .. n)
        /\ MilliIn(q, 1 .. n) = SumFunctionOnSet(millis, 1 .. n)
    BY DEF CountIn, CardsIn, MilliIn, SumFunction
  <1>4. \A i \in 1 .. n : /\ counts[i] = q[i].count /\ cards[i] = q[i].lastCards
                          /\ millis[i] = q[i].milli /\ g[i] = Group(S, b, q[i].idx)
    OBVIOUS
  <1> HIDE DEF idx, g, counts, cards, millis
  <1>5. ASSUME \A i \in 1 .. n : q[i].count = Cardinality(Group(S, b, q[i].idx))
        PROVE  CountIn(q, 1 .. n) = Cardinality(u)
    <2>1. \A i \in 1 .. n : counts[i] = Cardinality(g[i])
      BY <1>4, <1>5
    <2> QED BY <2>1, <1>2, <1>3, GroupedCount
  <1>6. ASSUME \A i \in 1 .. n : q[i].lastCards = Cardinality(Group(S, b, q[i].idx))
        PROVE  CardsIn(q, 1 .. n) = Cardinality(u)
    <2>1. \A i \in 1 .. n : cards[i] = Cardinality(g[i])
      BY <1>4, <1>6
    <2> QED BY <2>1, <1>2, <1>3, GroupedCount
  <1>7. ASSUME NEW f, \A x \in S : f[x] \in Int,
               \A i \in 1 .. n : q[i].milli = SumFunctionOnSet(f, Group(S, b, q[i].idx))
        PROVE  MilliIn(q, 1 .. n) = SumFunctionOnSet(f, u)
    <2>1. \A i \in 1 .. n : millis[i] = SumFunctionOnSet(f, g[i])
      BY <1>4, <1>7
    <2> QED BY <2>1, <1>2, <1>3, <1>7, GroupedSum
  <1> QED BY <1>5, <1>6, <1>7

(* The amounts of a history.                                               *)
Millis(h)     == [j \in DOMAIN h |-> h[j].milli]
(* The buckets of its events.                                              *)
Indices(h, w) == [j \in DOMAIN h |-> BucketOf(w, h[j].t)]

(* The amount of some of its events.                                       *)
LEMMA MilliSumIs ==
    ASSUME NEW h \in Seq(Event), NEW S \in SUBSET DOMAIN h
    PROVE  /\ MilliSum(h, S) = SumFunctionOnSet(Millis(h), S)
           /\ \A j \in DOMAIN h : Millis(h)[j] \in Int
  <1> DEFINE f == Millis(h)
             g == [j \in S |-> h[j].milli]
  <1>1. \A j \in DOMAIN h : f[j] \in Int
    BY HistoryTypes DEF Millis
  <1>2. MilliSum(h, S) = SumFunctionOnSet(g, S)
    BY DEF MilliSum, SumFunction
  <1>3. \A j \in S : f[j] \in Int /\ g[j] = f[j]
    BY <1>1 DEF Millis
  <1>4. IsFiniteSet(S)
    BY HistoryTypes, IntervalFinite, FS_Subset
  <1> HIDE DEF f, g
  <1>5. SumFunctionOnSet(g, S) = SumFunctionOnSet(f, S)
    BY <1>3, <1>4, SumSame
  <1> QED BY <1>1, <1>2, <1>5 DEF f

(* The totals of the first n buckets of a window.                          *)
LEMMA FrontTotals ==
    ASSUME NEW h \in Seq(Event), NEW w \in W, NEW old, NEW new, NEW q, Queue(q, h, w, old, new),
           NEW n \in Nat, n <= Len(q), NEW u \in SUBSET DOMAIN h,
           \A j \in DOMAIN h : j \in u <=> \E i \in 1 .. n : BucketOf(w, h[j].t) = q[i].idx
    PROVE  CountIn(q, 1 .. n) = Cardinality(u) /\ MilliIn(q, 1 .. n) = MilliSum(h, u)
  <1> DEFINE S == DOMAIN h
             b == Indices(h, w)
             f == Millis(h)
  <1>1. q \in Seq(Bucket) /\ Increasing(q) /\ \A i \in 1 .. n : i \in DOMAIN q
    BY QueueTypes DEF Queue
  <1>2. IsFiniteSet(S)
    BY HistoryTypes, IntervalFinite
  <1>3. Spanned(u, n, S, b, q)
    BY DEF Spanned, Indices
  <1>4. \A i : Group(S, b, i) = InBucket(h, w, i) /\ Group(S, b, i) \in SUBSET S
    BY DEF Group, InBucket, Indices
  <1>5. \A i \in 1 .. n : /\ q[i].count = Cardinality(InBucket(h, w, q[i].idx))
                          /\ q[i].milli = MilliSum(h, InBucket(h, w, q[i].idx))
    BY <1>1 DEF Queue
  <1>6. \A T \in SUBSET S : MilliSum(h, T) = SumFunctionOnSet(f, T)
    BY MilliSumIs
  <1>7. \A x \in S : f[x] \in Int
    BY MilliSumIs
  <1> HIDE DEF b, f, S
  <1>8. CountIn(q, 1 .. n) = Cardinality(u)
    BY <1>1, <1>2, <1>3, <1>4, <1>5, QueueSums
  <1>9. MilliIn(q, 1 .. n) = SumFunctionOnSet(f, u)
    <2>1. \A i \in 1 .. n : q[i].milli = SumFunctionOnSet(f, Group(S, b, q[i].idx))
      BY <1>4, <1>5, <1>6
    <2> QED BY <2>1, <1>1, <1>2, <1>3, <1>7, QueueSums
  <1> QED BY <1>6, <1>8, <1>9 DEF S

(* The events of a bucket and of a span.                                   *)
LEMMA SpanTypes ==
    ASSUME NEW h \in Seq(Event), NEW w \in W
    PROVE  /\ \A j \in DOMAIN h : BucketOf(w, h[j].t) \in Int
           /\ \A old : InSpan(h, w, old) \in SUBSET DOMAIN h
           /\ \A i : InBucket(h, w, i) \in SUBSET DOMAIN h
           /\ \A old, old2 \in Int : old <= old2 => InSpan(h, w, old2) \subseteq InSpan(h, w, old)
  <1>1. \A j \in DOMAIN h : BucketOf(w, h[j].t) \in Int
    BY HistoryTypes, Buckets
  <1> QED BY <1>1 DEF InSpan, InBucket

(* The queue r of what stays of q when its oldest bucket becomes old2, and *)
(* the totals of the n buckets that leave.                                 *)
Leaves(q, n, r, h, w, old, new, old2) ==
    /\ n \in Nat /\ n <= Len(q) /\ Older(q, old2) = 1 .. n
    /\ \A i \in DOMAIN q : q[i].idx < old2 <=> i <= n
    /\ Queue(r, h, w, old2, new)
    /\ Len(r) = Len(q) - n /\ \A i \in 1 .. Len(q) - n : r[i] = q[i + n]
    /\ CountIn(q, Older(q, old2)) = Cardinality(InSpan(h, w, old)) - Cardinality(InSpan(h, w, old2))
    /\ MilliIn(q, Older(q, old2)) = MilliSum(h, InSpan(h, w, old)) - MilliSum(h, InSpan(h, w, old2))

(* The buckets that leave a window leave with exactly the events that the  *)
(* later span has lost.                                                    *)
LEMMA QueueExpires ==
    ASSUME NEW h \in Seq(Event), NEW w \in W, NEW old \in Int, NEW new, NEW old2 \in Int, old <= old2,
           NEW q, Queue(q, h, w, old, new)
    PROVE  Leaves(q, Cardinality(Older(q, old2)), SubSeq(q, Cardinality(Older(q, old2)) + 1, Len(q)),
                  h, w, old, new, old2)
  <1> DEFINE E == Older(q, old2)
             n == Cardinality(E)
             r == SubSeq(q, n + 1, Len(q))
             l == Len(q)
             S == InSpan(h, w, old)
             T == InSpan(h, w, old2)
             u == S \ T
  <1>1. q \in Seq(Bucket) /\ Increasing(q) /\ l \in Nat /\ DOMAIN q = 1 .. l
        /\ \A i \in 1 .. l : q[i].idx \in Int
    BY QueueTypes DEF Queue
  <1>2. /\ n \in Nat /\ n <= l /\ E = 1 .. n
        /\ \A i \in DOMAIN q : q[i].idx < old2 <=> i <= n
    BY <1>1, OldFront
  <1> HIDE DEF E, n
  <1>3. /\ r \in Seq(Bucket) /\ Len(r) = l - n /\ DOMAIN r = 1 .. l - n
        /\ \A i \in 1 .. l - n : r[i] = q[i + n] /\ i + n \in 1 .. l
    <2>1. \A i \in n + 1 .. l : i \in 1 .. l /\ q[i] \in Bucket
      BY <1>1, <1>2, ElementOfSeq
    <2>2. /\ r \in Seq(Bucket)
          /\ Len(r) = (IF n + 1 <= l THEN l - (n + 1) + 1 ELSE 0)
          /\ \A i \in 1 .. l - (n + 1) + 1 : r[i] = q[(n + 1) + i - 1]
      <3> DEFINE m == n + 1
      <3>1. m \in Nat /\ l \in Nat /\ m \in Int /\ l \in Int /\ \A i \in m .. l : q[i] \in Bucket
        BY <1>1, <1>2, <2>1
      <3> HIDE DEF m, l
      <3>2. /\ SubSeq(q, m, l) \in Seq(Bucket)
            /\ Len(SubSeq(q, m, l)) = (IF m <= l THEN l - m + 1 ELSE 0)
            /\ \A i \in 1 .. l - m + 1 : SubSeq(q, m, l)[i] = q[m + i - 1]
        BY <3>1, <1>1, SubSeqProperties
      <3> QED BY <3>2 DEF m, l
    <2> HIDE DEF r
    <2>3. Len(r) = l - n
      <3>1. n \in Nat /\ l \in Nat /\ n <= l
        BY <1>1, <1>2
      <3>2. (IF n + 1 <= l THEN l - (n + 1) + 1 ELSE 0) = l - n
        BY <3>1
      <3> QED BY <2>2, <3>2
    <2>4. DOMAIN r = 1 .. l - n
      BY <2>2, <2>3, LenProperties
    <2>5. \A i \in 1 .. l - n : i \in 1 .. l - (n + 1) + 1 /\ (n + 1) + i - 1 = i + n /\ i + n \in 1 .. l
      BY <1>1, <1>2
    <2> QED BY <2>2, <2>3, <2>4, <2>5
  <1> HIDE DEF r, l
  <1>4. T \subseteq S /\ S \in SUBSET DOMAIN h /\ T \in SUBSET S /\ u \in SUBSET DOMAIN h
    BY SpanTypes
  <1>5. Queue(r, h, w, old2, new)
    <2>1. Increasing(r)
      <3>1. ASSUME NEW i \in DOMAIN r, NEW j \in DOMAIN r, i < j PROVE r[i].idx < r[j].idx
        <4>1. i + n \in DOMAIN q /\ j + n \in DOMAIN q /\ i + n < j + n
          BY <3>1, <1>1, <1>2, <1>3
        <4> QED BY <4>1, <1>1, <1>3 DEF Increasing
      <3> QED BY <3>1 DEF Increasing
    <2>2. ASSUME NEW i \in DOMAIN r
          PROVE  /\ old2 <= r[i].idx /\ r[i].idx <= new
                 /\ r[i].count = Cardinality(InBucket(h, w, r[i].idx)) /\ r[i].count > 0
                 /\ r[i].milli = MilliSum(h, InBucket(h, w, r[i].idx))
      <3>1. i + n \in DOMAIN q /\ r[i] = q[i + n] /\ ~(i + n <= n) /\ q[i + n].idx \in Int
        BY <1>1, <1>2, <1>3
      <3>2. old2 <= q[i + n].idx
        BY <3>1, <1>2
      <3> QED BY <3>1, <3>2 DEF Queue
    <2>3. ASSUME NEW j \in T PROVE \E i \in DOMAIN r : r[i].idx = BucketOf(w, h[j].t)
      <3>1. j \in S /\ BucketOf(w, h[j].t) >= old2 /\ BucketOf(w, h[j].t) \in Int
        BY <1>4, SpanTypes DEF InSpan
      <3>2. PICK i \in DOMAIN q : q[i].idx = BucketOf(w, h[j].t)
        BY <3>1 DEF Queue
      <3>3. ~(i <= n) /\ i \in 1 .. l
        BY <3>1, <3>2, <1>1, <1>2
      <3>4. i - n \in DOMAIN r /\ (i - n) + n = i
        BY <3>3, <1>1, <1>2, <1>3
      <3> QED BY <3>2, <3>4, <1>3
    <2> QED BY <2>1, <2>2, <2>3, <1>3 DEF Queue
  <1>6. \A j \in DOMAIN h : j \in u <=> \E i \in 1 .. n : BucketOf(w, h[j].t) = q[i].idx
    <2> TAKE j \in DOMAIN h
    <2>0. BucketOf(w, h[j].t) \in Int
      BY SpanTypes
    <2>1. ASSUME j \in u PROVE \E i \in 1 .. n : BucketOf(w, h[j].t) = q[i].idx
      <3>1. PICK i \in DOMAIN q : q[i].idx = BucketOf(w, h[j].t)
        BY <2>1 DEF Queue
      <3>2. ~(BucketOf(w, h[j].t) >= old2)
        BY <2>1 DEF InSpan
      <3>3. i <= n /\ i \in 1 .. n
        BY <2>0, <3>1, <3>2, <1>1, <1>2
      <3> QED BY <3>1, <3>3
    <2>2. ASSUME NEW i \in 1 .. n, BucketOf(w, h[j].t) = q[i].idx PROVE j \in u
      <3>1. i \in DOMAIN q /\ q[i].idx < old2 /\ old <= q[i].idx
        BY <1>1, <1>2 DEF Queue
      <3> QED BY <2>0, <2>2, <3>1 DEF InSpan
    <2> QED BY <2>1, <2>2
  <1>7. CountIn(q, 1 .. n) = Cardinality(u) /\ MilliIn(q, 1 .. n) = MilliSum(h, u)
    BY <1>2, <1>4, <1>6, FrontTotals DEF l
  <1> HIDE DEF S, T
  <1>8. /\ Cardinality(u) = Cardinality(S) - Cardinality(T)
        /\ MilliSum(h, u) = MilliSum(h, S) - MilliSum(h, T)
    BY <1>4, MilliSumParts
  <1> HIDE DEF u
  <1>9. Len(r) = Len(q) - n /\ \A i \in 1 .. Len(q) - n : r[i] = q[i + n]
    BY <1>3 DEF l
  <1>10. n <= Len(q)
    BY <1>2 DEF l
  <1>11. Leaves(q, n, r, h, w, old, new, old2)
    BY <1>2, <1>5, <1>7, <1>8, <1>9, <1>10 DEF E, S, T, Leaves
  <1> QED BY <1>11 DEF E, n, r

(* One event more in the history.                                          *)
LEMMA OneMore ==
    ASSUME NEW h \in Seq(Event), NEW x \in Event
    PROVE  LET g == Append(h, x)
               n == Len(h) + 1
           IN  /\ g \in Seq(Event) /\ g # <<>> /\ DOMAIN g = DOMAIN h \cup {n} /\ n \notin DOMAIN h
               /\ n \in Nat /\ Len(g) = n /\ g[n] = x /\ \A i \in DOMAIN h : g[i] = h[i]
               /\ \A S \in SUBSET DOMAIN h :
                    /\ Cardinality(S \cup {n}) = Cardinality(S) + 1
                    /\ MilliSum(g, S) = MilliSum(h, S)
                    /\ MilliSum(g, S \cup {n}) = MilliSum(h, S) + x.milli
  <1> DEFINE g == Append(h, x)
             n == Len(h) + 1
  <1>1. /\ g \in Seq(Event) /\ g # <<>> /\ DOMAIN g = 1 .. n /\ DOMAIN h = 1 .. Len(h)
        /\ Len(h) \in Nat /\ Len(g) = n /\ g[n] = x /\ \A i \in DOMAIN h : g[i] = h[i]
    BY Appended, HistoryTypes
  <1>2. n \in Nat /\ n \notin DOMAIN h /\ DOMAIN g = DOMAIN h \cup {n}
    BY <1>1
  <1> HIDE DEF g, n
  <1>3. ASSUME NEW S \in SUBSET DOMAIN h
        PROVE  /\ Cardinality(S \cup {n}) = Cardinality(S) + 1
               /\ MilliSum(g, S) = MilliSum(h, S)
               /\ MilliSum(g, S \cup {n}) = MilliSum(h, S) + x.milli
    <2>1. IsFiniteSet(S) /\ n \notin S /\ IsFiniteSet(S \cup {n})
      BY <1>2, MilliSumParts, FS_AddElement
    <2>2. Cardinality(S \cup {n}) = Cardinality(S) + 1
      BY <2>1, FS_AddElement
    <2>3. MilliSum(g, S) = MilliSum(h, S)
      <3>1. [j \in S |-> g[j].milli] = [j \in S |-> h[j].milli]
        BY <1>1
      <3> QED BY <3>1 DEF MilliSum
    <2>4. MilliSum(g, S \cup {n}) = MilliSum(g, S) + x.milli
      <3> DEFINE T == S \cup {n}
                 f == Millis(g)
      <3>1. T \in SUBSET DOMAIN g /\ S \in SUBSET DOMAIN g /\ n \in T /\ T \ {n} = S
        BY <1>2, <2>1
      <3>2. f[n] = x.milli
        BY <1>1, <1>2 DEF Millis
      <3> HIDE DEF T, f
      <3>3. /\ MilliSum(g, T) = SumFunctionOnSet(f, T)
            /\ MilliSum(g, S) = SumFunctionOnSet(f, S)
            /\ \A j \in T : f[j] \in Int
        BY <1>1, <3>1, MilliSumIs DEF f
      <3>4. IsFiniteSet(T)
        BY <2>1 DEF T
      <3>5. /\ SumFunctionOnSet(f, T) = f[n] + SumFunctionOnSet(f, T \ {n})
            /\ SumFunctionOnSet(f, T \ {n}) \in Int
        BY <3>1, <3>3, <3>4, SumWithout
      <3>6. x.milli \in Int
        BY EventTypes
      <3>8. SumFunctionOnSet(f, T) = f[n] + SumFunctionOnSet(f, S) /\ SumFunctionOnSet(f, S) \in Int
        BY <3>1, <3>5
      <3>7. MilliSum(g, T) = MilliSum(g, S) + x.milli
        <4> DEFINE a == SumFunctionOnSet(f, S) b == x.milli
        <4>1. a \in Int /\ b \in Int /\ MilliSum(g, T) = b + a /\ MilliSum(g, S) = a
          BY <3>2, <3>3, <3>6, <3>8
        <4> HIDE DEF a, b
        <4>2. MilliSum(g, T) = MilliSum(g, S) + b
          BY <4>1
        <4> QED BY <4>2 DEF b
      <3> QED BY <3>7 DEF T
    <2> QED BY <2>2, <2>3, <2>4
  <1> QED BY <1>1, <1>2, <1>3 DEF g, n

(* One event more in its bucket, and in every span that reaches it.        *)
LEMMA OneMoreBucketed ==
    ASSUME NEW h \in Seq(Event), NEW x \in Event, NEW w \in W
    PROVE  LET g == Append(h, x)
               n == Len(h) + 1
               idx == BucketOf(w, x.t)
           IN  /\ InBucket(g, w, idx) = InBucket(h, w, idx) \cup {n}
               /\ \A i : i # idx => InBucket(g, w, i) = InBucket(h, w, i)
               /\ \A old : idx >= old => InSpan(g, w, old) = InSpan(h, w, old) \cup {n}
  <1> DEFINE g == Append(h, x)
             n == Len(h) + 1
  <1>1. /\ DOMAIN g = DOMAIN h \cup {n} /\ n \notin DOMAIN h
        /\ g[n] = x /\ \A i \in DOMAIN h : g[i] = h[i]
    BY OneMore
  <1> HIDE DEF g, n
  <1> QED BY <1>1 DEF InBucket, InSpan, g, n

(* The queue r of what q holds of the history h, and one event x more.     *)
Gains(q, r, h, x, w, old, idx) ==
    /\ Queue(r, Append(h, x), w, old, idx) /\ r # <<>> /\ r[Len(r)].idx = idx
    /\ \A i \in DOMAIN q : /\ i \in DOMAIN r /\ r[i].idx = q[i].idx
                           /\ r[i].lastCards = q[i].lastCards
    /\ \A i \in DOMAIN r : /\ i < Len(r) => r[i].idx < idx
                           /\ i \notin DOMAIN q => /\ i = Len(r) /\ r[i].lastCards = 0
                                                   /\ InBucket(h, w, idx) = {}

(* The newest bucket, or a new one, takes one payment more                 *)
(* (bucketed.go:164-174).                                                  *)
LEMMA QueueGrows ==
    ASSUME NEW h \in Seq(Event), NEW x \in Event, NEW w \in W, NEW old \in Int, NEW new \in Int,
           NEW q, Queue(q, h, w, old, new), NEW idx, idx = BucketOf(w, x.t), old <= idx, new <= idx
    PROVE  Gains(q, InNewest(q, idx, x.milli), h, x, w, old, idx)
  <1> DEFINE zero == [idx |-> idx, count |-> 0, milli |-> 0, lastCards |-> 0]
             p == IF q # <<>> /\ Last(q).idx = idx THEN q ELSE Append(q, zero)
             n == Len(p)
             last == [p[n] EXCEPT !.count = @ + 1, !.milli = @ + x.milli]
             r == [p EXCEPT ![n] = last]
             g == Append(h, x)
             k == Len(h) + 1
  <1>1. /\ q \in Seq(Bucket) /\ Increasing(q) /\ Len(q) \in Nat /\ DOMAIN q = 1 .. Len(q)
        /\ \A i \in DOMAIN q : q[i].idx \in Int
    BY QueueTypes DEF Queue
  <1>2. idx \in Int /\ x.milli \in Int /\ x.t \in Int
    BY Buckets, EventTypes
  <1>3. ASSUME q = <<>> \/ Last(q).idx # idx
        PROVE  InBucket(h, w, idx) = {} /\ \A i \in DOMAIN q : q[i].idx < idx
    <2>1. \A i \in DOMAIN q : q[i].idx < idx
      <3> TAKE i \in DOMAIN q
      <3>1. q # <<>> /\ Len(q) \in DOMAIN q /\ i \in 1 .. Len(q)
        BY <1>1, EmptySeq
      <3>2. q[Len(q)].idx # idx /\ q[Len(q)].idx <= new /\ q[i].idx <= new
        BY <1>3, <3>1 DEF Last, Queue
      <3>3. i < Len(q) => q[i].idx < q[Len(q)].idx
        BY <3>1, <1>1 DEF Increasing
      <3> QED BY <3>1, <3>2, <3>3, <1>1, <1>2
    <2>2. ASSUME NEW j \in InBucket(h, w, idx) PROVE FALSE
      <3>1. j \in InSpan(h, w, old) /\ BucketOf(w, h[j].t) = idx
        BY DEF InBucket, InSpan
      <3>2. PICK i \in DOMAIN q : q[i].idx = idx
        BY <3>1 DEF Queue
      <3> QED BY <2>1, <3>2, <1>1, <1>2
    <2> QED BY <2>1, <2>2
  <1>4. /\ p \in Seq(Bucket) /\ n \in Nat \ {0} /\ DOMAIN p = 1 .. n /\ p[n].idx = idx
        /\ \A i \in 1 .. n : i < n => p[i].idx < idx
        /\ \A i \in DOMAIN q : i \in 1 .. n /\ p[i] = q[i]
        /\ \A i \in 1 .. n : i \notin DOMAIN q => /\ i = n /\ p[i] = zero
                                                  /\ InBucket(h, w, idx) = {}
    <2>1. CASE q # <<>> /\ Last(q).idx = idx
      <3>1. p = q /\ n = Len(q) /\ n \in DOMAIN q /\ n # 0 /\ p[n].idx = idx
        BY <2>1, <1>1, EmptySeq DEF Last
      <3>2. \A i \in 1 .. n : i < n => p[i].idx < idx
        BY <3>1, <1>1 DEF Increasing
      <3> HIDE DEF p, n
      <3> QED BY <3>1, <3>2, <1>1
    <2>2. CASE ~(q # <<>> /\ Last(q).idx = idx)
      <3>1. p = Append(q, zero) /\ zero \in Bucket
        BY <2>2, <1>2 DEF Bucket
      <3> DEFINE z == zero
      <3>z. z \in Bucket /\ z = zero
        BY <3>1
      <3> HIDE DEF z
      <3>2. /\ Append(q, z) \in Seq(Bucket) /\ Len(Append(q, z)) = Len(q) + 1
            /\ Append(q, z)[Len(q) + 1] = z
            /\ \A i \in 1 .. Len(q) : Append(q, z)[i] = q[i]
        BY <1>1, <3>z, AppendProperties
      <3>3. /\ p \in Seq(Bucket) /\ n = Len(q) + 1 /\ p[n] = zero
            /\ \A i \in 1 .. Len(q) : p[i] = q[i]
        BY <3>1, <3>z, <3>2
      <3>4. zero.idx = idx
        OBVIOUS
      <3> HIDE DEF p, n, zero
      <3>5. \A i \in DOMAIN q : q[i].idx < idx
        BY <1>3, <2>2
      <3>6. InBucket(h, w, idx) = {}
        BY <1>3, <2>2
      <3>7. DOMAIN p = 1 .. n
        BY <3>3, LenProperties DEF n
      <3>8. n \in Nat \ {0} /\ p[n].idx = idx /\ \A i \in DOMAIN q : i \in 1 .. n /\ p[i] = q[i]
        BY <3>3, <3>4, <1>1
      <3>9. \A i \in 1 .. n : i < n => i \in DOMAIN q /\ p[i].idx = q[i].idx
        BY <3>3, <1>1
      <3>10. \A i \in 1 .. n : i \notin DOMAIN q => i = n /\ p[i] = zero
        BY <3>3, <1>1
      <3> QED BY <3>3, <3>5, <3>6, <3>7, <3>8, <3>9, <3>10
    <2> QED BY <2>1, <2>2
  <1>5. \A i \in 1 .. n : /\ old <= p[i].idx /\ p[i].idx <= idx /\ p[i].idx \in Int
                          /\ p[i].count = Cardinality(InBucket(h, w, p[i].idx))
                          /\ (i < n => p[i].count > 0)
                          /\ p[i].milli = MilliSum(h, InBucket(h, w, p[i].idx))
    <2> TAKE i \in 1 .. n
    <2>1. CASE i \in DOMAIN q
      <3>1. p[i] = q[i]
        BY <2>1, <1>4
      <3>2. /\ old <= q[i].idx /\ q[i].idx <= new /\ q[i].idx \in Int
            /\ q[i].count = Cardinality(InBucket(h, w, q[i].idx))
            /\ q[i].count > 0
            /\ q[i].milli = MilliSum(h, InBucket(h, w, q[i].idx))
        BY <2>1, <1>1 DEF Queue
      <3>3. q[i].idx <= idx
        BY <3>2, <1>2
      <3> HIDE DEF p, n
      <3> QED BY <3>1, <3>2, <3>3
    <2>2. CASE i \notin DOMAIN q
      <3>1. i = n /\ p[i] = zero /\ InBucket(h, w, idx) = {}
        BY <2>2, <1>4
      <3>2. zero.idx = idx /\ zero.count = 0 /\ zero.milli = 0
        OBVIOUS
      <3>3. MilliSum(h, {}) = 0
        BY SumEmpty DEF MilliSum, SumFunction
      <3>4. ~(i < n)
        BY <3>1, <1>4
      <3>5. Cardinality({}) = 0
        BY FS_EmptySet
      <3> HIDE DEF p, n, zero
      <3>6. p[i].idx = idx /\ p[i].count = 0 /\ p[i].milli = 0
        BY <3>1, <3>2
      <3>7. Cardinality(InBucket(h, w, p[i].idx)) = 0 /\ MilliSum(h, InBucket(h, w, p[i].idx)) = 0
        BY <3>1, <3>3, <3>5, <3>6
      <3> QED BY <3>4, <3>6, <3>7, <1>2
    <2> QED BY <2>1, <2>2
  <1>6. InNewest(q, idx, x.milli) = r
    <2>1. InNewest(q, idx, x.milli) = [p EXCEPT ![n].count = @ + 1, ![n].milli = @ + x.milli]
      BY DEF InNewest
    <2>2. p[n] \in Bucket /\ n \in DOMAIN p
      BY <1>4, ElementOfSeq
    <2> HIDE DEF p, n
    <2>3. last = [[p[n] EXCEPT !.count = @ + 1] EXCEPT !.milli = @ + x.milli]
      BY <2>2 DEF Bucket
    <2> QED BY <2>1, <2>2, <2>3
  <1> HIDE DEF p, n
  <1>7. p[n] \in Bucket
    BY <1>4, ElementOfSeq
  <1>8. /\ last \in Bucket /\ last.idx = p[n].idx /\ last.count = p[n].count + 1
        /\ last.milli = p[n].milli + x.milli /\ last.lastCards = p[n].lastCards
    <2> DEFINE a == p[n] y == x.milli
    <2>1. a = [idx |-> a.idx, count |-> a.count, milli |-> a.milli, lastCards |-> a.lastCards]
          /\ a.idx \in Int /\ a.count \in Int /\ a.milli \in Int /\ a.lastCards \in Int
      BY <1>7 DEF Bucket
    <2>2. y \in Int /\ last = [a EXCEPT !.count = @ + 1, !.milli = @ + y]
      BY <1>2
    <2> HIDE DEF a, y, last
    <2>3. last = [idx |-> a.idx, count |-> a.count + 1, milli |-> a.milli + y,
                  lastCards |-> a.lastCards]
      BY <2>1, <2>2
    <2>4. a.count + 1 \in Int /\ a.milli + y \in Int
      BY <2>1, <2>2
    <2>5. last \in Bucket
      BY <2>1, <2>3, <2>4 DEF Bucket
    <2> QED BY <2>3, <2>5 DEF a, y
  <1> HIDE DEF last
  <1>9. /\ r \in Seq(Bucket) /\ Len(r) = n /\ DOMAIN r = 1 .. n /\ r[n] = last
        /\ \A i \in 1 .. n : i # n => r[i] = p[i]
    <2>1. p \in [1 .. n -> Bucket]
      <3>1. \A i \in 1 .. n : p[i] \in Bucket
        BY <1>4, ElementOfSeq DEF n
      <3>2. p = [i \in 1 .. n |-> p[i]]
        BY <1>4, LenProperties DEF n
      <3> QED BY <3>1, <3>2
    <2>2. r \in [1 .. n -> Bucket] /\ r[n] = last /\ \A i \in 1 .. n : i # n => r[i] = p[i]
      BY <2>1, <1>4, <1>8
    <2> HIDE DEF r
    <2> QED BY <2>2, <1>4, SeqDef, LenProperties
  <1> HIDE DEF r
  <1>10. /\ InBucket(g, w, idx) = InBucket(h, w, idx) \cup {k}
         /\ \A i : i # idx => InBucket(g, w, i) = InBucket(h, w, i)
         /\ InSpan(g, w, old) = InSpan(h, w, old) \cup {k}
    BY OneMoreBucketed
  <1>11. \A S \in SUBSET DOMAIN h : /\ Cardinality(S \cup {k}) = Cardinality(S) + 1
                                    /\ MilliSum(g, S) = MilliSum(h, S)
                                    /\ MilliSum(g, S \cup {k}) = MilliSum(h, S) + x.milli
    BY OneMore
  <1>12. \A i : InBucket(h, w, i) \in SUBSET DOMAIN h
    BY SpanTypes
  <1>13. g[k] = x /\ \A i \in DOMAIN h : g[i] = h[i]
    BY OneMore
  <1> HIDE DEF g, k
  <1>14. \A i \in 1 .. n : r[i].idx = p[i].idx /\ r[i].lastCards = p[i].lastCards
    BY <1>4, <1>8, <1>9
  <1>15. Queue(r, g, w, old, idx)
    <2>1. Increasing(r)
      <3>1. ASSUME NEW i \in 1 .. n, NEW j \in 1 .. n, i < j PROVE p[i].idx < p[j].idx
        <4>1. CASE j = n
          BY <3>1, <4>1, <1>4
        <4>2. CASE j # n
          <5>1. i # n /\ i \in DOMAIN q /\ j \in DOMAIN q
            BY <3>1, <4>2, <1>4
          <5> QED BY <3>1, <5>1, <1>1, <1>4 DEF Increasing
        <4> QED BY <4>1, <4>2
      <3> QED BY <3>1, <1>9, <1>14 DEF Increasing
    <2>2. ASSUME NEW i \in DOMAIN r
          PROVE  /\ old <= r[i].idx /\ r[i].idx <= idx
                 /\ r[i].count = Cardinality(InBucket(g, w, r[i].idx)) /\ r[i].count > 0
                 /\ r[i].milli = MilliSum(g, InBucket(g, w, r[i].idx))
      <3>0. i \in 1 .. n
        BY <1>9
      <3>1. CASE i = n
        <4>1. /\ r[i].idx = idx /\ p[i].count = Cardinality(InBucket(h, w, idx))
              /\ p[i].milli = MilliSum(h, InBucket(h, w, idx))
              /\ r[i].count = p[i].count + 1 /\ r[i].milli = p[i].milli + x.milli
          BY <3>0, <3>1, <1>4, <1>5, <1>8, <1>9
        <4>2. /\ Cardinality(InBucket(g, w, idx)) = Cardinality(InBucket(h, w, idx)) + 1
              /\ MilliSum(g, InBucket(g, w, idx)) = MilliSum(h, InBucket(h, w, idx)) + x.milli
              /\ Cardinality(InBucket(h, w, idx)) \in Nat
          BY <1>10, <1>11, <1>12, MilliSumParts
        <4> QED BY <4>1, <4>2, <1>2
      <3>2. CASE i # n
        <4>1. r[i] = p[i] /\ i < n /\ p[i].idx # idx /\ p[i].count > 0
          BY <3>0, <3>2, <1>4, <1>5, <1>9
        <4>2. /\ InBucket(g, w, p[i].idx) = InBucket(h, w, p[i].idx)
              /\ MilliSum(g, InBucket(g, w, p[i].idx)) = MilliSum(h, InBucket(h, w, p[i].idx))
          BY <4>1, <1>10, <1>11, <1>12
        <4> QED BY <3>0, <4>1, <4>2, <1>5
      <3> QED BY <3>1, <3>2
    <2>3. ASSUME NEW j \in InSpan(g, w, old) PROVE \E i \in DOMAIN r : r[i].idx = BucketOf(w, g[j].t)
      <3>1. CASE j = k
        BY <3>1, <1>4, <1>9, <1>13, <1>14
      <3>2. CASE j \in InSpan(h, w, old)
        <4>1. j \in DOMAIN h /\ g[j] = h[j]
          BY <3>2, <1>13, SpanTypes
        <4>2. PICK i \in DOMAIN q : q[i].idx = BucketOf(w, h[j].t)
          BY <3>2 DEF Queue
        <4> QED BY <4>1, <4>2, <1>4, <1>9, <1>14
      <3> QED BY <3>1, <3>2, <1>10
    <2> QED BY <2>1, <2>2, <2>3, <1>9 DEF Queue
  <1>16. r # <<>> /\ r[Len(r)].idx = idx
    BY <1>4, <1>9, <1>14, EmptySeq
  <1>17. \A i \in DOMAIN q : i \in DOMAIN r /\ r[i].idx = q[i].idx /\ r[i].lastCards = q[i].lastCards
    BY <1>4, <1>9, <1>14
  <1>18. \A i \in DOMAIN r : /\ i < Len(r) => r[i].idx < idx
                             /\ i \notin DOMAIN q => /\ i = Len(r) /\ r[i].lastCards = 0
                                                     /\ InBucket(h, w, idx) = {}
    <2> TAKE i \in DOMAIN r
    <2>1. i \in 1 .. n /\ Len(r) = n
      BY <1>9
    <2>2. zero.lastCards = 0
      OBVIOUS
    <2> HIDE DEF zero
    <2> QED BY <2>1, <2>2, <1>4, <1>14
  <1>19. Gains(q, r, h, x, w, old, idx)
    BY <1>15, <1>16, <1>17, <1>18 DEF g, Gains
  <1> QED BY <1>6, <1>19

-----------------------------------------------------------------------------
(* The cards of the distinct window's buckets.                             *)

(* Tables of the bucket of some cards.                                     *)
CardTables == UNION {[S -> Int] : S \in SUBSET Cards}
(* The cards in bucket i.                                                  *)
InIdx(cards, i)   == {c \in DOMAIN cards : cards[c] = i}
(* The cards in bucket old or a later one.                                 *)
Alive(cards, old) == {c \in DOMAIN cards : cards[c] >= old}
(* The key was never at the cap.                                           *)
FewCards(h)       == DistinctCards(h, DOMAIN h) <= DistinctCap
(* A card of the table has an event in the bucket the table says.          *)
Tracked(cards, h) == \A c \in DOMAIN cards : c # NoCard /\ \E j \in DOMAIN h :
                        h[j].card = c /\ BucketOf(DistinctWindow, h[j].t) = cards[c]
(* A bucket's lastCards counts the cards in it.                            *)
Labelled(q, cards) == \A i \in DOMAIN q : q[i].lastCards = Cardinality(InIdx(cards, q[i].idx))
(* Every card of the span is in the table, at its latest bucket or a later *)
(* one.                                                                    *)
NoneMissed(cards, h, old) ==
    \A j \in InSpan(h, DistinctWindow, old) : h[j].card # NoCard =>
       h[j].card \in DOMAIN cards /\ cards[h[j].card] >= BucketOf(DistinctWindow, h[j].t)
(* The cards of a key whose oldest bucket is old, q its distinct window.   *)
CardsOf(q, cards, distinct, tracks, h, old) ==
    /\ cards \in CardTables /\ Tracked(cards, h) /\ Labelled(q, cards)
    /\ ~tracks => DOMAIN cards = {}
    /\ distinct = Cardinality(Alive(cards, old)) /\ distinct <= DistinctCap
    /\ tracks /\ FewCards(h) => NoneMissed(cards, h, old)

(* Tables, and parts of them, are finite.                                  *)
LEMMA CardsTypes ==
    ASSUME NEW cards \in CardTables, NEW h \in Seq(Event), Tracked(cards, h)
    PROVE  /\ IsFiniteSet(DOMAIN cards) /\ \A c \in DOMAIN cards : cards[c] \in Int /\ c \in Cards
           /\ \A old : IsFiniteSet(Alive(cards, old)) /\ Cardinality(Alive(cards, old)) \in Nat
                       /\ Alive(cards, old) \in SUBSET DOMAIN cards
           /\ \A i : IsFiniteSet(InIdx(cards, i)) /\ Cardinality(InIdx(cards, i)) \in Nat
                     /\ InIdx(cards, i) \in SUBSET DOMAIN cards
  <1> DEFINE f == [j \in DOMAIN h |-> h[j].card]
             T == {f[j] : j \in DOMAIN h}
             D == DOMAIN cards
  <1>1. IsFiniteSet(DOMAIN h)
    BY HistoryTypes, IntervalFinite
  <1>2. IsFiniteSet(T)
    <2> HIDE DEF f
    <2> QED BY <1>1, ImageFinite
  <1>3. D \subseteq T
    <2>1. ASSUME NEW c \in D PROVE c \in T
      <3>1. PICK j \in DOMAIN h : h[j].card = c
        BY DEF Tracked
      <3>2. f[j] = c
        BY <3>1
      <3> HIDE DEF f
      <3> QED BY <3>2
    <2> HIDE DEF D, T
    <2> QED BY <2>1
  <1>4. \A c \in D : cards[c] \in Int /\ c \in Cards
    BY DEF CardTables
  <1> HIDE DEF T, D
  <1>5. IsFiniteSet(D)
    BY <1>2, <1>3, FS_Subset
  <1>6. \A old : Alive(cards, old) \in SUBSET D /\ InIdx(cards, old) \in SUBSET D
    BY DEF Alive, InIdx, D
  <1>7. \A U \in SUBSET D : IsFiniteSet(U) /\ Cardinality(U) \in Nat
    BY <1>5, FS_Subset, FS_CardinalityType
  <1> QED BY <1>4, <1>5, <1>6, <1>7 DEF D

(* The cards of the buckets that leave the window leave with them.         *)
LEMMA CardsExpire ==
    ASSUME NEW h \in Seq(Event), NEW old \in Int, NEW new, NEW old2 \in Int, old <= old2,
           NEW q, Queue(q, h, DistinctWindow, old, new),
           NEW cards, NEW distinct, NEW tracks, CardsOf(q, cards, distinct, tracks, h, old)
    PROVE  LET E == Older(q, old2)
               r == SubSeq(q, Cardinality(E) + 1, Len(q))
           IN  /\ distinct - CardsIn(q, E) = Cardinality(Alive(cards, old2))
               /\ CardsOf(r, cards, distinct - CardsIn(q, E), tracks, h, old2)
  <1> DEFINE E == Older(q, old2)
             n == Cardinality(E)
             r == SubSeq(q, n + 1, Len(q))
             S == Alive(cards, old)
             T == Alive(cards, old2)
             u == S \ T
             D == DOMAIN cards
  <1>1. /\ cards \in CardTables /\ Tracked(cards, h) /\ Labelled(q, cards)
        /\ ~tracks => DOMAIN cards = {}
        /\ distinct = Cardinality(S) /\ distinct <= DistinctCap
        /\ tracks /\ FewCards(h) => NoneMissed(cards, h, old)
    BY DEF CardsOf
  <1>2. /\ IsFiniteSet(D) /\ \A c \in D : cards[c] \in Int
        /\ IsFiniteSet(S) /\ IsFiniteSet(T) /\ Cardinality(S) \in Nat /\ Cardinality(T) \in Nat
    BY <1>1, CardsTypes
  <1>3. DistinctWindow \in W
    BY Config
  <1>4. q \in Seq(Bucket) /\ Increasing(q) /\ DOMAIN q = 1 .. Len(q) /\ Len(q) \in Nat
        /\ \A i \in DOMAIN q : q[i].idx \in Int
    BY QueueTypes DEF Queue
  <1>a. Leaves(q, n, r, h, DistinctWindow, old, new, old2)
    BY <1>3, QueueExpires
  <1> HIDE DEF n, r
  <1>5. /\ n \in Nat /\ n <= Len(q) /\ E = 1 .. n
        /\ \A i \in DOMAIN q : q[i].idx < old2 <=> i <= n
        /\ Len(r) = Len(q) - n /\ \A i \in 1 .. Len(q) - n : r[i] = q[i + n]
        /\ Queue(r, h, DistinctWindow, old2, new)
    BY <1>a DEF Leaves
  <1> HIDE DEF E, n, r
  <1>16. \A i \in 1 .. n : i \in DOMAIN q /\ q[i].idx < old2
    <2> DEFINE l == Len(q)
    <2>1. n \in Nat /\ l \in Nat /\ n <= l /\ DOMAIN q = 1 .. l
      BY <1>4, <1>5
    <2> HIDE DEF l
    <2>2. \A i \in 1 .. n : i \in DOMAIN q /\ i <= n
      BY <2>1
    <2> QED BY <2>2, <1>5
  <1>6. T \subseteq S /\ S \subseteq D /\ T \subseteq D /\ u \subseteq D
    BY <1>2 DEF Alive
  <1>7. Spanned(u, n, D, cards, q)
    <2>1. ASSUME NEW c \in D
          PROVE  c \in u <=> \E i \in 1 .. n : cards[c] = q[i].idx
      <3>1. cards[c] \in Int
        BY <1>2
      <3>2. ASSUME c \in u PROVE \E i \in 1 .. n : cards[c] = q[i].idx
        <4>1. cards[c] >= old /\ ~(cards[c] >= old2)
          BY <3>2 DEF Alive
        <4>2. PICK j \in DOMAIN h : BucketOf(DistinctWindow, h[j].t) = cards[c]
          BY <1>1 DEF Tracked
        <4>3. j \in InSpan(h, DistinctWindow, old)
          BY <4>1, <4>2 DEF InSpan
        <4>4. PICK i \in DOMAIN q : q[i].idx = cards[c]
          BY <4>2, <4>3 DEF Queue
        <4>5. i \in 1 .. n
          BY <3>1, <4>1, <4>4, <1>4, <1>5
        <4> QED BY <4>4, <4>5
      <3>3. ASSUME NEW i \in 1 .. n, cards[c] = q[i].idx PROVE c \in u
        <4>1. i \in DOMAIN q /\ q[i].idx < old2 /\ q[i].idx \in Int
          BY <1>4, <1>16
        <4>2. old <= q[i].idx
          BY <4>1 DEF Queue
        <4> QED BY <3>1, <3>3, <4>1, <4>2 DEF Alive
      <3> QED BY <3>2, <3>3
    <2> HIDE DEF u, D
    <2> QED BY <2>1, <1>6 DEF Spanned
  <1>8. \A i \in 1 .. n : q[i].lastCards = Cardinality(Group(D, cards, q[i].idx))
    BY <1>1, <1>16 DEF Group, Labelled, InIdx
  <1>9. CardsIn(q, 1 .. n) = Cardinality(u)
    <2> HIDE DEF u, D
    <2> QED BY <1>2, <1>4, <1>5, <1>7, <1>8, QueueSums
  <1> HIDE DEF S, T, D
  <1>10. Cardinality(u) = Cardinality(S) - Cardinality(T) /\ Cardinality(T) <= Cardinality(S)
    <2>1. S \cap T = T
      BY <1>6
    <2>2. Cardinality(u) = Cardinality(S) - Cardinality(S \cap T)
      BY <1>2, FS_Difference
    <2> QED BY <2>1, <2>2, <1>2, <1>6, FS_Subset
  <1> HIDE DEF u
  <1>11. distinct - CardsIn(q, E) = Cardinality(T)
    BY <1>1, <1>2, <1>5, <1>9, <1>10
  <1>12. Cardinality(T) <= DistinctCap
    BY <1>1, <1>2, <1>10, Config
  <1>13. Labelled(r, cards)
    <2>1. ASSUME NEW i \in DOMAIN r PROVE r[i].lastCards = Cardinality(InIdx(cards, r[i].idx))
      <3>1. r \in Seq(Bucket)
        BY <1>5 DEF Queue
      <3>2. i \in 1 .. Len(q) - n
        BY <3>1, <1>5, QueueTypes
      <3>3. r[i] = q[i + n] /\ i + n \in DOMAIN q
        BY <3>2, <1>4, <1>5
      <3> QED BY <3>3, <1>1 DEF Labelled
    <2> QED BY <2>1 DEF Labelled
  <1>14. tracks /\ FewCards(h) => NoneMissed(cards, h, old2)
    <2>1. InSpan(h, DistinctWindow, old2) \subseteq InSpan(h, DistinctWindow, old)
      BY <1>3, SpanTypes
    <2> QED BY <2>1, <1>1 DEF NoneMissed
  <1>15. CardsOf(r, cards, distinct - CardsIn(q, E), tracks, h, old2)
    BY <1>1, <1>11, <1>12, <1>13, <1>14 DEF CardsOf, T
  <1> QED BY <1>11, <1>15 DEF E, n, r, T

(* The card of a payment moves to the newest bucket.                       *)
LEMMA CardMoves ==
    ASSUME NEW h \in Seq(Event), NEW x \in Event, x.card # NoCard,
           NEW idx, idx = BucketOf(DistinctWindow, x.t), NEW old \in Int, old <= idx,
           NEW cards \in CardTables, Tracked(cards, h)
    PROVE  LET d == Put(cards, x.card, idx)
               g == Append(h, x)
           IN  /\ d \in CardTables /\ Tracked(d, g)
               /\ Alive(d, old) = Alive(cards, old) \cup {x.card}
               /\ \A i : Cardinality(InIdx(d, i)) =
                           Cardinality(InIdx(cards, i)) + (IF i = idx THEN 1 ELSE 0)
                             - (IF x.card \in InIdx(cards, i) THEN 1 ELSE 0)
               /\ (\A j \in InSpan(h, DistinctWindow, old) : BucketOf(DistinctWindow, h[j].t) <= idx)
                    /\ NoneMissed(cards, h, old) => NoneMissed(d, g, old)
  <1> DEFINE d == Put(cards, x.card, idx)
             g == Append(h, x)
             k == Len(h) + 1
             card == x.card
  <1>1. /\ DOMAIN g = DOMAIN h \cup {k} /\ g[k] = x /\ \A i \in DOMAIN h : g[i] = h[i]
        /\ InSpan(g, DistinctWindow, old) = InSpan(h, DistinctWindow, old) \cup {k}
        /\ InSpan(h, DistinctWindow, old) \subseteq DOMAIN h
    BY OneMore, OneMoreBucketed, SpanTypes, Config
  <1>2. card \in Cards /\ card # NoCard /\ idx \in Int
    BY EventTypes, Buckets, Config
  <1>3. /\ DOMAIN d = DOMAIN cards \cup {card} /\ d[card] = idx
        /\ \A c \in DOMAIN cards : c # card => d[c] = cards[c]
    BY DEF Put
  <1>4. /\ \A c \in DOMAIN cards : cards[c] \in Int /\ c \in Cards
        /\ \A i : IsFiniteSet(InIdx(cards, i)) /\ Cardinality(InIdx(cards, i)) \in Nat
    BY CardsTypes
  <1>5. d \in CardTables
    <2>1. d \in [DOMAIN cards \cup {card} -> Int]
      BY <1>2, <1>4 DEF Put
    <2>2. DOMAIN cards \cup {card} \in SUBSET Cards
      BY <1>2, <1>4
    <2> HIDE DEF d, card
    <2> QED BY <2>1, <2>2 DEF CardTables
  <1> HIDE DEF d, g, k, card
  <1>6. Tracked(d, g)
    <2>1. ASSUME NEW c \in DOMAIN d
          PROVE  c # NoCard /\ \E j \in DOMAIN g :
                   g[j].card = c /\ BucketOf(DistinctWindow, g[j].t) = d[c]
      <3>1. CASE c = card
        BY <3>1, <1>1, <1>2, <1>3 DEF card
      <3>2. CASE c # card
        <4>1. c \in DOMAIN cards /\ d[c] = cards[c]
          BY <3>2, <1>3
        <4>2. c # NoCard
          BY <4>1 DEF Tracked
        <4>3. PICK j \in DOMAIN h : h[j].card = c /\ BucketOf(DistinctWindow, h[j].t) = cards[c]
          BY <4>1 DEF Tracked
        <4> QED BY <4>1, <4>2, <4>3, <1>1
      <3> QED BY <3>1, <3>2
    <2> QED BY <2>1 DEF Tracked
  <1>7. Alive(d, old) = Alive(cards, old) \cup {card}
    BY <1>2, <1>3 DEF Alive
  <1>8. ASSUME NEW i
        PROVE  Cardinality(InIdx(d, i)) =
                 Cardinality(InIdx(cards, i)) + (IF i = idx THEN 1 ELSE 0)
                   - (IF card \in InIdx(cards, i) THEN 1 ELSE 0)
    <2> DEFINE A == InIdx(cards, i) n == Cardinality(A)
    <2>1. IsFiniteSet(A) /\ n \in Nat
      BY <1>4
    <2>2. i = idx => InIdx(d, i) = A \cup {card}
      BY <1>3 DEF InIdx
    <2>3. i # idx => InIdx(d, i) = A \ {card}
      BY <1>3 DEF InIdx
    <2>4. card \in A => Cardinality(A \ {card}) = n - 1 /\ A \cup {card} = A
      <3>1. card \in A => Cardinality(A \ {card}) = n - 1
        <4> HIDE DEF A
        <4> QED BY <2>1, FS_RemoveElement
      <3> QED BY <3>1
    <2>5. card \notin A => Cardinality(A \cup {card}) = n + 1 /\ A \ {card} = A
      <3>1. card \notin A => Cardinality(A \cup {card}) = n + 1
        <4> HIDE DEF A
        <4> QED BY <2>1, FS_AddElement
      <3> QED BY <3>1
    <2> DEFINE m == Cardinality(InIdx(d, i))
    <2>6. /\ i = idx /\ card \in A => m = n
          /\ i = idx /\ card \notin A => m = n + 1
          /\ i # idx /\ card \in A => m = n - 1
          /\ i # idx /\ card \notin A => m = n
      BY <2>2, <2>3, <2>4, <2>5
    <2> HIDE DEF n, m, A
    <2>7. m = n + (IF i = idx THEN 1 ELSE 0) - (IF card \in A THEN 1 ELSE 0)
      BY <2>1, <2>6
    <2> QED BY <2>7 DEF n, m, A
  <1>9. ASSUME \A j \in InSpan(h, DistinctWindow, old) : BucketOf(DistinctWindow, h[j].t) <= idx,
               NoneMissed(cards, h, old)
        PROVE  NoneMissed(d, g, old)
    <2>1. ASSUME NEW j \in InSpan(g, DistinctWindow, old), g[j].card # NoCard
          PROVE  g[j].card \in DOMAIN d /\ d[g[j].card] >= BucketOf(DistinctWindow, g[j].t)
      <3>1. CASE j = k
        BY <3>1, <1>1, <1>2, <1>3 DEF card
      <3>2. CASE j \in InSpan(h, DistinctWindow, old)
        <4>1. j \in DOMAIN h /\ g[j] = h[j]
          BY <3>2, <1>1
        <4>2. /\ h[j].card \in DOMAIN cards
              /\ cards[h[j].card] >= BucketOf(DistinctWindow, h[j].t)
              /\ BucketOf(DistinctWindow, h[j].t) <= idx
          BY <2>1, <3>2, <4>1, <1>9 DEF NoneMissed
        <4>3. CASE h[j].card = card
          BY <4>1, <4>2, <4>3, <1>3
        <4>4. CASE h[j].card # card
          BY <4>1, <4>2, <4>4, <1>3
        <4> QED BY <4>3, <4>4
      <3> QED BY <3>1, <3>2, <1>1
    <2> QED BY <2>1 DEF NoneMissed
  <1> QED BY <1>5, <1>6, <1>7, <1>8, <1>9 DEF d, g, card

(* Nothing but a new, empty label for the newest bucket.                   *)
LEMMA NewestLabelled ==
    ASSUME NEW h \in Seq(Event), NEW x \in Event, NEW old \in Int, NEW new \in Int, NEW q,
           Queue(q, h, DistinctWindow, old, new),
           NEW idx, idx = BucketOf(DistinctWindow, x.t), old <= idx, new <= idx,
           NEW cards, Tracked(cards, h), Labelled(q, cards)
    PROVE  Labelled(InNewest(q, idx, x.milli), cards)
  <1> DEFINE r == InNewest(q, idx, x.milli)
  <1>4. Gains(q, r, h, x, DistinctWindow, old, idx)
    BY QueueGrows, Config
  <1> HIDE DEF r
  <1>1. /\ r[Len(r)].idx = idx
        /\ \A i \in DOMAIN q : r[i].idx = q[i].idx /\ r[i].lastCards = q[i].lastCards
        /\ \A i \in DOMAIN r : i \notin DOMAIN q => /\ i = Len(r) /\ r[i].lastCards = 0
                                                    /\ InBucket(h, DistinctWindow, idx) = {}
    BY <1>4 DEF Gains
  <1> HIDE DEF r
  <1>2. InBucket(h, DistinctWindow, idx) = {} => InIdx(cards, idx) = {}
    BY DEF InIdx, InBucket, Tracked
  <1>3. Labelled(r, cards)
    BY <1>1, <1>2, FS_EmptySet DEF Labelled
  <1> QED BY <1>3 DEF r

(* The cards of a history with one event more.                             *)
LEMMA MoreCards ==
    ASSUME NEW h \in Seq(Event), NEW x \in Event
    PROVE  LET A == {h[j].card : j \in DOMAIN h} \ {NoCard}
           IN  /\ IsFiniteSet(A) /\ DistinctCards(h, DOMAIN h) = Cardinality(A)
               /\ DistinctCards(Append(h, x), DOMAIN Append(h, x)) = Cardinality((A \cup {x.card}) \ {NoCard})
               /\ FewCards(Append(h, x)) => FewCards(h)
  <1> DEFINE A == {h[j].card : j \in DOMAIN h} \ {NoCard}
             B == (A \cup {x.card}) \ {NoCard}
             g == Append(h, x)
             f == [j \in DOMAIN h |-> h[j].card]
  <1>1. DOMAIN g = DOMAIN h \cup {Len(h) + 1} /\ g[Len(h) + 1] = x /\ \A i \in DOMAIN h : g[i] = h[i]
    BY OneMore
  <1> HIDE DEF g
  <1>2. {g[j].card : j \in DOMAIN g} \ {NoCard} = B
    BY <1>1
  <1>3. IsFiniteSet(A)
    <2>1. IsFiniteSet(DOMAIN h)
      BY HistoryTypes, IntervalFinite
    <2>2. A = {f[j] : j \in DOMAIN h} \ {NoCard}
      OBVIOUS
    <2> HIDE DEF f, A
    <2>3. IsFiniteSet({f[j] : j \in DOMAIN h})
      BY <2>1, ImageFinite
    <2> QED BY <2>2, <2>3, FS_Subset
  <1>4. DistinctCards(h, DOMAIN h) = Cardinality(A) /\ DistinctCards(g, DOMAIN g) = Cardinality(B)
    BY <1>2 DEF DistinctCards
  <1>5. A \subseteq B /\ B \subseteq A \cup {x.card}
    OBVIOUS
  <1> HIDE DEF A, B
  <1>6. IsFiniteSet(B)
    BY <1>3, <1>5, FS_AddElement, FS_Subset
  <1>7. Cardinality(A) <= Cardinality(B) /\ Cardinality(A) \in Nat /\ Cardinality(B) \in Nat
    BY <1>5, <1>6, <1>3, FS_Subset, FS_CardinalityType
  <1>8. FewCards(g) => FewCards(h)
    BY <1>4, <1>7, Config DEF FewCards
  <1> QED BY <1>3, <1>4, <1>8 DEF A, B, g

-----------------------------------------------------------------------------
(* The bucketed entry: brought to a later time, and with one event more.   *)

(* The entries that occur.                                                 *)
BucketedEntry ==
    [win : [W -> Seq(Bucket)], count : [W -> Int], milli : [W -> Int], tracks : BOOLEAN,
     cards : CardTables, distinct : Int, first : Int, last : Int, started : BOOLEAN]
(* Each window's buckets and totals are those of the history's span at     *)
(* now.                                                                    *)
WindowsOf(e, h, now) ==
    \A w \in W : /\ Queue(e.win[w], h, w, Oldest(w, now), BucketOf(w, now))
                 /\ e.count[w] = Cardinality(InSpan(h, w, Oldest(w, now)))
                 /\ e.milli[w] = MilliSum(h, InSpan(h, w, Oldest(w, now)))
(* The table has not outgrown the cap.                                     *)
Roomy(cards) == Cardinality(DOMAIN cards) <= 2 * DistinctCap + CardSlack
(* The cards are those of the distinct window.                             *)
CardsKept(e, h, now) ==
    CardsOf(e.win[DistinctWindow], e.cards, e.distinct, e.tracks, h, Oldest(DistinctWindow, now))

(* An entry is its fields.                                                 *)
LEMMA BucketedIs ==
    ASSUME NEW e \in BucketedEntry
    PROVE  e = [win |-> e.win, count |-> e.count, milli |-> e.milli, tracks |-> e.tracks,
                cards |-> e.cards, distinct |-> e.distinct, first |-> e.first, last |-> e.last,
                started |-> e.started]
  BY DEF BucketedEntry

(* The newest bucket may be an older one.                                  *)
LEMMA QueueLater ==
    ASSUME NEW h, NEW w, NEW old, NEW new \in Int, NEW new2 \in Int, new <= new2,
           NEW q, Queue(q, h, w, old, new)
    PROVE  Queue(q, h, w, old, new2)
  <1>1. q \in Seq(Bucket)
    BY DEF Queue
  <1>2. \A i \in DOMAIN q : q[i].idx \in Int
    BY <1>1, QueueTypes
  <1>3. \A i \in DOMAIN q : q[i].idx <= new => q[i].idx <= new2
    BY <1>2
  <1> QED BY <1>3 DEF Queue

(* expire, field by field.                                                 *)
LEMMA ExpireFields ==
    ASSUME NEW e \in BucketedEntry, NEW now
    PROVE  LET x == ExpireBucketed(e, now)
               gone(w) == Expired(e, w, now)
           IN  /\ x.win = [w \in W |-> SubSeq(e.win[w], Cardinality(gone(w)) + 1, Len(e.win[w]))]
               /\ x.count = [w \in W |-> e.count[w] - CountIn(e.win[w], gone(w))]
               /\ x.milli = [w \in W |-> e.milli[w] - MilliIn(e.win[w], gone(w))]
               /\ x.distinct = e.distinct - CardsIn(e.win[DistinctWindow], gone(DistinctWindow))
               /\ x.tracks = e.tracks /\ x.cards = e.cards
               /\ x.first = e.first /\ x.last = e.last /\ x.started = e.started
               /\ x = [win |-> x.win, count |-> x.count, milli |-> x.milli, tracks |-> e.tracks,
                       cards |-> e.cards, distinct |-> x.distinct, first |-> e.first,
                       last |-> e.last, started |-> e.started]
  <1> DEFINE x == ExpireBucketed(e, now)
             gone == [w \in W |-> Expired(e, w, now)]
             win == [w \in W |-> SubSeq(e.win[w], Cardinality(gone[w]) + 1, Len(e.win[w]))]
             count == [w \in W |-> e.count[w] - CountIn(e.win[w], gone[w])]
             milli == [w \in W |-> e.milli[w] - MilliIn(e.win[w], gone[w])]
             distinct == e.distinct - CardsIn(e.win[DistinctWindow], gone[DistinctWindow])
  <1>0. e = [win |-> e.win, count |-> e.count, milli |-> e.milli, tracks |-> e.tracks,
             cards |-> e.cards, distinct |-> e.distinct, first |-> e.first, last |-> e.last,
             started |-> e.started]
    BY BucketedIs
  <1>1. x = [e EXCEPT !.win = win, !.count = count, !.milli = milli, !.distinct = distinct]
    BY <1>0 DEF ExpireBucketed
  <1>2. \A w \in W : gone[w] = Expired(e, w, now)
    OBVIOUS
  <1>3. gone[DistinctWindow] = Expired(e, DistinctWindow, now)
    BY <1>2, Config
  <1> HIDE DEF gone
  <1>4. /\ win = [w \in W |-> SubSeq(e.win[w], Cardinality(Expired(e, w, now)) + 1, Len(e.win[w]))]
        /\ count = [w \in W |-> e.count[w] - CountIn(e.win[w], Expired(e, w, now))]
        /\ milli = [w \in W |-> e.milli[w] - MilliIn(e.win[w], Expired(e, w, now))]
        /\ distinct = e.distinct - CardsIn(e.win[DistinctWindow], Expired(e, DistinctWindow, now))
    BY <1>2, <1>3
  <1> HIDE DEF x, win, count, milli, distinct
  <1>5. x = [win |-> win, count |-> count, milli |-> milli, tracks |-> e.tracks,
             cards |-> e.cards, distinct |-> distinct, first |-> e.first, last |-> e.last,
             started |-> e.started]
    BY <1>0, <1>1
  <1>6. /\ x.win = win /\ x.count = count /\ x.milli = milli /\ x.distinct = distinct
        /\ x.tracks = e.tracks /\ x.cards = e.cards
        /\ x.first = e.first /\ x.last = e.last /\ x.started = e.started
        /\ x = [win |-> x.win, count |-> x.count, milli |-> x.milli, tracks |-> e.tracks,
                cards |-> e.cards, distinct |-> x.distinct, first |-> e.first,
                last |-> e.last, started |-> e.started]
    BY <1>5
  <1> QED BY <1>4, <1>6 DEF x

(* An entry brought to a later time: what a read sees, and an add commits. *)
LEMMA Expires ==
    ASSUME NEW e \in BucketedEntry, NEW h \in Seq(Event), NEW last \in Int,
           WindowsOf(e, h, last), CardsKept(e, h, last), NEW now \in Int, last <= now
    PROVE  LET x == ExpireBucketed(e, now)
           IN  /\ x \in BucketedEntry /\ WindowsOf(x, h, now) /\ CardsKept(x, h, now)
               /\ x.tracks = e.tracks /\ x.first = e.first /\ x.started = e.started
  <1> DEFINE x == ExpireBucketed(e, now)
             E(w) == Expired(e, w, now)
             r(w) == SubSeq(e.win[w], Cardinality(E(w)) + 1, Len(e.win[w]))
  <1>1. /\ x.win = [w \in W |-> r(w)]
        /\ x.count = [w \in W |-> e.count[w] - CountIn(e.win[w], E(w))]
        /\ x.milli = [w \in W |-> e.milli[w] - MilliIn(e.win[w], E(w))]
    BY ExpireFields
  <1>2. /\ x.distinct = e.distinct - CardsIn(e.win[DistinctWindow], E(DistinctWindow))
        /\ x.tracks = e.tracks /\ x.cards = e.cards
        /\ x.first = e.first /\ x.last = e.last /\ x.started = e.started
        /\ x = [win |-> x.win, count |-> x.count, milli |-> x.milli, tracks |-> e.tracks,
                cards |-> e.cards, distinct |-> x.distinct, first |-> e.first,
                last |-> e.last, started |-> e.started]
    BY ExpireFields
  <1> HIDE DEF x, r, E
  <1>3. ASSUME NEW w \in W
        PROVE  /\ Queue(r(w), h, w, Oldest(w, now), BucketOf(w, now))
               /\ e.count[w] - CountIn(e.win[w], E(w)) = Cardinality(InSpan(h, w, Oldest(w, now)))
               /\ e.milli[w] - MilliIn(e.win[w], E(w)) = MilliSum(h, InSpan(h, w, Oldest(w, now)))
    <2> DEFINE q == e.win[w] old == Oldest(w, last) old2 == Oldest(w, now)
               new == BucketOf(w, last) new2 == BucketOf(w, now)
               S == InSpan(h, w, old) T == InSpan(h, w, old2)
    <2>1. old \in Int /\ old2 \in Int /\ old <= old2 /\ new \in Int /\ new2 \in Int /\ new <= new2
      BY Buckets
    <2>2. Queue(q, h, w, old, new) /\ e.count[w] = Cardinality(S) /\ e.milli[w] = MilliSum(h, S)
      BY DEF WindowsOf
    <2>3. E(w) = Older(q, old2)
      BY DEF E, Expired, Older
    <2>4. S \in SUBSET DOMAIN h /\ T \in SUBSET S
      BY <2>1, SpanTypes
    <2> HIDE DEF q, old, old2, new, new2
    <2>a. Leaves(q, Cardinality(E(w)), SubSeq(q, Cardinality(E(w)) + 1, Len(q)), h, w, old, new, old2)
      BY <2>1, <2>2, <2>3, QueueExpires
    <2>5. Queue(SubSeq(q, Cardinality(E(w)) + 1, Len(q)), h, w, old2, new)
      BY <2>a DEF Leaves
    <2>6. /\ CountIn(q, E(w)) = Cardinality(S) - Cardinality(T)
          /\ MilliIn(q, E(w)) = MilliSum(h, S) - MilliSum(h, T)
      BY <2>a, <2>3 DEF Leaves
    <2> HIDE DEF S, T
    <2>7. /\ Cardinality(S) \in Nat /\ Cardinality(T) \in Nat
          /\ MilliSum(h, S) \in Int /\ MilliSum(h, T) \in Int
      BY <2>4, MilliSumParts
    <2>8. Queue(r(w), h, w, old2, new2)
      BY <2>1, <2>5, QueueLater DEF r, q
    <2>9. e.count[w] - CountIn(q, E(w)) = Cardinality(T) /\ e.milli[w] - MilliIn(q, E(w)) = MilliSum(h, T)
      BY <2>2, <2>6, <2>7
    <2> QED BY <2>8, <2>9 DEF q, old2, new2, T
  <1>4. \A w \in W : /\ x.win[w] = r(w)
                     /\ x.count[w] = e.count[w] - CountIn(e.win[w], E(w))
                     /\ x.milli[w] = e.milli[w] - MilliIn(e.win[w], E(w))
    BY <1>1
  <1>5. WindowsOf(x, h, now)
    BY <1>3, <1>4 DEF WindowsOf
  <1>6. CardsKept(x, h, now)
    <2> DEFINE w == DistinctWindow q == e.win[w] old == Oldest(w, last) old2 == Oldest(w, now)
               cards == e.cards distinct == e.distinct tracks == e.tracks
               new == BucketOf(w, last)
    <2>1. w \in W
      BY Config
    <2>2. old \in Int /\ old2 \in Int /\ old <= old2
      BY <2>1, Buckets
    <2>3. Queue(q, h, w, old, new)
      BY <2>1 DEF WindowsOf
    <2>4. CardsOf(q, cards, distinct, tracks, h, old)
      BY DEF CardsKept
    <2>5. E(w) = Older(q, old2)
      BY DEF E, Expired, Older
    <2>6. x.distinct = distinct - CardsIn(q, E(w)) /\ x.win[w] = r(w)
      BY <1>2, <1>4, <2>1
    <2> HIDE DEF q, old, old2, cards, distinct, tracks, new
    <2>7. CardsOf(SubSeq(q, Cardinality(E(w)) + 1, Len(q)), cards, distinct - CardsIn(q, E(w)), tracks, h, old2)
      BY <2>2, <2>3, <2>4, <2>5, CardsExpire
    <2>8. CardsOf(x.win[w], cards, x.distinct, tracks, h, old2)
      BY <2>6, <2>7 DEF r, q
    <2> QED BY <2>8, <1>2 DEF CardsKept, cards, tracks, old2
  <1>7. x \in BucketedEntry
    <2>1. x.win \in [W -> Seq(Bucket)]
      BY <1>1, <1>3 DEF Queue
    <2>2. x.count \in [W -> Int] /\ x.milli \in [W -> Int]
      <3>1. \A w \in W : x.count[w] \in Int /\ x.milli[w] \in Int
        <4> TAKE w \in W
        <4>1. InSpan(h, w, Oldest(w, now)) \in SUBSET DOMAIN h
          BY SpanTypes
        <4> DEFINE T == InSpan(h, w, Oldest(w, now))
        <4>2. T \in SUBSET DOMAIN h
          BY <4>1
        <4> HIDE DEF T
        <4>4. Cardinality(T) \in Nat /\ MilliSum(h, T) \in Int /\ T \in SUBSET T
          BY <4>2, MilliSumParts
        <4>3. Cardinality(T) \in Int /\ MilliSum(h, T) \in Int
          BY <4>4
        <4> QED BY <4>3, <1>3, <1>4 DEF T
      <3> QED BY <3>1, <1>1
    <2>3. x.distinct \in Int
      <3>1. x.distinct = Cardinality(Alive(x.cards, Oldest(DistinctWindow, now)))
            /\ x.cards \in CardTables /\ Tracked(x.cards, h)
        BY <1>6 DEF CardsKept, CardsOf
      <3> QED BY <3>1, CardsTypes
    <2>4. /\ e.tracks \in BOOLEAN /\ e.cards \in CardTables /\ e.first \in Int /\ e.last \in Int
          /\ e.started \in BOOLEAN
      BY DEF BucketedEntry
    <2> QED BY <2>1, <2>2, <2>3, <2>4, <1>2 DEF BucketedEntry
  <1> QED BY <1>2, <1>5, <1>6, <1>7 DEF x

(* The entry y that addToBucket makes of x, field by field.                *)
AddedFields(y, x, ev) ==
    /\ y.win = [w \in W |-> InNewest(x.win[w], BucketOf(w, ev.t), ev.milli)]
    /\ y.count = [w \in W |-> x.count[w] + 1]
    /\ y.milli = [w \in W |-> x.milli[w] + ev.milli]
    /\ y.tracks = x.tracks /\ y.cards = x.cards /\ y.distinct = x.distinct
    /\ y.first = x.first /\ y.last = x.last /\ y.started = x.started
    /\ y = [win |-> y.win, count |-> y.count, milli |-> y.milli, tracks |-> x.tracks,
            cards |-> x.cards, distinct |-> x.distinct, first |-> x.first,
            last |-> x.last, started |-> x.started]

(* addToBucket, field by field.                                            *)
LEMMA AddToBucketsFields ==
    ASSUME NEW x \in BucketedEntry, NEW ev
    PROVE  AddedFields(AddToBuckets(x, ev), x, ev)
  <1> DEFINE y == AddToBuckets(x, ev)
             win == [w \in W |-> InNewest(x.win[w], BucketOf(w, ev.t), ev.milli)]
             count == [w \in W |-> x.count[w] + 1]
             milli == [w \in W |-> x.milli[w] + ev.milli]
  <1>0. x = [win |-> x.win, count |-> x.count, milli |-> x.milli, tracks |-> x.tracks,
             cards |-> x.cards, distinct |-> x.distinct, first |-> x.first, last |-> x.last,
             started |-> x.started]
    BY BucketedIs
  <1>1. y = [x EXCEPT !.win = win, !.count = count, !.milli = milli]
    BY <1>0 DEF AddToBuckets
  <1> HIDE DEF y, win, count, milli
  <1>2. y = [win |-> win, count |-> count, milli |-> milli, tracks |-> x.tracks,
             cards |-> x.cards, distinct |-> x.distinct, first |-> x.first, last |-> x.last,
             started |-> x.started]
    BY <1>0, <1>1
  <1>3. /\ y.win = win /\ y.count = count /\ y.milli = milli /\ y.distinct = x.distinct
        /\ y.tracks = x.tracks /\ y.cards = x.cards
        /\ y.first = x.first /\ y.last = x.last /\ y.started = x.started
        /\ y = [win |-> y.win, count |-> y.count, milli |-> y.milli, tracks |-> x.tracks,
                cards |-> x.cards, distinct |-> x.distinct, first |-> x.first,
                last |-> x.last, started |-> x.started]
    BY <1>2
  <1>4. AddedFields(y, x, ev)
    BY <1>3 DEF AddedFields, win, count, milli
  <1> QED BY <1>4 DEF y

(* An entry with the event ev in its newest buckets, its card not seen yet. *)
Counted(y, x, h, ev) ==
    /\ y \in BucketedEntry /\ WindowsOf(y, Append(h, ev), ev.t)
    /\ Labelled(y.win[DistinctWindow], y.cards)
    /\ \A w \in W : LET q == y.win[w]
                    IN  /\ q # <<>> /\ q[Len(q)].idx = BucketOf(w, ev.t)
                        /\ \A i \in DOMAIN q : i < Len(q) => q[i].idx < BucketOf(w, ev.t)
    /\ y.tracks = x.tracks /\ y.cards = x.cards /\ y.distinct = x.distinct
    /\ y.first = x.first /\ y.last = x.last /\ y.started = x.started

(* Every window's newest bucket has the event, and the totals count it.    *)
LEMMA BucketsCount ==
    ASSUME NEW x \in BucketedEntry, NEW h \in Seq(Event), NEW ev \in Event,
           WindowsOf(x, h, ev.t), CardsKept(x, h, ev.t)
    PROVE  Counted(AddToBuckets(x, ev), x, h, ev)
  <1> DEFINE y == AddToBuckets(x, ev)
             g == Append(h, ev)
             idx(w) == BucketOf(w, ev.t)
             old(w) == Oldest(w, ev.t)
             r(w) == InNewest(x.win[w], idx(w), ev.milli)
  <1>1. AddedFields(y, x, ev)
    BY AddToBucketsFields
  <1> HIDE DEF y
  <1>2. /\ y.tracks = x.tracks /\ y.cards = x.cards /\ y.distinct = x.distinct
        /\ y.first = x.first /\ y.last = x.last /\ y.started = x.started
        /\ y = [win |-> y.win, count |-> y.count, milli |-> y.milli, tracks |-> x.tracks,
                cards |-> x.cards, distinct |-> x.distinct, first |-> x.first,
                last |-> x.last, started |-> x.started]
    BY <1>1 DEF AddedFields
  <1>3. /\ y.win = [w \in W |-> r(w)]
        /\ y.count = [w \in W |-> x.count[w] + 1]
        /\ y.milli = [w \in W |-> x.milli[w] + ev.milli]
    BY <1>1 DEF AddedFields
  <1>4. \A w \in W : /\ y.win[w] = r(w) /\ y.count[w] = x.count[w] + 1
                     /\ y.milli[w] = x.milli[w] + ev.milli
    BY <1>3
  <1>5. ev.t \in Int /\ ev.milli \in Int
    BY EventTypes
  <1> HIDE DEF r, g, idx, old
  <1>6. \A w \in W : /\ idx(w) = BucketOf(w, ev.t) /\ idx(w) \in Int /\ old(w) = Oldest(w, ev.t)
                     /\ old(w) \in Int /\ old(w) <= idx(w)
    BY <1>5, Buckets DEF idx, old
  <1>7. ASSUME NEW w \in W
        PROVE  Gains(x.win[w], r(w), h, ev, w, old(w), idx(w))
    <2> DEFINE q == x.win[w] a == old(w) b == idx(w)
    <2>1. Queue(q, h, w, a, b) /\ a \in Int /\ b \in Int /\ a <= b /\ b <= b /\ b = BucketOf(w, ev.t)
      BY <1>6 DEF WindowsOf
    <2> HIDE DEF q, a, b
    <2>2. Gains(q, InNewest(q, b, ev.milli), h, ev, w, a, b)
      BY <2>1, QueueGrows
    <2> QED BY <2>2 DEF q, a, b, r
  <1>8. ASSUME NEW w \in W
        PROVE  /\ Cardinality(InSpan(g, w, old(w))) = Cardinality(InSpan(h, w, old(w))) + 1
               /\ MilliSum(g, InSpan(g, w, old(w))) = MilliSum(h, InSpan(h, w, old(w))) + ev.milli
    <2> DEFINE S == InSpan(h, w, old(w)) n == Len(h) + 1
    <2>1. InSpan(g, w, old(w)) = S \cup {n}
      BY <1>6, OneMoreBucketed DEF g
    <2>2. S \in SUBSET DOMAIN h
      BY SpanTypes
    <2> HIDE DEF S, n
    <2>3. Cardinality(S \cup {n}) = Cardinality(S) + 1 /\ MilliSum(g, S \cup {n}) = MilliSum(h, S) + ev.milli
      BY <2>2, OneMore DEF g, n
    <2> QED BY <2>1, <2>3 DEF S
  <1>9. WindowsOf(y, g, ev.t)
    <2>1. ASSUME NEW w \in W
          PROVE  /\ Queue(y.win[w], g, w, Oldest(w, ev.t), BucketOf(w, ev.t))
                 /\ y.count[w] = Cardinality(InSpan(g, w, Oldest(w, ev.t)))
                 /\ y.milli[w] = MilliSum(g, InSpan(g, w, Oldest(w, ev.t)))
      <3>1. Queue(r(w), g, w, old(w), idx(w))
        BY <1>7 DEF Gains, g
      <3>2. x.count[w] = Cardinality(InSpan(h, w, old(w))) /\ x.milli[w] = MilliSum(h, InSpan(h, w, old(w)))
        BY <1>6 DEF WindowsOf
      <3> QED BY <3>1, <3>2, <1>4, <1>6, <1>8
    <2> QED BY <2>1 DEF WindowsOf
  <1>10. Labelled(y.win[DistinctWindow], y.cards)
    <2> DEFINE w == DistinctWindow q == x.win[w] a == old(w) b == idx(w) cards == x.cards
    <2>0. w \in W
      BY Config
    <2>1. Queue(q, h, w, a, b) /\ a \in Int /\ b \in Int /\ a <= b /\ b = BucketOf(w, ev.t) /\ b <= b
      BY <2>0, <1>6 DEF WindowsOf
    <2>2. Tracked(cards, h) /\ Labelled(q, cards)
      BY DEF CardsKept, CardsOf
    <2> HIDE DEF q, a, b, cards
    <2>3. Labelled(InNewest(q, b, ev.milli), cards)
      BY <2>1, <2>2, NewestLabelled
    <2> QED BY <2>0, <2>3, <1>2, <1>4 DEF q, b, r, cards
  <1>11. ASSUME NEW w \in W
         PROVE  LET q == y.win[w]
                IN  /\ q # <<>> /\ q[Len(q)].idx = BucketOf(w, ev.t)
                    /\ \A i \in DOMAIN q : i < Len(q) => q[i].idx < BucketOf(w, ev.t)
    BY <1>4, <1>6, <1>7 DEF Gains
  <1>12. y \in BucketedEntry
    <2>1. y.win \in [W -> Seq(Bucket)]
      <3>1. \A w \in W : r(w) \in Seq(Bucket)
        BY <1>7 DEF Gains, Queue
      <3> QED BY <3>1, <1>3
    <2>2. y.count \in [W -> Int] /\ y.milli \in [W -> Int]
      <3>1. x.count \in [W -> Int] /\ x.milli \in [W -> Int]
        BY DEF BucketedEntry
      <3> QED BY <3>1, <1>3, <1>5
    <2>3. /\ x.tracks \in BOOLEAN /\ x.cards \in CardTables /\ x.first \in Int /\ x.last \in Int
          /\ x.started \in BOOLEAN /\ x.distinct \in Int
      BY DEF BucketedEntry
    <2> QED BY <2>1, <2>2, <2>3, <1>2 DEF BucketedEntry
  <1>13. Counted(y, x, h, ev)
    BY <1>2, <1>9, <1>10, <1>11, <1>12 DEF Counted, g
  <1> QED BY <1>13 DEF y

(* q with other labels.                                                    *)
Relabels(r, q) == /\ r \in Seq(Bucket) /\ DOMAIN r = DOMAIN q
                  /\ \A i \in DOMAIN q : /\ r[i].idx = q[i].idx /\ r[i].count = q[i].count
                                         /\ r[i].milli = q[i].milli

(* Labels say nothing of the events.                                       *)
LEMMA RelabelledQueue ==
    ASSUME NEW q, NEW r, Relabels(r, q), NEW h, NEW w, NEW old, NEW new, Queue(q, h, w, old, new)
    PROVE  Queue(r, h, w, old, new)
  <1>1. Increasing(r)
    BY DEF Relabels, Queue, Increasing
  <1> QED BY <1>1 DEF Relabels, Queue

(* An entry with other labels, cards and count of cards.                   *)
Recarded(y, r, cards, distinct) ==
    [win |-> [y.win EXCEPT ![DistinctWindow] = r], count |-> y.count, milli |-> y.milli,
     tracks |-> y.tracks, cards |-> cards, distinct |-> distinct, first |-> y.first,
     last |-> y.last, started |-> y.started]
(* What an add leaves: an entry that knows the history g at time t.        *)
Knows(z, y, g, t) ==
    /\ z \in BucketedEntry /\ WindowsOf(z, g, t) /\ CardsKept(z, g, t)
    /\ \A w \in W : LET q == z.win[w]
                    IN  q # <<>> /\ q[Len(q)].idx = BucketOf(w, t)
    /\ z.tracks = y.tracks /\ z.first = y.first /\ z.last = y.last /\ z.started = y.started

(* Labels and cards that fit make an entry that knows the history.         *)
LEMMA RecardedKnows ==
    ASSUME NEW x, NEW h \in Seq(Event), NEW ev \in Event, NEW y, Counted(y, x, h, ev), NEW r,
           Relabels(r, y.win[DistinctWindow]), NEW cards, NEW distinct \in Int,
           CardsOf(r, cards, distinct, y.tracks, Append(h, ev), Oldest(DistinctWindow, ev.t))
    PROVE  Knows(Recarded(y, r, cards, distinct), y, Append(h, ev), ev.t)
  <1> DEFINE z == Recarded(y, r, cards, distinct)
             g == Append(h, ev)
             w == DistinctWindow
  <1>1. /\ y \in BucketedEntry /\ WindowsOf(y, g, ev.t)
        /\ \A v \in W : LET q == y.win[v]
                        IN  q # <<>> /\ q[Len(q)].idx = BucketOf(v, ev.t)
    BY DEF Counted
  <1>2. y.win \in [W -> Seq(Bucket)] /\ w \in W /\ y.win[w] \in Seq(Bucket)
    BY <1>1, Config DEF BucketedEntry
  <1>3. /\ z.win \in [W -> Seq(Bucket)] /\ z.win[w] = r /\ \A v \in W : v # w => z.win[v] = y.win[v]
    BY <1>2 DEF Recarded, Relabels
  <1>4. /\ z.count = y.count /\ z.milli = y.milli /\ z.tracks = y.tracks /\ z.cards = cards
        /\ z.distinct = distinct /\ z.first = y.first /\ z.last = y.last /\ z.started = y.started
        /\ z = [win |-> z.win, count |-> z.count, milli |-> z.milli, tracks |-> z.tracks,
                cards |-> z.cards, distinct |-> z.distinct, first |-> z.first, last |-> z.last,
                started |-> z.started]
    BY DEF Recarded
  <1> HIDE DEF z, g
  <1>5. z \in BucketedEntry
    <2>1. /\ y.count \in [W -> Int] /\ y.milli \in [W -> Int] /\ y.tracks \in BOOLEAN
          /\ y.first \in Int /\ y.last \in Int /\ y.started \in BOOLEAN
      BY <1>1 DEF BucketedEntry
    <2>2. cards \in CardTables
      BY DEF CardsOf
    <2> QED BY <2>1, <2>2, <1>3, <1>4 DEF BucketedEntry
  <1>6. Queue(r, g, w, Oldest(w, ev.t), BucketOf(w, ev.t))
    <2>1. Queue(y.win[w], g, w, Oldest(w, ev.t), BucketOf(w, ev.t))
      BY <1>1, <1>2 DEF WindowsOf
    <2> QED BY <2>1, RelabelledQueue
  <1>7. WindowsOf(z, g, ev.t)
    <2>1. ASSUME NEW v \in W PROVE Queue(z.win[v], g, v, Oldest(v, ev.t), BucketOf(v, ev.t))
      <3>1. CASE v = w
        BY <3>1, <1>3, <1>6
      <3>2. CASE v # w
        BY <3>2, <1>1, <1>3 DEF WindowsOf
      <3> QED BY <3>1, <3>2
    <2>2. \A v \in W : /\ z.count[v] = Cardinality(InSpan(g, v, Oldest(v, ev.t)))
                       /\ z.milli[v] = MilliSum(g, InSpan(g, v, Oldest(v, ev.t)))
      BY <1>1, <1>4 DEF WindowsOf
    <2> QED BY <2>1, <2>2 DEF WindowsOf
  <1>8. CardsKept(z, g, ev.t)
    BY <1>3, <1>4 DEF CardsKept, g
  <1>9. ASSUME NEW v \in W
        PROVE  LET q == z.win[v]
               IN  q # <<>> /\ q[Len(q)].idx = BucketOf(v, ev.t)
    <2>1. CASE v = w
      <3> DEFINE p == y.win[w] n == Len(p)
      <3>1. p # <<>> /\ p[n].idx = BucketOf(w, ev.t) /\ p \in Seq(Bucket)
        BY <1>1, <1>2
      <3>2. n \in Nat /\ DOMAIN p = 1 .. n /\ n # 0
        BY <3>1, QueueTypes, EmptySeq
      <3>3. r \in Seq(Bucket) /\ DOMAIN r = DOMAIN p /\ \A i \in DOMAIN p : r[i].idx = p[i].idx
        BY DEF Relabels
      <3> HIDE DEF p
      <3>4. Len(r) \in Nat /\ DOMAIN r = 1 .. Len(r)
        BY <3>3, QueueTypes
      <3>5. Len(r) = n
        BY <3>2, <3>3, <3>4
      <3>6. n \in DOMAIN p /\ r # <<>>
        BY <3>2, <3>3, <3>5, EmptySeq
      <3> QED BY <2>1, <1>3, <3>1, <3>3, <3>5, <3>6
    <2>2. CASE v # w
      BY <2>2, <1>1, <1>3
    <2> QED BY <2>1, <2>2
  <1> QED BY <1>4, <1>5, <1>7, <1>8, <1>9 DEF Knows, z, g

(* The front bucket decides whether a card is alive.                       *)
LEMMA LiveInFront ==
    ASSUME NEW h \in Seq(Event), NEW old \in Int, NEW new, NEW q, q # <<>>,
           Queue(q, h, DistinctWindow, old, new),
           NEW cards \in CardTables, Tracked(cards, h), NEW c \in DOMAIN cards
    PROVE  cards[c] >= Head(q).idx <=> c \in Alive(cards, old)
  <1> DEFINE w == DistinctWindow
  <1>1. /\ q \in Seq(Bucket) /\ Increasing(q) /\ Len(q) \in Nat /\ DOMAIN q = 1 .. Len(q)
        /\ \A i \in DOMAIN q : q[i].idx \in Int
    BY QueueTypes DEF Queue
  <1>2. Len(q) # 0 /\ 1 \in DOMAIN q /\ Head(q) = q[1]
    BY <1>1, EmptySeq
  <1>3. cards[c] \in Int
    BY CardsTypes
  <1>4. ASSUME cards[c] >= q[1].idx PROVE cards[c] >= old
    <2>1. old <= q[1].idx
      BY <1>2 DEF Queue
    <2> QED BY <1>1, <1>2, <1>3, <1>4, <2>1
  <1>5. ASSUME cards[c] >= old PROVE cards[c] >= q[1].idx
    <2>1. PICK j \in DOMAIN h : BucketOf(w, h[j].t) = cards[c]
      BY DEF Tracked
    <2>2. j \in InSpan(h, w, old)
      BY <1>5, <2>1 DEF InSpan
    <2>3. PICK i \in DOMAIN q : q[i].idx = cards[c]
      BY <2>1, <2>2 DEF Queue
    <2>4. i = 1 \/ 1 < i
      BY <1>1, <2>3
    <2>5. 1 < i => q[1].idx < q[i].idx
      BY <1>1, <1>2 DEF Increasing
    <2> QED BY <1>1, <1>2, <2>3, <2>4, <2>5
  <1> QED BY <1>2, <1>4, <1>5 DEF Alive

(* q with the labels m.                                                    *)
WithLabels(q, m) == [i \in DOMAIN q |-> [q[i] EXCEPT !.lastCards = m[i]]]
(* Labels that are numbers.                                                *)
LEMMA NewLabels ==
    ASSUME NEW q \in Seq(Bucket), NEW m, \A i \in DOMAIN q : m[i] \in Int
    PROVE  /\ Relabels(WithLabels(q, m), q)
           /\ \A i \in DOMAIN q : WithLabels(q, m)[i].lastCards = m[i]
  <1> DEFINE r == WithLabels(q, m)
  <1>1. Len(q) \in Nat /\ DOMAIN q = 1 .. Len(q) /\ \A i \in DOMAIN q : q[i] \in Bucket
    BY QueueTypes
  <1>2. ASSUME NEW i \in DOMAIN q
        PROVE  /\ r[i] \in Bucket /\ r[i].idx = q[i].idx /\ r[i].count = q[i].count
               /\ r[i].milli = q[i].milli /\ r[i].lastCards = m[i]
    <2> DEFINE a == q[i] n == m[i] b == r[i]
    <2>1. a \in Bucket /\ n \in Int /\ b = [a EXCEPT !.lastCards = n]
      BY <1>1 DEF WithLabels
    <2> HIDE DEF a, n, b
    <2>2. b = [idx |-> a.idx, count |-> a.count, milli |-> a.milli, lastCards |-> n]
          /\ a.idx \in Int /\ a.count \in Int /\ a.milli \in Int
      BY <2>1 DEF Bucket
    <2>3. b \in Bucket
      BY <2>1, <2>2 DEF Bucket
    <2> QED BY <2>2, <2>3 DEF a, n, b
  <1>3. r \in Seq(Bucket)
    <2>1. r = [i \in 1 .. Len(q) |-> r[i]]
      BY <1>1 DEF WithLabels
    <2>2. r \in [1 .. Len(q) -> Bucket]
      BY <2>1, <1>1, <1>2
    <2> QED BY <2>2, <1>1, SeqDef
  <1>4. DOMAIN r = DOMAIN q
    BY DEF WithLabels
  <1> QED BY <1>2, <1>3, <1>4 DEF Relabels

(* A card has its event in a longer history too.                           *)
LEMMA TrackedStill ==
    ASSUME NEW h \in Seq(Event), NEW ev \in Event, NEW cards, Tracked(cards, h)
    PROVE  Tracked(cards, Append(h, ev))
  <1> DEFINE g == Append(h, ev)
  <1>1. \A j \in DOMAIN h : j \in DOMAIN g /\ g[j] = h[j]
    BY OneMore
  <1> HIDE DEF g
  <1>2. Tracked(cards, g)
    BY <1>1 DEF Tracked
  <1> QED BY <1>2 DEF g

(* The card of an event moves to, or joins, the newest bucket.             *)
LEMMA CardCounted ==
    ASSUME NEW x \in BucketedEntry, NEW h \in Seq(Event), NEW ev \in Event, ev.card # NoCard,
           WindowsOf(x, h, ev.t), CardsKept(x, h, ev.t), NEW y, Counted(y, x, h, ev), y.tracks
    PROVE  Knows(CountCard(y, ev.card), y, Append(h, ev), ev.t)
  <1> DEFINE w == DistinctWindow
             q == y.win[w]
             g == Append(h, ev)
             idx == BucketOf(w, ev.t)
             old == Oldest(w, ev.t)
             cards == y.cards
             card == ev.card
             d == Put(cards, card, idx)
             z == CountCard(y, card)
             n == Len(q)
             live == card \in DOMAIN cards /\ cards[card] >= Head(q).idx
  <1>1. /\ y \in BucketedEntry /\ WindowsOf(y, g, ev.t) /\ Labelled(q, cards)
        /\ y.cards = x.cards /\ y.distinct = x.distinct /\ y.tracks = x.tracks
    BY DEF Counted
  <1>2. w \in W /\ ev.t \in Int /\ idx \in Int /\ old \in Int /\ old <= idx
        /\ card \in Cards
    BY EventTypes, Buckets, Config
  <1>3. /\ q # <<>> /\ q[n].idx = idx /\ \A i \in DOMAIN q : i < n => q[i].idx < idx
    BY <1>2 DEF Counted
  <1>4. Queue(q, g, w, old, idx)
    BY <1>1, <1>2 DEF WindowsOf
  <1>5. /\ q \in Seq(Bucket) /\ n \in Nat /\ DOMAIN q = 1 .. n /\ n # 0 /\ n \in DOMAIN q
        /\ \A i \in DOMAIN q : q[i].idx \in Int /\ q[i].lastCards \in Int
    <2>1. q \in Seq(Bucket)
      BY <1>4 DEF Queue
    <2> QED BY <2>1, <1>3, QueueTypes, EmptySeq
  <1>6. /\ cards \in CardTables /\ Tracked(cards, h) /\ y.distinct = Cardinality(Alive(cards, old))
        /\ y.distinct <= DistinctCap /\ (FewCards(h) => NoneMissed(cards, h, old))
    BY <1>1 DEF CardsKept, CardsOf
  <1>7. \A j \in InSpan(h, w, old) : BucketOf(w, h[j].t) <= idx
    <2>1. Queue(x.win[w], h, w, old, idx)
      BY <1>2 DEF WindowsOf
    <2> QED BY <2>1 DEF Queue
  <1>8. Last(q) = q[n]
    BY DEF Last
  <1>9. live <=> card \in Alive(cards, old)
    <2>1. card \in DOMAIN cards => (cards[card] >= Head(q).idx <=> card \in Alive(cards, old))
      <3>1. g \in Seq(Event) /\ Tracked(cards, g)
        BY <1>6, OneMore, TrackedStill
      <3> HIDE DEF q, idx, old, cards, card, g
      <3> QED BY <1>2, <1>3, <1>4, <1>6, <3>1, LiveInFront
    <2>2. card \in Alive(cards, old) => card \in DOMAIN cards
      BY DEF Alive
    <2> HIDE DEF q, old, cards, card
    <2> QED BY <2>1, <2>2
  <1>10. /\ d \in CardTables /\ Tracked(d, g) /\ Alive(d, old) = Alive(cards, old) \cup {card}
         /\ \A i : Cardinality(InIdx(d, i)) =
                     Cardinality(InIdx(cards, i)) + (IF i = idx THEN 1 ELSE 0)
                       - (IF card \in InIdx(cards, i) THEN 1 ELSE 0)
         /\ (NoneMissed(cards, h, old) => NoneMissed(d, g, old))
    <2> HIDE DEF cards, old, w
    <2>1. d \in CardTables /\ Tracked(d, g)
      BY <1>2, <1>6, CardMoves DEF w
    <2>2. Alive(d, old) = Alive(cards, old) \cup {card}
      BY <1>2, <1>6, CardMoves DEF w
    <2>3. \A i : Cardinality(InIdx(d, i)) =
                   Cardinality(InIdx(cards, i)) + (IF i = idx THEN 1 ELSE 0)
                     - (IF card \in InIdx(cards, i) THEN 1 ELSE 0)
      BY <1>2, <1>6, CardMoves DEF w
    <2>4. NoneMissed(cards, h, old) => NoneMissed(d, g, old)
      BY <1>2, <1>6, <1>7, CardMoves DEF w
    <2> QED BY <2>1, <2>2, <2>3, <2>4
  <1>11. FewCards(g) => FewCards(h)
    BY MoreCards
  <1>12. /\ \A i : Cardinality(InIdx(cards, i)) \in Nat
         /\ IsFiniteSet(Alive(cards, old)) /\ Cardinality(Alive(cards, old)) \in Nat
    <2> HIDE DEF cards, old
    <2> QED BY <1>6, CardsTypes
  <1>13. y = [win |-> y.win, count |-> y.count, milli |-> y.milli, tracks |-> y.tracks,
              cards |-> y.cards, distinct |-> y.distinct, first |-> y.first, last |-> y.last,
              started |-> y.started] /\ y.win \in [W -> Seq(Bucket)] /\ y.distinct \in Int
    BY <1>1, BucketedIs DEF BucketedEntry
  <1> DEFINE moved == Moved(q, card, cards[card], idx)
             counted == [q EXCEPT ![n].lastCards = @ + 1]
  <1>14. CASE live
    <2>1. card \in DOMAIN cards
      BY <1>14
    <2>2. z = Recarded(y, moved, d, y.distinct)
      <3>1. z = [y EXCEPT !.win[w] = moved, !.cards[card] = idx]
        BY <1>3, <1>8, <1>14 DEF CountCard
      <3>2. [cards EXCEPT ![card] = idx] = d
        <4> HIDE DEF idx, card
        <4>1. cards = [c \in DOMAIN cards |-> cards[c]]
          BY <1>6 DEF CardTables
        <4> QED BY <4>1, <2>1 DEF Put
      <3> DEFINE m == moved e == d i0 == idx
      <3>3. z = [y EXCEPT !.win[w] = m, !.cards[card] = i0] /\ [y.cards EXCEPT ![card] = i0] = e
        BY <3>1, <3>2
      <3> HIDE DEF z, m, e, i0, w, card
      <3>4. z = [win |-> [y.win EXCEPT ![w] = m], count |-> y.count, milli |-> y.milli,
                 tracks |-> y.tracks, cards |-> [y.cards EXCEPT ![card] = i0],
                 distinct |-> y.distinct, first |-> y.first,
                 last |-> y.last, started |-> y.started]
        BY <3>3, <1>13
      <3>5. z = Recarded(y, m, e, y.distinct)
        BY <3>3, <3>4 DEF Recarded, w
      <3> QED BY <3>5 DEF m, e
    <2> DEFINE lab == [i \in DOMAIN q |-> q[i].lastCards + (IF q[i].idx = idx THEN 1 ELSE 0)
                                            - (IF q[i].idx = cards[card] THEN 1 ELSE 0)]
    <2>3. Relabels(moved, q) /\ \A i \in DOMAIN q : moved[i].lastCards = lab[i]
      <3>1. \A i \in DOMAIN q : lab[i] \in Int
        BY <1>5
      <3>2. moved = WithLabels(q, lab)
        <4>1. \A i \in DOMAIN q : [q[i] EXCEPT !.lastCards = lab[i]] =
                [q[i] EXCEPT !.lastCards = @ + (IF q[i].idx = idx THEN 1 ELSE 0)
                                             - (IF q[i].idx = cards[card] THEN 1 ELSE 0)]
          <5> TAKE i \in DOMAIN q
          <5>1. lab[i] = q[i].lastCards + (IF q[i].idx = idx THEN 1 ELSE 0)
                                            - (IF q[i].idx = cards[card] THEN 1 ELSE 0)
            OBVIOUS
          <5>2. q[i] \in Bucket
            BY <1>5, QueueTypes
          <5> HIDE DEF lab, q, idx, cards, card
          <5> QED BY <5>1, <5>2 DEF Bucket
        <4> HIDE DEF lab, q, idx, cards, card
        <4> QED BY <4>1 DEF Moved, WithLabels
      <3> HIDE DEF lab, moved, q
      <3> QED BY <3>1, <3>2, <1>5, NewLabels
    <2>4. Labelled(moved, d)
      <3>1. ASSUME NEW i \in DOMAIN q
            PROVE  moved[i].lastCards = Cardinality(InIdx(d, q[i].idx))
        <4>1. q[i].lastCards = Cardinality(InIdx(cards, q[i].idx))
          BY <1>1 DEF Labelled
        <4>2. card \in InIdx(cards, q[i].idx) <=> q[i].idx = cards[card]
          BY <2>1 DEF InIdx
        <4>3. moved[i].lastCards = q[i].lastCards + (IF q[i].idx = idx THEN 1 ELSE 0)
                                            - (IF q[i].idx = cards[card] THEN 1 ELSE 0)
          BY <2>3
        <4> HIDE DEF moved, lab, d, q, cards, idx, card
        <4> QED BY <4>1, <4>2, <4>3, <1>10
      <3> HIDE DEF moved, d, q
      <3> QED BY <3>1, <2>3 DEF Labelled, Relabels
    <2>5. Alive(d, old) = Alive(cards, old)
      BY <1>9, <1>10, <1>14
    <2>6. CardsOf(moved, d, y.distinct, y.tracks, g, old)
      <3> HIDE DEF moved, d, q, cards, old, g
      <3> QED BY <2>4, <2>5, <1>6, <1>10, <1>11 DEF CardsOf
    <2>7. Knows(Recarded(y, moved, d, y.distinct), y, g, ev.t)
      <3> HIDE DEF moved, d, cards, live, lab
      <3> QED BY <2>3, <2>6, <1>13, RecardedKnows
    <2> QED BY <2>2, <2>7
  <1>15. CASE ~live /\ y.distinct < DistinctCap
    <2>1. card \notin Alive(cards, old)
      BY <1>9, <1>15
    <2>2. z = Recarded(y, counted, d, y.distinct + 1)
      <3> DEFINE m == counted e == d
      <3>3. z = [y EXCEPT !.win[w] = m, !.cards = e, !.distinct = @ + 1]
        BY <1>3, <1>8, <1>15 DEF CountCard, OneCardMore
      <3> HIDE DEF z, m, e, w
      <3>4. z = [win |-> [y.win EXCEPT ![w] = m], count |-> y.count, milli |-> y.milli,
                 tracks |-> y.tracks, cards |-> e,
                 distinct |-> y.distinct + 1, first |-> y.first,
                 last |-> y.last, started |-> y.started]
        BY <3>3, <1>13
      <3>5. z = Recarded(y, m, e, y.distinct + 1)
        BY <3>4 DEF Recarded, w
      <3> QED BY <3>5 DEF m, e
    <2> DEFINE lab == [i \in DOMAIN q |-> q[i].lastCards + (IF i = n THEN 1 ELSE 0)]
    <2>3. Relabels(counted, q) /\ \A i \in DOMAIN q : counted[i].lastCards = lab[i]
      <3>1. \A i \in DOMAIN q : lab[i] \in Int
        BY <1>5
      <3>2. counted = WithLabels(q, lab)
        <4>1. \A i \in DOMAIN q : [q[i] EXCEPT !.lastCards = lab[i]] =
                IF i = n THEN [q[i] EXCEPT !.lastCards = @ + 1] ELSE q[i]
          <5> TAKE i \in DOMAIN q
          <5>1. lab[i] = q[i].lastCards + (IF i = n THEN 1 ELSE 0)
            OBVIOUS
          <5>2. q[i] \in Bucket
            BY <1>5, QueueTypes
          <5>3. q[i].lastCards \in Int
            BY <1>5
          <5> HIDE DEF lab, q, n
          <5>4. i = n => lab[i] = q[i].lastCards + 1
            BY <5>1
          <5>5. i # n => lab[i] = q[i].lastCards
            BY <5>1, <5>3
          <5> QED BY <5>4, <5>5, <5>2 DEF Bucket
        <4> HIDE DEF lab, q, n
        <4>2. q = [i \in DOMAIN q |-> q[i]]
          <5>1. q = [i \in 1 .. Len(q) |-> q[i]]
            BY <1>5, LenProperties
          <5> QED BY <5>1, <1>5, LenProperties
        <4>3. counted = [i \in DOMAIN q |-> IF i = n THEN [q[i] EXCEPT !.lastCards = @ + 1] ELSE q[i]]
          BY <4>2, <1>5
        <4> QED BY <4>1, <4>3 DEF WithLabels
      <3> HIDE DEF lab, counted, q
      <3> QED BY <3>1, <3>2, <1>5, NewLabels
    <2>4. Labelled(counted, d)
      <3>1. ASSUME NEW i \in DOMAIN q
            PROVE  counted[i].lastCards = Cardinality(InIdx(d, q[i].idx))
        <4>1. q[i].lastCards = Cardinality(InIdx(cards, q[i].idx))
          BY <1>1 DEF Labelled
        <4>2. card \notin InIdx(cards, q[i].idx)
          <5>1. old <= q[i].idx
            BY <1>4 DEF Queue
          <5> QED BY <5>1, <2>1, <1>2, <1>5 DEF InIdx, Alive
        <4>3. counted[i].lastCards = q[i].lastCards + (IF i = n THEN 1 ELSE 0)
          BY <2>3
        <4>4. i = n <=> q[i].idx = idx
          <5>1. i \in 1 .. n
            BY <1>5
          <5>2. i = n \/ (i < n /\ q[i].idx < idx)
            BY <5>1, <1>3, <1>5
          <5> QED BY <5>2, <1>2, <1>3, <1>5
        <4> HIDE DEF counted, lab, d, q, cards, idx, card, n
        <4>5. Cardinality(InIdx(cards, q[i].idx)) \in Nat
          BY <1>12
        <4> QED BY <4>1, <4>2, <4>3, <4>4, <4>5, <1>10
      <3> HIDE DEF counted, d, q
      <3> QED BY <3>1, <2>3 DEF Labelled, Relabels
    <2>5. Cardinality(Alive(d, old)) = y.distinct + 1
      <3> DEFINE A == Alive(cards, old)
      <3> HIDE DEF A
      <3>1. IsFiniteSet(A) /\ card \notin A /\ Alive(d, old) = A \cup {card} /\ y.distinct = Cardinality(A)
        BY <2>1, <1>6, <1>10, <1>12 DEF A
      <3>2. Cardinality(A \cup {card}) = Cardinality(A) + 1
        BY <3>1, FS_AddElement
      <3> HIDE DEF d, old
      <3> QED BY <3>1, <3>2
    <2>6. CardsOf(counted, d, y.distinct + 1, y.tracks, g, old)
      <3>1. y.distinct + 1 <= DistinctCap
        BY <1>13, <1>15, Config
      <3> HIDE DEF counted, d, q, cards, old, g
      <3> QED BY <2>4, <2>5, <3>1, <1>6, <1>10, <1>11 DEF CardsOf
    <2>7. Knows(Recarded(y, counted, d, y.distinct + 1), y, g, ev.t)
      <3>1. y.distinct + 1 \in Int
        BY <1>13
      <3> HIDE DEF counted, d, cards, live, lab
      <3> QED BY <2>3, <2>6, <3>1, RecardedKnows
    <2> QED BY <2>2, <2>7
  <1>16. CASE ~live /\ ~(y.distinct < DistinctCap)
    <2>1. card \notin Alive(cards, old)
      BY <1>9, <1>16
    <2>2. z = y
      BY <1>16 DEF CountCard
    <2>3. y = Recarded(y, q, cards, y.distinct)
      <3>1. [y.win EXCEPT ![w] = q] = y.win
        BY <1>13
      <3> QED BY <3>1, <1>13 DEF Recarded
    <2>4. ~FewCards(g)
      <3> DEFINE A == {h[j].card : j \in DOMAIN h} \ {NoCard}
                 B == (A \cup {card}) \ {NoCard}
                 L == Alive(cards, old)
      <3>1. IsFiniteSet(A) /\ DistinctCards(g, DOMAIN g) = Cardinality(B)
        BY MoreCards
      <3>2. L \subseteq A
        BY <1>6 DEF Alive, Tracked
      <3>3. B = A \cup {card}
        OBVIOUS
      <3>4. IsFiniteSet(L) /\ Cardinality(L) \in Nat /\ Cardinality(L) = y.distinct
        BY <1>6, <1>12
      <3> HIDE DEF A, L, B
      <3>5. L \cup {card} \subseteq B /\ IsFiniteSet(B)
        BY <3>1, <3>2, <3>3, FS_AddElement
      <3>6. Cardinality(L \cup {card}) = Cardinality(L) + 1
        BY <2>1, <3>4, FS_AddElement DEF L
      <3>7. Cardinality(L \cup {card}) <= Cardinality(B) /\ Cardinality(B) \in Nat
        BY <3>5, FS_Subset, FS_CardinalityType
      <3>8. DistinctCap <= Cardinality(L)
        BY <3>4, <1>16, Config
      <3>9. ~(Cardinality(B) <= DistinctCap)
        BY <3>4, <3>6, <3>7, <3>8, Config
      <3> QED BY <3>1, <3>9 DEF FewCards
    <2>5. Tracked(cards, g)
      <3> HIDE DEF cards
      <3> QED BY <1>6, TrackedStill
    <2>6. CardsOf(q, cards, y.distinct, y.tracks, g, old)
      <3> HIDE DEF q, cards, old, g
      <3> QED BY <2>4, <2>5, <1>1, <1>6 DEF CardsOf
    <2>7. Relabels(q, q)
      BY <1>5 DEF Relabels
    <2>8. Knows(Recarded(y, q, cards, y.distinct), y, g, ev.t)
      <3> HIDE DEF cards, live
      <3> QED BY <2>6, <2>7, <1>13, RecardedKnows
    <2> QED BY <2>2, <2>3, <2>8
  <1> QED BY <1>14, <1>15, <1>16

(* A snapshot, and a sweep of the table, keep the cards that are alive.    *)
LEMMA KeptAlive ==
    ASSUME NEW h \in Seq(Event), NEW cards \in CardTables, Tracked(cards, h), NEW old \in Int
    PROVE  LET a == Restrict(cards, Alive(cards, old))
           IN  /\ a \in CardTables /\ Tracked(a, h) /\ DOMAIN a = Alive(cards, old)
               /\ \A old2 \in Int : old <= old2 => Alive(a, old2) = Alive(cards, old2)
               /\ NoneMissed(cards, h, old) => NoneMissed(a, h, old)
  <1> DEFINE A == Alive(cards, old) a == Restrict(cards, A)
  <1>1. \A c \in DOMAIN cards : cards[c] \in Int /\ c \in Cards
    BY CardsTypes
  <1>2. A \subseteq DOMAIN cards /\ \A c \in DOMAIN cards : c \in A <=> cards[c] >= old
    BY DEF Alive
  <1>3. DOMAIN a = A /\ \A c \in A : a[c] = cards[c]
    BY DEF Restrict
  <1>4. a \in CardTables
    <2>1. A \in SUBSET Cards /\ a \in [A -> Int]
      BY <1>1, <1>2 DEF Restrict
    <2> QED BY <2>1 DEF CardTables
  <1> HIDE DEF a, A
  <1>5. Tracked(a, h)
    BY <1>2, <1>3 DEF Tracked
  <1>6. ASSUME NEW old2 \in Int, old <= old2 PROVE Alive(a, old2) = Alive(cards, old2)
    <2>1. \A c \in DOMAIN cards : cards[c] >= old2 => c \in A
      BY <1>1, <1>2, <1>6
    <2> QED BY <2>1, <1>2, <1>3 DEF Alive
  <1>7. ASSUME NoneMissed(cards, h, old) PROVE NoneMissed(a, h, old)
    <2>1. ASSUME NEW j \in InSpan(h, DistinctWindow, old), h[j].card # NoCard
          PROVE  h[j].card \in DOMAIN a /\ a[h[j].card] >= BucketOf(DistinctWindow, h[j].t)
      <3> DEFINE c == h[j].card i == BucketOf(DistinctWindow, h[j].t)
      <3>1. c \in DOMAIN cards /\ cards[c] >= i
        BY <1>7, <2>1 DEF NoneMissed
      <3>2. i \in Int /\ i >= old
        BY Config, SpanTypes DEF InSpan
      <3> HIDE DEF c, i
      <3>3. cards[c] >= old
        BY <1>1, <3>1, <3>2
      <3>4. c \in A
        BY <1>2, <3>1, <3>3
      <3> QED BY <1>3, <3>1, <3>4 DEF c, i
    <2> QED BY <2>1 DEF NoneMissed
  <1> QED BY <1>3, <1>4, <1>5, <1>6, <1>7 DEF a, A

(* What is left of an entry whose table is swept of the cards that expired: *)
(* it knows what it knew, and its table has not outgrown the cap.          *)
LEMMA CardsSwept ==
    ASSUME NEW z, NEW y, NEW g \in Seq(Event), NEW t \in Int, Knows(z, y, g, t)
    PROVE  Knows(SweepCards(z), y, g, t) /\ Roomy(SweepCards(z).cards)
  <1> DEFINE w == DistinctWindow
             q == z.win[w]
             cards == z.cards
             old == Oldest(w, t)
             A == Alive(cards, old)
             a == Restrict(cards, A)
             f == [z EXCEPT !.cards = a]
  <1>1. /\ z \in BucketedEntry /\ WindowsOf(z, g, t) /\ CardsKept(z, g, t)
        /\ \A v \in W : LET p == z.win[v]
                        IN  p # <<>> /\ p[Len(p)].idx = BucketOf(v, t)
        /\ z.tracks = y.tracks /\ z.first = y.first /\ z.last = y.last /\ z.started = y.started
    BY DEF Knows
  <1>2. /\ w \in W /\ old \in Int /\ DistinctCap \in Nat /\ CardSlack \in Nat
    BY Config, Buckets
  <1>3. /\ cards \in CardTables /\ Tracked(cards, g) /\ Labelled(q, cards)
        /\ ~z.tracks => DOMAIN cards = {}
        /\ z.distinct = Cardinality(A) /\ z.distinct <= DistinctCap
        /\ z.tracks /\ FewCards(g) => NoneMissed(cards, g, old)
    BY <1>1 DEF CardsKept, CardsOf
  <1>4. /\ IsFiniteSet(DOMAIN cards) /\ Cardinality(DOMAIN cards) \in Nat
        /\ Cardinality(A) \in Nat /\ A \subseteq DOMAIN cards
        /\ \A c \in DOMAIN cards : cards[c] \in Int
    <2> HIDE DEF cards, A
    <2> QED BY <1>3, CardsTypes, FS_CardinalityType DEF A
  <1>5. Queue(q, g, w, old, BucketOf(w, t)) /\ q # <<>>
    BY <1>1, <1>2 DEF WindowsOf
  <1>6. {c \in DOMAIN cards : cards[c] >= Head(q).idx} = A
    <2>1. ASSUME NEW c \in DOMAIN cards PROVE cards[c] >= Head(q).idx <=> c \in A
      <3> HIDE DEF q, cards, old
      <3> QED BY <1>2, <1>3, <1>5, LiveInFront
    <2> HIDE DEF q, cards, A
    <2> QED BY <2>1, <1>4
  <1>7. SweepCards(z) = IF Cardinality(DOMAIN cards) <= 2 * z.distinct + CardSlack THEN z ELSE f
    BY <1>6 DEF SweepCards
  <1>8. CASE Cardinality(DOMAIN cards) <= 2 * z.distinct + CardSlack
    <2> DEFINE n == Cardinality(DOMAIN cards) d == z.distinct
    <2>1. n \in Nat /\ d \in Nat /\ d <= DistinctCap /\ n <= 2 * d + CardSlack
      BY <1>3, <1>4, <1>8
    <2> HIDE DEF n, d
    <2>2. n <= 2 * DistinctCap + CardSlack
      BY <2>1, <1>2
    <2>3. Roomy(cards)
      BY <2>2 DEF Roomy, n
    <2> QED BY <1>7, <1>8, <2>3
  <1>9. CASE ~(Cardinality(DOMAIN cards) <= 2 * z.distinct + CardSlack)
    <2>1. /\ a \in CardTables /\ Tracked(a, g) /\ DOMAIN a = A /\ Alive(a, old) = A
          /\ NoneMissed(cards, g, old) => NoneMissed(a, g, old)
      <3> HIDE DEF cards, old
      <3> QED BY <1>2, <1>3, KeptAlive
    <2>2. Labelled(q, a)
      <3>1. ASSUME NEW i \in DOMAIN q PROVE InIdx(a, q[i].idx) = InIdx(cards, q[i].idx)
        <4> DEFINE b == q[i].idx
        <4>1. b \in Int /\ old <= b
          <5>1. q \in Seq(Bucket) /\ old <= b
            BY <1>5 DEF Queue
          <5> QED BY <5>1, QueueTypes
        <4>2. \A c \in A : a[c] = cards[c]
          BY DEF Restrict
        <4> HIDE DEF b, old, a, cards
        <4>3. \A c \in DOMAIN cards : cards[c] = b => c \in A
          BY <4>1 DEF Alive
        <4> HIDE DEF A
        <4>4. InIdx(a, b) = InIdx(cards, b)
          BY <2>1, <1>4, <4>2, <4>3 DEF InIdx
        <4> QED BY <4>4 DEF b
      <3> HIDE DEF a, cards, q
      <3> QED BY <3>1, <1>3 DEF Labelled
    <2>3. Roomy(a)
      <3> DEFINE d == Cardinality(DOMAIN a)
      <3>1. d \in Nat /\ d <= DistinctCap
        BY <1>3, <1>4, <2>1
      <3> HIDE DEF d
      <3>2. d <= 2 * DistinctCap + CardSlack
        BY <3>1, <1>2
      <3> QED BY <3>2 DEF Roomy, d
    <2>4. z = [win |-> z.win, count |-> z.count, milli |-> z.milli, tracks |-> z.tracks,
               cards |-> z.cards, distinct |-> z.distinct, first |-> z.first, last |-> z.last,
               started |-> z.started]
      BY <1>1, BucketedIs
    <2> HIDE DEF a
    <2>5. f = [win |-> z.win, count |-> z.count, milli |-> z.milli, tracks |-> z.tracks,
               cards |-> a, distinct |-> z.distinct, first |-> z.first, last |-> z.last,
               started |-> z.started]
      BY <2>4
    <2>6. f \in BucketedEntry
      BY <1>1, <2>1, <2>5 DEF BucketedEntry
    <2>7. /\ f.win = z.win /\ f.count = z.count /\ f.milli = z.milli /\ f.tracks = z.tracks
          /\ f.cards = a /\ f.distinct = z.distinct /\ f.first = z.first /\ f.last = z.last
          /\ f.started = z.started
      BY <2>5
    <2> HIDE DEF f
    <2>8. WindowsOf(f, g, t)
      BY <1>1, <2>7 DEF WindowsOf
    <2>9. CardsKept(f, g, t)
      <3>1. ~z.tracks => DOMAIN a = {}
        BY <1>3, <1>4, <2>1
      <3>2. CardsOf(q, a, z.distinct, z.tracks, g, old)
        <4> HIDE DEF q, cards, old, A
        <4>1. z.tracks /\ FewCards(g) => NoneMissed(a, g, old)
          BY <1>3, <2>1
        <4>2. z.distinct = Cardinality(Alive(a, old)) /\ z.distinct <= DistinctCap
          BY <1>3, <2>1
        <4> QED BY <2>1, <2>2, <3>1, <4>1, <4>2 DEF CardsOf
      <3> QED BY <2>7, <3>2 DEF CardsKept
    <2>10. Knows(f, y, g, t)
      BY <1>1, <2>6, <2>7, <2>8, <2>9 DEF Knows
    <2> QED BY <1>7, <1>9, <2>3, <2>7, <2>10
  <1> QED BY <1>8, <1>9

(* The card of an event is counted, and the table swept when it has to be. *)
LEMMA CardSeen ==
    ASSUME NEW x \in BucketedEntry, NEW h \in Seq(Event), NEW ev \in Event, ev.card # NoCard,
           WindowsOf(x, h, ev.t), CardsKept(x, h, ev.t), NEW y, Counted(y, x, h, ev), y.tracks
    PROVE  /\ Knows(AddCard(y, ev.card), y, Append(h, ev), ev.t)
           /\ Roomy(AddCard(y, ev.card).cards)
  <1> DEFINE z == CountCard(y, ev.card) g == Append(h, ev)
  <1>1. Knows(z, y, g, ev.t)
    BY CardCounted
  <1>2. g \in Seq(Event) /\ ev.t \in Int
    BY OneMore, EventTypes
  <1>3. AddCard(y, ev.card) = SweepCards(z)
    BY DEF AddCard
  <1> HIDE DEF z, g
  <1>4. Knows(SweepCards(z), y, g, ev.t) /\ Roomy(SweepCards(z).cards)
    BY <1>1, <1>2, CardsSwept
  <1> QED BY <1>3, <1>4 DEF g

(* Without a card, or for an entity that tracks none, nothing is left to   *)
(* do.                                                                     *)
LEMMA NoCardSeen ==
    ASSUME NEW x \in BucketedEntry, NEW h \in Seq(Event), NEW ev \in Event,
           CardsKept(x, h, ev.t), NEW y, Counted(y, x, h, ev), ~(y.tracks /\ ev.card # NoCard)
    PROVE  Knows(y, y, Append(h, ev), ev.t)
  <1> DEFINE w == DistinctWindow
             q == y.win[w]
             g == Append(h, ev)
             old == Oldest(w, ev.t)
             cards == y.cards
  <1>1. /\ y \in BucketedEntry /\ WindowsOf(y, g, ev.t) /\ Labelled(q, cards)
        /\ y.cards = x.cards /\ y.distinct = x.distinct /\ y.tracks = x.tracks
        /\ \A v \in W : y.win[v] # <<>> /\ y.win[v][Len(y.win[v])].idx = BucketOf(v, ev.t)
    BY DEF Counted
  <1>2. /\ cards \in CardTables /\ Tracked(cards, h) /\ y.distinct = Cardinality(Alive(cards, old))
        /\ y.distinct <= DistinctCap /\ (y.tracks /\ FewCards(h) => NoneMissed(cards, h, old))
        /\ (~y.tracks => DOMAIN cards = {})
    BY <1>1 DEF CardsKept, CardsOf
  <1>3. Tracked(cards, g)
    BY <1>2, TrackedStill
  <1>4. FewCards(g) => FewCards(h)
    BY MoreCards
  <1>5. /\ InSpan(g, w, old) \subseteq InSpan(h, w, old) \cup {Len(h) + 1}
        /\ g[Len(h) + 1] = ev /\ \A j \in InSpan(h, w, old) : g[j] = h[j]
    <2>1. /\ DOMAIN g = DOMAIN h \cup {Len(h) + 1}
          /\ g[Len(h) + 1] = ev /\ \A j \in DOMAIN h : g[j] = h[j]
      BY OneMore
    <2> HIDE DEF g
    <2> QED BY <2>1 DEF InSpan
  <1>6. y.tracks /\ FewCards(g) => NoneMissed(cards, g, old)
    <2>1. SUFFICES ASSUME y.tracks, FewCards(g) PROVE NoneMissed(cards, g, old)
      OBVIOUS
    <2>2. NoneMissed(cards, h, old) /\ ev.card = NoCard
      BY <2>1, <1>2, <1>4
    <2> HIDE DEF g, cards, old
    <2> QED BY <2>2, <1>5 DEF NoneMissed
  <1>7. CardsKept(y, g, ev.t)
    BY <1>1, <1>2, <1>3, <1>6 DEF CardsKept, CardsOf
  <1> QED BY <1>1, <1>7 DEF Knows

(* An add up to the first and last times.                                  *)
LEMMA BucketsAdd ==
    ASSUME NEW e \in BucketedEntry, NEW h \in Seq(Event), NEW last \in Int,
           WindowsOf(e, h, last), CardsKept(e, h, last), Roomy(e.cards),
           NEW ev \in Event, last <= ev.t
    PROVE  LET y == AddToBuckets(ExpireBucketed(e, ev.t), ev)
               z == IF e.tracks /\ ev.card # NoCard THEN AddCard(y, ev.card) ELSE y
           IN  /\ Knows(z, [e EXCEPT !.last = y.last], Append(h, ev), ev.t)
               /\ Roomy(z.cards)
  <1> DEFINE x == ExpireBucketed(e, ev.t)
             y == AddToBuckets(x, ev)
             z == IF e.tracks /\ ev.card # NoCard THEN AddCard(y, ev.card) ELSE y
             g == Append(h, ev)
  <1>1. ev.t \in Int
    BY EventTypes
  <1>2. /\ x \in BucketedEntry /\ WindowsOf(x, h, ev.t) /\ CardsKept(x, h, ev.t)
        /\ x.tracks = e.tracks /\ x.first = e.first /\ x.started = e.started
    BY <1>1, Expires
  <1>a. x.cards = e.cards
    BY ExpireFields
  <1> HIDE DEF x
  <1>3. Counted(y, x, h, ev)
    BY <1>2, BucketsCount
  <1> HIDE DEF y
  <1>4. /\ y.tracks = e.tracks /\ y.first = e.first /\ y.started = e.started
        /\ Roomy(y.cards)
    BY <1>2, <1>3, <1>a DEF Counted
  <1>5. Knows(z, y, g, ev.t) /\ Roomy(z.cards)
    <2>1. CASE e.tracks /\ ev.card # NoCard
      BY <2>1, <1>2, <1>3, <1>4, CardSeen
    <2>2. CASE ~(e.tracks /\ ev.card # NoCard)
      BY <2>2, <1>2, <1>3, <1>4, NoCardSeen
    <2> QED BY <2>1, <2>2
  <1> HIDE DEF z, g
  <1> DEFINE f == [e EXCEPT !.last = y.last]
  <1>6. f.tracks = e.tracks /\ f.first = e.first /\ f.started = e.started /\ f.last = y.last
    BY BucketedIs
  <1> HIDE DEF f
  <1>7. Knows(z, f, g, ev.t)
    BY <1>4, <1>5, <1>6 DEF Knows
  <1> QED BY <1>5, <1>7 DEF z, f, g, x, y

(* What a bucketed entry knows of key k with history h.                    *)
BucketedOf(e, h, k) ==
    /\ e \in BucketedEntry /\ WindowsOf(e, h, e.last) /\ CardsKept(e, h, e.last)
    /\ Roomy(e.cards)
    /\ \A w \in W : LET q == e.win[w]
                    IN  q # <<>> /\ q[Len(q)].idx = BucketOf(w, e.last)
    /\ h # <<>> /\ e.started /\ e.tracks = k.distinct
    /\ e.first = h[1].t /\ e.last = Last(h).t

(* The first and last times of an entry are set last.                      *)
LEMMA TouchedBucketed ==
    ASSUME NEW z, NEW y, NEW g, NEW t \in Int, Knows(z, y, g, t), Roomy(z.cards),
           NEW k, y.tracks = k.distinct,
           g # <<>>, Last(g).t = t, g[1].t = IF y.started THEN y.first ELSE t
    PROVE  BucketedOf(Touched(z, t), g, k)
  <1> DEFINE f == Touched(z, t)
             first == IF z.started THEN z.first ELSE t
  <1>1. /\ z \in BucketedEntry /\ WindowsOf(z, g, t) /\ CardsKept(z, g, t)
        /\ \A w \in W : LET q == z.win[w]
                        IN  q # <<>> /\ q[Len(q)].idx = BucketOf(w, t)
        /\ z.tracks = y.tracks /\ z.first = y.first /\ z.last = y.last /\ z.started = y.started
    BY DEF Knows
  <1>2. z = [win |-> z.win, count |-> z.count, milli |-> z.milli, tracks |-> z.tracks,
             cards |-> z.cards, distinct |-> z.distinct, first |-> z.first, last |-> z.last,
             started |-> z.started]
    BY <1>1, BucketedIs
  <1>3. f = [z EXCEPT !.first = first, !.last = t, !.started = TRUE]
    BY <1>2 DEF Touched
  <1>4. first = g[1].t /\ first \in Int
    BY <1>1 DEF BucketedEntry
  <1> HIDE DEF f, first
  <1>5. f = [win |-> z.win, count |-> z.count, milli |-> z.milli, tracks |-> z.tracks,
             cards |-> z.cards, distinct |-> z.distinct, first |-> first, last |-> t,
             started |-> TRUE]
    BY <1>2, <1>3
  <1>6. f \in BucketedEntry
    BY <1>1, <1>4, <1>5 DEF BucketedEntry
  <1>7. /\ f.win = z.win /\ f.count = z.count /\ f.milli = z.milli /\ f.tracks = z.tracks
        /\ f.cards = z.cards /\ f.distinct = z.distinct /\ f.first = first /\ f.last = t /\ f.started
    BY <1>5
  <1>8. WindowsOf(f, g, t) /\ CardsKept(f, g, t)
    BY <1>1, <1>7 DEF WindowsOf, CardsKept
  <1>9. BucketedOf(f, g, k)
    BY <1>1, <1>4, <1>6, <1>7, <1>8 DEF BucketedOf
  <1> QED BY <1>9 DEF f

(* A new entry knows the empty history, at any time.                       *)
LEMMA NewKnowsNothing ==
    ASSUME NEW distinct \in BOOLEAN, NEW t
    PROVE  LET e == NewBucketed(distinct)
           IN  /\ e \in BucketedEntry /\ WindowsOf(e, <<>>, t) /\ CardsKept(e, <<>>, t)
               /\ e.tracks = distinct /\ ~e.started /\ Roomy(e.cards)
  <1> DEFINE e == NewBucketed(distinct)
  <1>1. /\ e.win = [w \in W |-> <<>>] /\ e.count = Zero /\ e.milli = Zero /\ e.tracks = distinct
        /\ e.cards = <<>> /\ e.distinct = 0 /\ e.first = 0 /\ e.last = 0 /\ e.started = FALSE
        /\ e = [win |-> e.win, count |-> e.count, milli |-> e.milli, tracks |-> e.tracks,
                cards |-> e.cards, distinct |-> e.distinct, first |-> e.first, last |-> e.last,
                started |-> e.started]
    BY DEF NewBucketed
  <1> HIDE DEF e
  <1>2. <<>> \in CardTables /\ DOMAIN <<>> = {} /\ <<>> \in Seq(Bucket)
    <2>1. <<>> \in [{} -> Int] /\ {} \in SUBSET Cards
      OBVIOUS
    <2>2. <<>> \in CardTables
      BY <2>1 DEF CardTables
    <2> QED BY <2>2, EmptySeq
  <1>3. \A w \in W : e.win[w] = <<>> /\ e.count[w] = 0 /\ e.milli[w] = 0
    BY <1>1 DEF Zero
  <1>4. e \in BucketedEntry
    <2>1. e.win \in [W -> Seq(Bucket)] /\ e.count \in [W -> Int] /\ e.milli \in [W -> Int]
      BY <1>1, <1>2 DEF Zero
    <2>2. /\ e.tracks \in BOOLEAN /\ e.cards \in CardTables /\ e.distinct \in Int
          /\ e.first \in Int /\ e.last \in Int /\ e.started \in BOOLEAN
      <3>1. e.tracks = distinct /\ e.cards = <<>> /\ e.distinct = 0 /\ e.first = 0 /\ e.last = 0
            /\ e.started = FALSE
        BY <1>1, Zenon
      <3>2. e.tracks \in BOOLEAN /\ e.cards \in CardTables /\ e.started \in BOOLEAN
        BY <3>1, <1>2
      <3> QED BY <3>1, <3>2
    <2>3. e = [win |-> e.win, count |-> e.count, milli |-> e.milli, tracks |-> e.tracks,
               cards |-> e.cards, distinct |-> e.distinct, first |-> e.first, last |-> e.last,
               started |-> e.started]
      BY <1>1
    <2> QED BY <2>1, <2>2, <2>3 DEF BucketedEntry
  <1>5. \A w, old : InSpan(<<>>, w, old) = {}
    BY <1>2 DEF InSpan
  <1>6. MilliSum(<<>>, {}) = 0 /\ Cardinality({}) = 0
    BY SumEmpty, FS_EmptySet DEF MilliSum, SumFunction
  <1>7. WindowsOf(e, <<>>, t)
    <2>1. \A w, old, new : Queue(<<>>, <<>>, w, old, new)
      BY <1>2, <1>5 DEF Queue, Increasing
    <2> QED BY <2>1, <1>3, <1>5, <1>6 DEF WindowsOf
  <1>8. CardsKept(e, <<>>, t)
    <2>1. /\ Tracked(e.cards, <<>>) /\ Labelled(e.win[DistinctWindow], e.cards)
          /\ \A old : NoneMissed(e.cards, <<>>, old) /\ Alive(e.cards, old) = {}
      BY <1>1, <1>2, <1>3, <1>5, Config DEF Tracked, Labelled, NoneMissed, Alive
    <2>2. e.distinct <= DistinctCap
      BY <1>1, Config
    <2> QED BY <2>1, <2>2, <1>1, <1>2, <1>6 DEF CardsKept, CardsOf
  <1>9. Roomy(e.cards)
    <2>1. Cardinality(DOMAIN e.cards) = 0
      BY <1>1, <1>2, <1>6
    <2> QED BY <2>1, Config DEF Roomy
  <1> QED BY <1>1, <1>4, <1>7, <1>8, <1>9 DEF e

(* An add of an event that is not late.                                    *)
LEMMA AddBucketedOf ==
    ASSUME NEW e \in BucketedEntry, NEW h \in Seq(Event), NEW last \in Int,
           WindowsOf(e, h, last), CardsKept(e, h, last), Roomy(e.cards),
           NEW ev \in Event, last <= ev.t, NEW k, e.tracks = k.distinct, Clamped(e, ev) = ev,
           e.started <=> h # <<>>, h # <<>> => e.first = h[1].t
    PROVE  BucketedOf(AddBucketed(e, ev), Append(h, ev), k)
  <1> DEFINE y == AddToBuckets(ExpireBucketed(e, ev.t), ev)
             z == IF e.tracks /\ ev.card # NoCard THEN AddCard(y, ev.card) ELSE y
             f == [e EXCEPT !.last = y.last]
             g == Append(h, ev)
  <1>1. Knows(z, f, g, ev.t) /\ Roomy(z.cards)
    BY BucketsAdd
  <1>2. AddBucketed(e, ev) = Touched(z, ev.t)
    BY DEF AddBucketed
  <1>3. f.tracks = e.tracks /\ f.first = e.first /\ f.started = e.started
    BY BucketedIs
  <1>4. ev.t \in Int
    BY EventTypes
  <1>5. /\ g # <<>> /\ Last(g) = ev
        /\ g[1] = IF h = <<>> THEN ev ELSE h[1]
    <2>1. Len(h) \in Nat /\ Len(g) = Len(h) + 1 /\ g[Len(h) + 1] = ev
          /\ (\A j \in DOMAIN h : g[j] = h[j]) /\ DOMAIN h = 1 .. Len(h) /\ (h = <<>> <=> Len(h) = 0)
      <3>1. Len(h) \in Nat /\ DOMAIN h = 1 .. Len(h)
        BY LenProperties
      <3>2. Len(g) = Len(h) + 1 /\ g[Len(h) + 1] = ev /\ \A j \in DOMAIN h : g[j] = h[j]
        BY OneMore, AppendProperties
      <3> QED BY <3>1, <3>2, EmptySeq
    <2>2. g # <<>> /\ Last(g) = ev
      <3>1. g \in Seq(Event)
        BY AppendProperties
      <3> HIDE DEF g
      <3> QED BY <2>1, <3>1, EmptySeq DEF Last
    <2>3. CASE h = <<>>
      <3>1. Len(h) + 1 = 1
        BY <2>1, <2>3
      <3> QED BY <2>1, <2>2, <2>3, <3>1
    <2>4. CASE h # <<>>
      <3>1. 1 \in DOMAIN h
        BY <2>1, <2>4
      <3> HIDE DEF g
      <3> QED BY <2>1, <2>2, <2>4, <3>1
    <2> QED BY <2>3, <2>4
  <1> HIDE DEF z, f, g, y
  <1>6. g[1].t = IF f.started THEN f.first ELSE ev.t
    BY <1>3, <1>5
  <1>7. BucketedOf(Touched(z, ev.t), g, k)
    BY <1>1, <1>3, <1>4, <1>5, <1>6, TouchedBucketed
  <1> QED BY <1>2, <1>7 DEF g

(* An add to a new bucketed entry.                                         *)
LEMMA AddToNewBucketed ==
    ASSUME NEW k, k.distinct \in BOOLEAN, NEW ev \in Event
    PROVE  BucketedOf(AddBucketed(NewBucketed(k.distinct), ev), <<ev>>, k)
  <1> DEFINE e == NewBucketed(k.distinct) h == <<>>
  <1>1. ev.t \in Int /\ ev.t <= ev.t
    BY EventTypes
  <1>2. /\ e \in BucketedEntry /\ WindowsOf(e, h, ev.t) /\ CardsKept(e, h, ev.t)
        /\ e.tracks = k.distinct /\ ~e.started /\ Roomy(e.cards)
    BY NewKnowsNothing
  <1>3. h \in Seq(Event) /\ h = <<>> /\ Append(h, ev) = <<ev>>
    BY EmptySeq
  <1> HIDE DEF e, h
  <1>4. Clamped(e, ev) = ev
    BY <1>2 DEF Clamped
  <1>5. BucketedOf(AddBucketed(e, ev), Append(h, ev), k)
    BY <1>1, <1>2, <1>3, <1>4, AddBucketedOf
  <1> QED BY <1>3, <1>5 DEF e

(* An add to a live bucketed entry, a late event at the key's latest time  *)
(* (bucketed.go:147-150).                                                  *)
LEMMA AddToLiveBucketed ==
    ASSUME NEW e, NEW h \in Seq(Event), NEW k, BucketedOf(e, h, k), NEW ev \in Event
    PROVE  BucketedOf(AddBucketed(e, ev),
                      Append(h, IF ev.t < Last(h).t THEN [ev EXCEPT !.t = Last(h).t] ELSE ev), k)
  <1> DEFINE x == IF ev.t < Last(h).t THEN [ev EXCEPT !.t = Last(h).t] ELSE ev
             last == Last(h).t
  <1>1. /\ e \in BucketedEntry /\ WindowsOf(e, h, e.last) /\ CardsKept(e, h, e.last)
        /\ h # <<>> /\ e.tracks = k.distinct /\ e.first = h[1].t /\ e.last = Last(h).t /\ e.started
        /\ Roomy(e.cards)
    BY DEF BucketedOf
  <1>2. last \in Int /\ last \in Moments /\ ev.t \in Int
    <2>1. Len(h) \in Nat \ {0} /\ DOMAIN h = 1 .. Len(h) /\ last = h[Len(h)].t
      BY <1>1, EmptySeq, HistoryTypes DEF Last
    <2>2. Len(h) \in DOMAIN h
      BY <2>1
    <2> QED BY <2>1, <2>2, HistoryTypes, PaymentsAssumption DEF Event
  <1>3. /\ x \in Event /\ x.t \in Int /\ last <= x.t
    <2>1. CASE ev.t < last
      <3>1. x = [t |-> last, milli |-> ev.milli, card |-> ev.card]
        BY <2>1 DEF Event
      <3>2. ev.milli \in Int /\ ev.card \in Cards
        BY DEF Event
      <3> HIDE DEF x, last
      <3> QED BY <3>1, <3>2, <1>2 DEF Event
    <2>2. CASE ~(ev.t < last)
      BY <2>2, <1>2
    <2> QED BY <2>1, <2>2
  <1>4. Clamped(e, ev) = x /\ Clamped(e, x) = x
    <2>1. Clamped(e, ev) = x
      BY <1>1 DEF Clamped
    <2> HIDE DEF x
    <2> QED BY <2>1, <1>1, <1>3, <1>2 DEF Clamped
  <1> HIDE DEF x
  <1>5. AddBucketed(e, ev) = AddBucketed(e, x)
    BY <1>4 DEF AddBucketed
  <1> HIDE DEF last
  <1>6. WindowsOf(e, h, last) /\ CardsKept(e, h, last)
    BY <1>1 DEF last
  <1>7. BucketedOf(AddBucketed(e, x), Append(h, x), k)
    BY <1>1, <1>2, <1>3, <1>4, <1>6, AddBucketedOf
  <1> QED BY <1>5, <1>7 DEF x

-----------------------------------------------------------------------------
(* What a bucketed entry answers, and how far from the history it is.      *)

(* What a bucketed entry answers once it is brought to time m.             *)
SpanRead(h, k, m, cards) ==
    [seen |-> TRUE, first |-> h[1].t, last |-> Last(h).t,
     count |-> [w \in W |-> Cardinality(InSpan(h, w, Oldest(w, m)))],
     sum   |-> [w \in W |-> MilliSum(h, InSpan(h, w, Oldest(w, m)))],
     distinct |-> IF k.distinct THEN Cardinality(Alive(cards, Oldest(DistinctWindow, m))) ELSE -1]

(* No bucket is older than one the queue starts at or before.              *)
LEMMA NothingOlder ==
    ASSUME NEW h, NEW w, NEW old \in Int, NEW new, NEW q, Queue(q, h, w, old, new),
           NEW old2 \in Int, old2 <= old
    PROVE  Older(q, old2) = {}
  <1>1. q \in Seq(Bucket)
    BY DEF Queue
  <1>2. DOMAIN q = 1 .. Len(q) /\ Len(q) \in Nat /\ \A i \in DOMAIN q : q[i].idx \in Int
    BY <1>1, QueueTypes
  <1>3. ASSUME NEW i \in Older(q, old2) PROVE FALSE
    <2>1. i \in DOMAIN q /\ i \in 1 .. i /\ q[i].idx < old2
      <3>1. i \in DOMAIN q /\ \A j \in 1 .. i : q[j].idx < old2
        BY <1>3 DEF Older
      <3>2. i \in 1 .. i
        BY <1>2, <3>1
      <3> QED BY <3>1, <3>2
    <2>2. old <= q[i].idx
      BY <2>1 DEF Queue
    <2> QED BY <1>2, <2>1, <2>2
  <1> QED BY <1>3

(* The time a read looks from.                                             *)
LEMMA LatestTypes ==
    ASSUME NEW h \in Seq(Event), h # <<>>, NEW now \in Int
    PROVE  /\ Last(h).t \in Int /\ Last(h).t \in Moments /\ Latest(h, now) \in Int
           /\ Last(h).t <= Latest(h, now) /\ now <= Latest(h, now)
           /\ Last(h).t <= now => Latest(h, now) = now
           /\ now < Last(h).t => Latest(h, now) = Last(h).t
  <1>1. Len(h) \in Nat \ {0} /\ DOMAIN h = 1 .. Len(h) /\ Last(h).t = h[Len(h)].t
    BY EmptySeq, HistoryTypes DEF Last
  <1>2. Len(h) \in DOMAIN h
    BY <1>1
  <1>3. Last(h).t \in Int /\ Last(h).t \in Moments
    BY <1>1, <1>2, HistoryTypes, PaymentsAssumption DEF Event
  <1> QED BY <1>3 DEF Latest

(* A read at a time before the key's latest sees what one at its latest    *)
(* time does.                                                              *)
LEMMA SameExpired ==
    ASSUME NEW e, NEW h \in Seq(Event), NEW k, BucketedOf(e, h, k), NEW now \in Int, NEW w \in W
    PROVE  Expired(e, w, now) = Expired(e, w, Latest(h, now))
  <1> DEFINE last == Last(h).t q == e.win[w]
  <1>1. h # <<>> /\ e.last = last /\ WindowsOf(e, h, last)
    BY DEF BucketedOf
  <1>2. /\ last \in Int
        /\ last <= now => Latest(h, now) = now
        /\ now < last => Latest(h, now) = last
    BY <1>1, LatestTypes
  <1> HIDE DEF last
  <1>3. Queue(q, h, w, Oldest(w, last), BucketOf(w, last))
    BY <1>1 DEF WindowsOf
  <1>4. \A t : Expired(e, w, t) = Older(q, Oldest(w, t))
    BY DEF Expired, Older
  <1>5. CASE last <= now
    BY <1>2, <1>5
  <1>6. CASE now < last
    <2>1. Oldest(w, now) \in Int /\ Oldest(w, last) \in Int /\ Oldest(w, now) <= Oldest(w, last)
      BY <1>2, <1>6, Buckets
    <2>2. Older(q, Oldest(w, now)) = {}
      BY <1>3, <2>1, NothingOlder
    <2>3. Older(q, Oldest(w, last)) = {}
      BY <1>3, <2>1, NothingOlder
    <2> QED BY <1>2, <1>4, <1>6, <2>2, <2>3
  <1> QED BY <1>2, <1>5, <1>6

(* A read answers the totals of the span at its time.                      *)
LEMMA ReadOfBucketed ==
    ASSUME NEW e, NEW h \in Seq(Event), NEW k, BucketedOf(e, h, k), NEW now \in Int
    PROVE  /\ ReadBucketed(e, now) = SpanRead(h, k, Latest(h, now), e.cards)
           /\ CardsKept(ExpireBucketed(e, Latest(h, now)), h, Latest(h, now))
           /\ ExpireBucketed(e, Latest(h, now)).cards = e.cards
           /\ ExpireBucketed(e, Latest(h, now)).tracks = e.tracks
  <1> DEFINE m == Latest(h, now) last == Last(h).t x == ExpireBucketed(e, m)
             E(w) == Expired(e, w, m) d == DistinctWindow
  <1>1. /\ e \in BucketedEntry /\ WindowsOf(e, h, last) /\ CardsKept(e, h, last)
        /\ h # <<>> /\ e.tracks = k.distinct /\ e.first = h[1].t /\ e.last = last /\ e.started
    BY DEF BucketedOf
  <1>2. last \in Int /\ m \in Int /\ last <= m
    BY <1>1, LatestTypes
  <1>3. \A w \in W : Expired(e, w, now) = E(w)
    BY SameExpired
  <1> HIDE DEF m, last
  <1>4. WindowsOf(x, h, m) /\ CardsKept(x, h, m)
    BY <1>1, <1>2, Expires
  <1>5. /\ x.count = [w \in W |-> e.count[w] - CountIn(e.win[w], E(w))]
        /\ x.milli = [w \in W |-> e.milli[w] - MilliIn(e.win[w], E(w))]
        /\ x.distinct = e.distinct - CardsIn(e.win[d], E(d))
        /\ x.cards = e.cards /\ x.tracks = e.tracks
    BY <1>1, ExpireFields
  <1>6. d \in W
    BY Config
  <1> HIDE DEF x
  <1>7. /\ \A w \in W : /\ x.count[w] = Cardinality(InSpan(h, w, Oldest(w, m)))
                        /\ x.milli[w] = MilliSum(h, InSpan(h, w, Oldest(w, m)))
        /\ x.distinct = Cardinality(Alive(e.cards, Oldest(d, m)))
    <2>1. x.distinct = Cardinality(Alive(e.cards, Oldest(d, m)))
      BY <1>4, <1>5 DEF CardsKept, CardsOf
    <2> QED BY <1>4, <2>1 DEF WindowsOf
  <1>8. ReadBucketed(e, now) =
          [seen |-> TRUE, first |-> e.first, last |-> e.last, count |-> x.count, sum |-> x.milli,
           distinct |-> IF e.tracks THEN x.distinct ELSE -1]
    <2>1. /\ x.count = [w \in W |-> e.count[w] - CountIn(e.win[w], Expired(e, w, now))]
          /\ x.milli = [w \in W |-> e.milli[w] - MilliIn(e.win[w], Expired(e, w, now))]
          /\ x.distinct = e.distinct - CardsIn(e.win[d], Expired(e, d, now))
      BY <1>3, <1>5, <1>6
    <2> QED BY <2>1 DEF ReadBucketed
  <1>9. x.count = [w \in W |-> x.count[w]] /\ x.milli = [w \in W |-> x.milli[w]]
    BY <1>5
  <1> DEFINE counts == [w \in W |-> Cardinality(InSpan(h, w, Oldest(w, m)))]
             sums == [w \in W |-> MilliSum(h, InSpan(h, w, Oldest(w, m)))]
             cs == Cardinality(Alive(e.cards, Oldest(d, m)))
  <1>10. x.count = counts /\ x.milli = sums
    BY <1>7, <1>9
  <1>11. SpanRead(h, k, m, e.cards) =
           [seen |-> TRUE, first |-> h[1].t, last |-> last, count |-> counts, sum |-> sums,
            distinct |-> IF k.distinct THEN cs ELSE -1]
    BY DEF SpanRead, last
  <1>12. x.distinct = cs
    BY <1>7
  <1> HIDE DEF counts, sums, cs
  <1>13. ReadBucketed(e, now) = SpanRead(h, k, m, e.cards)
    BY <1>1, <1>8, <1>10, <1>11, <1>12
  <1> QED BY <1>4, <1>5, <1>13 DEF m, x

(* The cards of some events.                                               *)
CardsSeen(h, S) == {h[i].card : i \in S} \ {NoCard}

(* They are finitely many.                                                 *)
LEMMA CardsSeenFinite ==
    ASSUME NEW h \in Seq(Event), NEW S \in SUBSET DOMAIN h
    PROVE  /\ IsFiniteSet(CardsSeen(h, S)) /\ Cardinality(CardsSeen(h, S)) \in Nat
           /\ DistinctCards(h, S) = Cardinality(CardsSeen(h, S))
  <1> DEFINE f == [i \in S |-> h[i].card]
  <1>1. IsFiniteSet(S)
    BY HistoryTypes, IntervalFinite, FS_Subset
  <1>2. CardsSeen(h, S) \subseteq {f[i] : i \in S}
    BY DEF CardsSeen
  <1> HIDE DEF f
  <1>3. IsFiniteSet({f[i] : i \in S})
    BY <1>1, ImageFinite
  <1>4. IsFiniteSet(CardsSeen(h, S))
    BY <1>2, <1>3, FS_Subset
  <1> QED BY <1>4, FS_CardinalityType DEF DistinctCards, CardsSeen

(* The buckets of a window hold it and not much more: a window at most a   *)
(* bucket longer.                                                          *)
LEMMA SpanWithin ==
    ASSUME NEW h \in Seq(Event), h # <<>>, NEW now \in Int, NEW w \in W
    PROVE  LET u == InSpan(h, w, Oldest(w, Latest(h, now)))
               exact == Within(h, now, Windows[w])
               wide == Within(h, now, Windows[w] + Plan[w])
           IN  /\ exact \in SUBSET u /\ u \in SUBSET wide /\ wide \in SUBSET DOMAIN h
               /\ u \in SUBSET DOMAIN h /\ exact \in SUBSET DOMAIN h
               /\ \E late \in 0 .. Plan[w] : u = Within(h, now, Windows[w] + late)
  <1> DEFINE m == Latest(h, now) old == Oldest(w, m) u == InSpan(h, w, old)
             a == Windows[w] b == Plan[w]
  <1>1. m \in Int
    BY LatestTypes
  <1>2. a \in Int /\ b \in Int
    BY Config
  <1>3. \A i \in DOMAIN h : h[i].t \in Int
    BY HistoryTypes
  <1> HIDE DEF m
  <1>4. \A t \in Int : /\ t > m - a => BucketOf(w, t) >= old
                       /\ BucketOf(w, t) >= old => t > m - (a + b)
    BY <1>1, Buckets
  <1>8. \E late \in 0 .. b : \A t \in Int : BucketOf(w, t) >= old <=> m - (a + late) < t
    BY <1>1, Trailing
  <1> HIDE DEF a, b, old
  <1>9. \E late \in 0 .. b : u = {i \in DOMAIN h : m - (a + late) < h[i].t}
    <2>1. PICK late \in 0 .. b : \A t \in Int : BucketOf(w, t) >= old <=> m - (a + late) < t
      BY <1>8
    <2>2. u = {i \in DOMAIN h : m - (a + late) < h[i].t}
      BY <2>1, <1>3 DEF InSpan
    <2> QED BY <2>2
  <1>5. {i \in DOMAIN h : m - a < h[i].t} \subseteq u
    <2>1. \A i \in DOMAIN h : m - a < h[i].t => h[i].t > m - a
      BY <1>1, <1>2, <1>3
    <2> QED BY <2>1, <1>3, <1>4 DEF InSpan
  <1>6. u \subseteq {i \in DOMAIN h : m - (a + b) < h[i].t}
    <2>1. \A i \in DOMAIN h : h[i].t > m - (a + b) => m - (a + b) < h[i].t
      BY <1>1, <1>2, <1>3
    <2> QED BY <2>1, <1>3, <1>4 DEF InSpan
  <1>7. u \subseteq DOMAIN h
    BY DEF InSpan
  <1> QED BY <1>5, <1>6, <1>7, <1>9 DEF Within, m, a, b, old

(* The live cards are cards of the span, and all of them if none was       *)
(* missed: never more than a window a bucket longer has, never fewer than  *)
(* the exact window while the key was not at the cap.                      *)
LEMMA AliveWithin ==
    ASSUME NEW cards \in CardTables, NEW h \in Seq(Event), Tracked(cards, h), NEW old,
           NEW exact, exact \in SUBSET InSpan(h, DistinctWindow, old),
           NEW wide, InSpan(h, DistinctWindow, old) \in SUBSET wide, wide \in SUBSET DOMAIN h
    PROVE  /\ Cardinality(Alive(cards, old)) <= DistinctCards(h, wide)
           /\ NoneMissed(cards, h, old) /\ old \in Int
                => DistinctCards(h, exact) <= Cardinality(Alive(cards, old))
  <1> DEFINE A == Alive(cards, old)
  <1>1. IsFiniteSet(A) /\ \A c \in DOMAIN cards : cards[c] \in Int
    BY CardsTypes
  <1>2. A \subseteq CardsSeen(h, wide)
    <2>1. ASSUME NEW c \in A PROVE c \in CardsSeen(h, wide)
      <3>1. c \in DOMAIN cards /\ cards[c] >= old
        BY DEF Alive
      <3>2. c # NoCard /\ \E j \in DOMAIN h : h[j].card = c /\ BucketOf(DistinctWindow, h[j].t) = cards[c]
        BY <3>1 DEF Tracked
      <3>3. PICK j \in DOMAIN h : h[j].card = c /\ BucketOf(DistinctWindow, h[j].t) = cards[c]
        BY <3>2
      <3>4. j \in wide
        BY <3>1, <3>3 DEF InSpan
      <3> QED BY <3>2, <3>3, <3>4 DEF CardsSeen
    <2> HIDE DEF A
    <2> QED BY <2>1
  <1>3. ASSUME NoneMissed(cards, h, old), old \in Int PROVE CardsSeen(h, exact) \subseteq A
    <2>1. ASSUME NEW c \in CardsSeen(h, exact) PROVE c \in A
      <3>1. PICK j \in exact : h[j].card = c /\ c # NoCard
        BY DEF CardsSeen
      <3>2. j \in InSpan(h, DistinctWindow, old) /\ j \in DOMAIN h
        BY DEF InSpan
      <3>3. BucketOf(DistinctWindow, h[j].t) >= old
        BY <3>2 DEF InSpan
      <3>4. c \in DOMAIN cards /\ cards[c] >= BucketOf(DistinctWindow, h[j].t)
        BY <1>3, <3>1, <3>2 DEF NoneMissed
      <3>5. BucketOf(DistinctWindow, h[j].t) \in Int /\ cards[c] \in Int
        BY <1>1, <3>2, <3>4, Config, SpanTypes
      <3>6. cards[c] >= old
        BY <1>3, <3>3, <3>4, <3>5
      <3> QED BY <3>4, <3>6 DEF Alive
    <2> HIDE DEF A
    <2> QED BY <2>1
  <1> HIDE DEF A
  <1>4. exact \in SUBSET DOMAIN h
    BY DEF InSpan
  <1>5. /\ IsFiniteSet(CardsSeen(h, wide)) /\ DistinctCards(h, wide) = Cardinality(CardsSeen(h, wide))
        /\ DistinctCards(h, exact) = Cardinality(CardsSeen(h, exact))
    BY <1>4, CardsSeenFinite
  <1>6. Cardinality(A) <= Cardinality(CardsSeen(h, wide))
    BY <1>2, <1>5, FS_Subset
  <1>7. ASSUME NoneMissed(cards, h, old), old \in Int PROVE Cardinality(CardsSeen(h, exact)) <= Cardinality(A)
    BY <1>1, <1>3, <1>7, FS_Subset
  <1> QED BY <1>5, <1>6, <1>7 DEF A

(* Hence a read counts and adds up the events of a window at most a bucket *)
(* longer than the one it is asked for (bucketed.go:35-42).                *)
LEMMA BoundOfBucketed ==
    ASSUME NEW e, NEW h \in Seq(Event), NEW k, BucketedOf(e, h, k), NEW now \in Int,
           now - Last(h).t < TTL
    PROVE  WithinABucket(h, k, now, ReadBucketed(e, now))
  <1> DEFINE m == Latest(h, now) d == DistinctWindow
             a == ReadBucketed(e, now)
             exact == HistoryRead(h, k, now)
             wide == Within(h, now, Windows[d] + Plan[d])
             x == ExpireBucketed(e, m)
  <1>1. h # <<>> /\ e.tracks = k.distinct /\ Last(h).t \in Int /\ m \in Int /\ d \in W
    BY LatestTypes, Config DEF BucketedOf
  <1>2. a = SpanRead(h, k, m, e.cards) /\ CardsKept(x, h, m) /\ x.cards = e.cards /\ x.tracks = e.tracks
    BY ReadOfBucketed
  <1>3. ~(now - Last(h).t >= TTL)
    BY <1>1, Config
  <1>4. /\ exact.seen = TRUE /\ exact.first = h[1].t /\ exact.last = Last(h).t
        /\ k.distinct => exact.distinct = DistinctCards(h, Within(h, now, Windows[d]))
    BY <1>1, <1>3 DEF HistoryRead
  <1> HIDE DEF m, a
  <1>5. /\ a.seen = TRUE /\ a.first = h[1].t /\ a.last = Last(h).t
        /\ a.count = [w \in W |-> Cardinality(InSpan(h, w, Oldest(w, m)))]
        /\ a.sum = [w \in W |-> MilliSum(h, InSpan(h, w, Oldest(w, m)))]
        /\ k.distinct => a.distinct = Cardinality(Alive(e.cards, Oldest(d, m)))
    BY <1>2 DEF SpanRead
  <1> HIDE DEF exact, x
  <1>6. ASSUME NEW w \in W
        PROVE  \E late \in 0 .. Plan[w] :
                 /\ a.count[w] = Cardinality(Within(h, now, Windows[w] + late))
                 /\ a.sum[w] = MilliSum(h, Within(h, now, Windows[w] + late))
    <2> DEFINE u == InSpan(h, w, Oldest(w, m))
    <2>1. PICK late \in 0 .. Plan[w] : u = Within(h, now, Windows[w] + late)
      BY <1>1, SpanWithin DEF m
    <2>2. a.count[w] = Cardinality(u) /\ a.sum[w] = MilliSum(h, u)
      BY <1>5
    <2> HIDE DEF u
    <2> QED BY <2>1, <2>2
  <1>7. ASSUME k.distinct
        PROVE  /\ a.distinct <= DistinctCards(h, wide)
               /\ DistinctCards(h, DOMAIN h) <= DistinctCap => exact.distinct <= a.distinct
    <2> DEFINE old == Oldest(d, m) cards == e.cards
               u == InSpan(h, d, old) s == Within(h, now, Windows[d])
               b == Within(h, now, Windows[d] + Plan[d])
    <2>1. s \in SUBSET u /\ u \in SUBSET b /\ b \in SUBSET DOMAIN h
      BY <1>1, SpanWithin DEF m
    <2>2. cards \in CardTables /\ Tracked(cards, h) /\ (FewCards(h) => NoneMissed(cards, h, old))
      BY <1>1, <1>2, <1>7 DEF CardsKept, CardsOf
    <2>3. old \in Int
      BY <1>1, Buckets
    <2>4. a.distinct = Cardinality(Alive(cards, old)) /\ exact.distinct = DistinctCards(h, s) /\ wide = b
      BY <1>1, <1>4, <1>5, <1>7
    <2> HIDE DEF old, cards, s, b, wide
    <2>5. /\ Cardinality(Alive(cards, old)) <= DistinctCards(h, b)
          /\ NoneMissed(cards, h, old) => DistinctCards(h, s) <= Cardinality(Alive(cards, old))
      BY <2>1, <2>2, <2>3, AliveWithin
    <2> QED BY <2>2, <2>4, <2>5 DEF FewCards
  <1>8. /\ a.seen = exact.seen /\ a.first = exact.first /\ a.last = exact.last
    BY <1>4, <1>5
  <1> HIDE DEF wide
  <1> QED BY <1>6, <1>7, <1>8 DEF WithinABucket, exact, wide, a

-----------------------------------------------------------------------------
(* A restart of a bucketed entry, and what is kept of a key.               *)

(* The totals of all of a window's buckets, with or without their labels.  *)
LEMMA AllTotals ==
    ASSUME NEW h \in Seq(Event), NEW w \in W, NEW old \in Int, NEW new,
           NEW q, Queue(q, h, w, old, new), NEW s, DOMAIN s = DOMAIN q,
           \A i \in DOMAIN q : s[i].count = q[i].count /\ s[i].milli = q[i].milli
    PROVE  /\ CountIn(s, DOMAIN s) = Cardinality(InSpan(h, w, old))
           /\ MilliIn(s, DOMAIN s) = MilliSum(h, InSpan(h, w, old))
  <1> DEFINE u == InSpan(h, w, old) n == Len(q)
  <1>1. q \in Seq(Bucket) /\ n \in Nat /\ n <= n /\ DOMAIN q = 1 .. n
    BY QueueTypes DEF Queue
  <1>2. u \in SUBSET DOMAIN h
    BY SpanTypes
  <1>3. ASSUME NEW j \in DOMAIN h
        PROVE  j \in u <=> \E i \in 1 .. n : BucketOf(w, h[j].t) = q[i].idx
    <2>1. ASSUME j \in u PROVE \E i \in 1 .. n : BucketOf(w, h[j].t) = q[i].idx
      <3>1. PICK i \in DOMAIN q : q[i].idx = BucketOf(w, h[j].t)
        BY <2>1 DEF Queue
      <3> HIDE DEF n
      <3> QED BY <3>1, <1>1
    <2>2. ASSUME NEW i \in 1 .. n, BucketOf(w, h[j].t) = q[i].idx PROVE j \in u
      <3>1. old <= q[i].idx /\ q[i].idx \in Int
        BY <1>1, QueueTypes DEF Queue
      <3>2. BucketOf(w, h[j].t) >= old
        BY <2>2, <3>1
      <3> QED BY <3>2 DEF InSpan
    <2> QED BY <2>1, <2>2
  <1> HIDE DEF u, n
  <1>4. n <= Len(q)
    BY <1>1 DEF n
  <1>5. CountIn(q, 1 .. n) = Cardinality(u) /\ MilliIn(q, 1 .. n) = MilliSum(h, u)
    BY <1>1, <1>2, <1>3, <1>4, FrontTotals
  <1>6. /\ [i \in 1 .. n |-> s[i].count] = [i \in 1 .. n |-> q[i].count]
        /\ [i \in 1 .. n |-> s[i].milli] = [i \in 1 .. n |-> q[i].milli]
    BY <1>1
  <1>7. CountIn(s, 1 .. n) = CountIn(q, 1 .. n) /\ MilliIn(s, 1 .. n) = MilliIn(q, 1 .. n)
    BY <1>6 DEF CountIn, MilliIn
  <1> QED BY <1>1, <1>5, <1>7 DEF u

(* The labels a restore counts.                                            *)
Lasts(w, idx, cards) == IF w = DistinctWindow THEN Cardinality(InIdx(cards, idx)) ELSE 0
(* q relabelled with the cards.                                            *)
Lasting(q, w, cards) ==
    [i \in DOMAIN q |-> [idx |-> q[i].idx, count |-> q[i].count, milli |-> q[i].milli,
                         lastCards |-> Lasts(w, q[i].idx, cards)]]

(* The labels a restore counts are right.                                  *)
LEMMA LastingRelabels ==
    ASSUME NEW q \in Seq(Bucket), NEW w, NEW h \in Seq(Event), NEW cards \in CardTables,
           Tracked(cards, h)
    PROVE  /\ Relabels(Lasting(q, w, cards), q)
           /\ w = DistinctWindow => Labelled(Lasting(q, w, cards), cards)
  <1> DEFINE r == Lasting(q, w, cards) n == Len(q)
  <1>1. n \in Nat /\ DOMAIN q = 1 .. n
        /\ \A i \in DOMAIN q : q[i].idx \in Int /\ q[i].count \in Int /\ q[i].milli \in Int
    BY QueueTypes
  <1>2. \A i : Cardinality(InIdx(cards, i)) \in Nat
    BY CardsTypes
  <1>3. \A i : Lasts(w, i, cards) \in Int
    <2>1. \A i : Cardinality(InIdx(cards, i)) \in Int
      BY <1>2
    <2> QED BY <2>1 DEF Lasts
  <1>4. \A i \in DOMAIN q : r[i] = [idx |-> q[i].idx, count |-> q[i].count, milli |-> q[i].milli,
                                    lastCards |-> Lasts(w, q[i].idx, cards)]
    BY DEF Lasting
  <1>5. \A i \in DOMAIN q : r[i] \in Bucket
    <2> TAKE i \in DOMAIN q
    <2> DEFINE a == q[i].idx b == q[i].count c == q[i].milli d == Lasts(w, a, cards)
    <2>1. a \in Int /\ b \in Int /\ c \in Int /\ d \in Int
      BY <1>1, <1>3
    <2>2. r[i] = [idx |-> a, count |-> b, milli |-> c, lastCards |-> d]
      BY <1>4
    <2> HIDE DEF a, b, c, d, r
    <2> QED BY <2>1, <2>2 DEF Bucket
  <1>6. r = [i \in 1 .. n |-> r[i]] /\ DOMAIN r = 1 .. n
    BY <1>1 DEF Lasting
  <1> HIDE DEF r, n
  <1>7. r \in Seq(Bucket)
    <2>1. r \in [1 .. n -> Bucket]
      BY <1>1, <1>5, <1>6
    <2> QED BY <2>1, <1>1, SeqDef
  <1>8. w = DistinctWindow => Labelled(r, cards)
    BY <1>1, <1>4, <1>6 DEF Labelled, Lasts
  <1>9. Relabels(r, q)
    BY <1>1, <1>4, <1>6, <1>7 DEF Relabels
  <1> QED BY <1>8, <1>9 DEF r

(* The buckets without their labels.                                       *)
Bare(win) == [w \in W |-> [i \in DOMAIN win[w] |->
                [idx |-> win[w][i].idx, count |-> win[w][i].count, milli |-> win[w][i].milli]]]

(* What a snapshot of a bucketed entry holds: the buckets and the cards    *)
(* that are alive.                                                         *)
LEMMA SnapshotFields ==
    ASSUME NEW e, NEW h \in Seq(Event), NEW k, BucketedOf(e, h, k)
    PROVE  EncodeBucketed(e) =
             [first |-> e.first, last |-> e.last, tracks |-> e.tracks, win |-> Bare(e.win),
              cards |-> Restrict(e.cards, Alive(e.cards, Oldest(DistinctWindow, e.last)))]
  <1> DEFINE s == EncodeBucketed(e)
             q == e.win[DistinctWindow]
             cards == e.cards
             old == Oldest(DistinctWindow, e.last)
  <1>1. /\ e \in BucketedEntry /\ WindowsOf(e, h, e.last) /\ CardsKept(e, h, e.last)
        /\ q # <<>> /\ DistinctWindow \in W
    BY Config DEF BucketedOf
  <1>2. /\ e.last \in Int /\ old \in Int
    BY <1>1, Buckets DEF BucketedEntry
  <1>3. Queue(q, h, DistinctWindow, old, BucketOf(DistinctWindow, e.last))
    BY <1>1 DEF WindowsOf
  <1>4. cards \in CardTables /\ Tracked(cards, h)
    BY <1>1 DEF CardsKept, CardsOf
  <1>5. {c \in DOMAIN cards : cards[c] >= Head(q).idx} = Alive(cards, old)
    <2>1. ASSUME NEW c \in DOMAIN cards PROVE cards[c] >= Head(q).idx <=> c \in Alive(cards, old)
      <3> HIDE DEF q, cards, old
      <3> QED BY <1>1, <1>2, <1>3, <1>4, LiveInFront
    <2>2. Alive(cards, old) \subseteq DOMAIN cards
      BY DEF Alive
    <2> HIDE DEF q, cards, old
    <2> QED BY <2>1, <2>2
  <1> QED BY <1>1, <1>5 DEF EncodeBucketed, Bare

(* What a snapshot of a bucketed entry is restored to, field by field.     *)
LEMMA RestartFields ==
    ASSUME NEW e, NEW h \in Seq(Event), NEW k, BucketedOf(e, h, k)
    PROVE  LET s == EncodeBucketed(e)
               d == DecodeBucketed(s)
               a == Restrict(e.cards, Alive(e.cards, Oldest(DistinctWindow, e.last)))
           IN  /\ s.cards = a
               /\ \A w \in W : /\ DOMAIN s.win[w] = DOMAIN e.win[w]
                               /\ s.win[w] = [i \in DOMAIN e.win[w] |-> s.win[w][i]]
                               /\ \A i \in DOMAIN e.win[w] :
                                     /\ s.win[w][i].idx = e.win[w][i].idx
                                     /\ s.win[w][i].count = e.win[w][i].count
                                     /\ s.win[w][i].milli = e.win[w][i].milli
               /\ d = [win |-> [w \in W |-> Lasting(e.win[w], w, a)],
                       count |-> [w \in W |-> CountIn(s.win[w], DOMAIN s.win[w])],
                       milli |-> [w \in W |-> MilliIn(s.win[w], DOMAIN s.win[w])],
                       tracks |-> e.tracks, cards |-> a, distinct |-> Cardinality(DOMAIN a),
                       first |-> e.first, last |-> e.last, started |-> TRUE]
  <1> DEFINE s == EncodeBucketed(e)
             d == DecodeBucketed(s)
             cards == e.cards
             old == Oldest(DistinctWindow, e.last)
             a == Restrict(cards, Alive(cards, old))
             bare(w, i) == [idx |-> e.win[w][i].idx, count |-> e.win[w][i].count,
                            milli |-> e.win[w][i].milli]
  <1>6. s = [first |-> e.first, last |-> e.last, tracks |-> e.tracks,
             win |-> [w \in W |-> [i \in DOMAIN e.win[w] |-> bare(w, i)]], cards |-> a]
    BY SnapshotFields DEF Bare
  <1> HIDE DEF s
  <1>7. /\ s.cards = a /\ s.first = e.first /\ s.last = e.last /\ s.tracks = e.tracks
        /\ \A w \in W : /\ DOMAIN s.win[w] = DOMAIN e.win[w]
                        /\ s.win[w] = [i \in DOMAIN e.win[w] |-> s.win[w][i]]
                        /\ \A i \in DOMAIN e.win[w] : s.win[w][i] = bare(w, i)
    BY <1>6
  <1>8. \A w \in W : \A i \in DOMAIN e.win[w] : /\ s.win[w][i].idx = e.win[w][i].idx
                                                /\ s.win[w][i].count = e.win[w][i].count
                                                /\ s.win[w][i].milli = e.win[w][i].milli
    <2> TAKE w \in W
    <2> TAKE i \in DOMAIN e.win[w]
    <2>1. s.win[w][i] = bare(w, i)
      BY <1>7
    <2> QED BY <2>1
  <1> HIDE DEF a, bare
  <1> DEFINE win == [w \in W |-> Lasting(e.win[w], w, a)]
             count == [w \in W |-> CountIn(s.win[w], DOMAIN s.win[w])]
             milli == [w \in W |-> MilliIn(s.win[w], DOMAIN s.win[w])]
             o == Started(NewBucketed(s.tracks), s)
             LastIn(w, idx) == IF w = DistinctWindow
                               THEN Cardinality({c \in DOMAIN s.cards : s.cards[c] = idx}) ELSE 0
             labelled == [w \in W |-> [i \in DOMAIN s.win[w] |->
                            [idx |-> s.win[w][i].idx, count |-> s.win[w][i].count,
                             milli |-> s.win[w][i].milli,
                             lastCards |-> LastIn(w, s.win[w][i].idx)]]]
  <1>9. d = [o EXCEPT !.win = labelled, !.count = count, !.milli = milli,
                      !.cards = s.cards, !.distinct = Cardinality(DOMAIN s.cards)]
    BY DEF DecodeBucketed
  <1>10. \A w, idx : LastIn(w, idx) = Lasts(w, idx, a)
    BY <1>7 DEF Lasts, InIdx
  <1>11. labelled = win
    <2> HIDE DEF LastIn
    <2>1. ASSUME NEW w \in W PROVE labelled[w] = win[w]
      <3>1. labelled[w] = [i \in DOMAIN s.win[w] |->
                             [idx |-> s.win[w][i].idx, count |-> s.win[w][i].count,
                              milli |-> s.win[w][i].milli,
                              lastCards |-> LastIn(w, s.win[w][i].idx)]]
        OBVIOUS
      <3>2. win[w] = [i \in DOMAIN e.win[w] |->
                        [idx |-> e.win[w][i].idx, count |-> e.win[w][i].count,
                         milli |-> e.win[w][i].milli,
                         lastCards |-> Lasts(w, e.win[w][i].idx, a)]]
        BY DEF Lasting
      <3> QED BY <3>1, <3>2, <1>7, <1>8, <1>10
    <2> QED BY <2>1
  <1> DEFINE none == [w \in W |-> <<>>] c == Cardinality(DOMAIN a)
  <1>12. o = [win |-> none, count |-> Zero, milli |-> Zero, tracks |-> e.tracks, cards |-> <<>>,
              distinct |-> 0, first |-> e.first, last |-> e.last, started |-> TRUE]
    <2> DEFINE n == NewBucketed(e.tracks)
    <2>1. n = [win |-> none, count |-> Zero, milli |-> Zero, tracks |-> e.tracks, cards |-> <<>>,
               distinct |-> 0, first |-> 0, last |-> 0, started |-> FALSE]
      BY DEF NewBucketed
    <2>2. o = [n EXCEPT !.first = e.first, !.last = e.last, !.started = TRUE]
      BY <1>7 DEF Started
    <2> HIDE DEF n, none, o
    <2> QED BY <2>1, <2>2
  <1>14. d = [o EXCEPT !.win = win, !.count = count, !.milli = milli, !.cards = a, !.distinct = c]
    <2>1. s.cards = a
      BY <1>7
    <2> HIDE DEF d, o, labelled, win, count, milli, a
    <2> QED BY <2>1, <1>9, <1>11
  <1> HIDE DEF d, o, labelled, count, milli, win, none, c
  <1>13. d = [win |-> win, count |-> count, milli |-> milli, tracks |-> e.tracks, cards |-> a,
              distinct |-> c, first |-> e.first, last |-> e.last, started |-> TRUE]
    BY <1>12, <1>14
  <1> QED BY <1>7, <1>8, <1>13 DEF s, d, a, win, count, milli, c

(* A restored bucketed entry knows the same history, and the same cards    *)
(* are alive from then on.                                                 *)
LEMMA RestartOfBucketed ==
    ASSUME NEW e, NEW h \in Seq(Event), NEW k, BucketedOf(e, h, k)
    PROVE  LET d == DecodeBucketed(EncodeBucketed(e))
           IN  /\ BucketedOf(d, h, k)
               /\ \A old \in Int : Oldest(DistinctWindow, Last(h).t) <= old
                                     => Alive(d.cards, old) = Alive(e.cards, old)
  <1> DEFINE s == EncodeBucketed(e)
             d == DecodeBucketed(s)
             x == DistinctWindow
             last == e.last
             old == Oldest(x, last)
             a == Restrict(e.cards, Alive(e.cards, old))
  <1>1. /\ e \in BucketedEntry /\ WindowsOf(e, h, last) /\ CardsKept(e, h, last)
        /\ \A w \in W : LET q == e.win[w]
                        IN  q # <<>> /\ q[Len(q)].idx = BucketOf(w, last)
        /\ h # <<>> /\ e.tracks = k.distinct /\ e.first = h[1].t /\ last = Last(h).t
    BY DEF BucketedOf
  <1>2. /\ last \in Int /\ old \in Int /\ x \in W
        /\ \A w \in W : e.win[w] \in Seq(Bucket) /\ Oldest(w, last) \in Int
    BY <1>1, Config, Buckets DEF BucketedEntry
  <1>3. /\ s.cards = a
        /\ \A w \in W : /\ DOMAIN s.win[w] = DOMAIN e.win[w]
                        /\ \A i \in DOMAIN e.win[w] : /\ s.win[w][i].count = e.win[w][i].count
                                                      /\ s.win[w][i].milli = e.win[w][i].milli
    BY RestartFields
  <1>4. d = [win |-> [w \in W |-> Lasting(e.win[w], w, a)],
             count |-> [w \in W |-> CountIn(s.win[w], DOMAIN s.win[w])],
             milli |-> [w \in W |-> MilliIn(s.win[w], DOMAIN s.win[w])],
             tracks |-> e.tracks, cards |-> a, distinct |-> Cardinality(DOMAIN a),
             first |-> e.first, last |-> last, started |-> TRUE]
    BY RestartFields
  <1>5. /\ e.cards \in CardTables /\ Tracked(e.cards, h)
        /\ ~e.tracks => DOMAIN e.cards = {}
        /\ e.distinct = Cardinality(Alive(e.cards, old)) /\ e.distinct <= DistinctCap
        /\ e.tracks /\ FewCards(h) => NoneMissed(e.cards, h, old)
    BY <1>1 DEF CardsKept, CardsOf
  <1>6. /\ a \in CardTables /\ Tracked(a, h) /\ DOMAIN a = Alive(e.cards, old)
        /\ \A old2 \in Int : old <= old2 => Alive(a, old2) = Alive(e.cards, old2)
        /\ NoneMissed(e.cards, h, old) => NoneMissed(a, h, old)
    BY <1>2, <1>5, KeptAlive
  <1> HIDE DEF s, a, old
  <1>7. \A w \in W : /\ Relabels(Lasting(e.win[w], w, a), e.win[w])
                     /\ w = x => Labelled(Lasting(e.win[w], w, a), a)
    BY <1>2, <1>6, LastingRelabels
  <1> HIDE DEF d
  <1>8. /\ d.win = [w \in W |-> Lasting(e.win[w], w, a)] /\ d.cards = a /\ d.tracks = e.tracks
        /\ d.distinct = Cardinality(DOMAIN a)
        /\ d.first = e.first /\ d.last = last /\ d.started = TRUE
        /\ \A w \in W : /\ d.win[w] = Lasting(e.win[w], w, a)
                        /\ d.count[w] = CountIn(s.win[w], DOMAIN s.win[w])
                        /\ d.milli[w] = MilliIn(s.win[w], DOMAIN s.win[w])
    BY <1>4
  <1>9. ASSUME NEW w \in W
        PROVE  /\ Queue(d.win[w], h, w, Oldest(w, last), BucketOf(w, last))
               /\ d.count[w] = Cardinality(InSpan(h, w, Oldest(w, last)))
               /\ d.milli[w] = MilliSum(h, InSpan(h, w, Oldest(w, last)))
               /\ d.win[w] # <<>> /\ d.win[w][Len(d.win[w])].idx = BucketOf(w, last)
    <2> DEFINE q == e.win[w] r == d.win[w] t == s.win[w] o == Oldest(w, last) b == BucketOf(w, last)
    <2>1. Queue(q, h, w, o, b) /\ q # <<>> /\ q[Len(q)].idx = b /\ o \in Int
      BY <1>1, <1>2 DEF WindowsOf
    <2>2. Relabels(r, q)
      BY <1>7, <1>8
    <2>3. DOMAIN t = DOMAIN q /\ \A i \in DOMAIN q : t[i].count = q[i].count /\ t[i].milli = q[i].milli
      BY <1>3
    <2>4. d.count[w] = CountIn(t, DOMAIN t) /\ d.milli[w] = MilliIn(t, DOMAIN t)
      BY <1>8
    <2> HIDE DEF q, r, t, o, b
    <2>5. Queue(r, h, w, o, b)
      BY <2>1, <2>2, RelabelledQueue
    <2>6. /\ CountIn(t, DOMAIN t) = Cardinality(InSpan(h, w, o))
          /\ MilliIn(t, DOMAIN t) = MilliSum(h, InSpan(h, w, o))
      BY <2>1, <2>3, AllTotals
    <2>7. r # <<>> /\ r[Len(r)].idx = b
      <3>1. /\ q \in Seq(Bucket) /\ r \in Seq(Bucket) /\ DOMAIN r = DOMAIN q
            /\ \A i \in DOMAIN q : r[i].idx = q[i].idx
        BY <2>1, <2>2 DEF Queue, Relabels
      <3>2. /\ Len(q) \in Nat /\ DOMAIN q = 1 .. Len(q) /\ Len(q) # 0
            /\ Len(r) \in Nat /\ DOMAIN r = 1 .. Len(r)
        BY <2>1, <3>1, QueueTypes, EmptySeq
      <3>3. Len(r) = Len(q) /\ Len(q) \in DOMAIN q
        BY <3>1, <3>2
      <3> QED BY <2>1, <3>1, <3>2, <3>3, EmptySeq
    <2> QED BY <2>4, <2>5, <2>6, <2>7 DEF r, o, b, t
  <1>10. WindowsOf(d, h, last)
    BY <1>9 DEF WindowsOf
  <1>11. CardsKept(d, h, last)
    <2>1. Labelled(d.win[x], a)
      BY <1>2, <1>7, <1>8
    <2>2. Alive(a, old) = Alive(e.cards, old)
      BY <1>2, <1>6
    <2>3. ~e.tracks => DOMAIN a = {}
      <3>1. Alive(e.cards, old) \subseteq DOMAIN e.cards
        BY DEF Alive
      <3> QED BY <3>1, <1>5, <1>6
    <2>4. CardsOf(d.win[x], a, Cardinality(DOMAIN a), e.tracks, h, old)
      BY <2>1, <2>2, <2>3, <1>5, <1>6 DEF CardsOf
    <2> QED BY <2>4, <1>8 DEF CardsKept, old
  <1>12. d \in BucketedEntry
    <2>1. \A w \in W : d.count[w] \in Int /\ d.milli[w] \in Int /\ d.win[w] \in Seq(Bucket)
      <3> TAKE w \in W
      <3> DEFINE S == InSpan(h, w, Oldest(w, last))
      <3>1. S \in SUBSET DOMAIN h /\ S \in SUBSET S
        BY SpanTypes
      <3>2. d.count[w] = Cardinality(S) /\ d.milli[w] = MilliSum(h, S) /\ d.win[w] \in Seq(Bucket)
        BY <1>9 DEF Queue
      <3> HIDE DEF S
      <3>3. Cardinality(S) \in Nat /\ MilliSum(h, S) \in Int
        BY <3>1, MilliSumParts
      <3> QED BY <3>2, <3>3
    <2>2. /\ DOMAIN d.win = W /\ d.win \in [W -> Seq(Bucket)]
          /\ d.count \in [W -> Int] /\ d.milli \in [W -> Int]
      <3>1. /\ d.win = [w \in W |-> d.win[w]] /\ d.count = [w \in W |-> d.count[w]]
            /\ d.milli = [w \in W |-> d.milli[w]]
        BY <1>4
      <3> QED BY <2>1, <3>1
    <2>3. Cardinality(DOMAIN a) \in Int
      <3>1. Cardinality(DOMAIN a) \in Nat
        BY <1>6, CardsTypes, FS_CardinalityType
      <3> QED BY <3>1
    <2>4. e.tracks \in BOOLEAN /\ e.first \in Int /\ last \in Int
      BY <1>1 DEF BucketedEntry
    <2>5. d = [win |-> d.win, count |-> d.count, milli |-> d.milli, tracks |-> d.tracks,
               cards |-> d.cards, distinct |-> d.distinct, first |-> d.first, last |-> d.last,
               started |-> d.started]
      BY <1>4
    <2> QED BY <2>2, <2>3, <2>4, <2>5, <1>6, <1>8 DEF BucketedEntry
  <1>15. Roomy(d.cards)
    <2> DEFINE n == Cardinality(DOMAIN a)
    <2>1. n \in Nat /\ n <= DistinctCap
      BY <1>5, <1>6, CardsTypes
    <2> HIDE DEF n
    <2>2. n <= 2 * DistinctCap + CardSlack
      BY <2>1, Config
    <2> QED BY <2>2, <1>8 DEF Roomy, n
  <1>13. BucketedOf(d, h, k)
    BY <1>1, <1>8, <1>9, <1>10, <1>11, <1>12, <1>15 DEF BucketedOf
  <1>14. \A old2 \in Int : Oldest(x, Last(h).t) <= old2 => Alive(d.cards, old2) = Alive(e.cards, old2)
    BY <1>1, <1>6, <1>8 DEF old
  <1> QED BY <1>13, <1>14 DEF d, s

(* The snapshot of a restored entry is the snapshot it was restored from.  *)
LEMMA SnapshotAgain ==
    ASSUME NEW e, NEW h \in Seq(Event), NEW k, BucketedOf(e, h, k)
    PROVE  EncodeBucketed(DecodeBucketed(EncodeBucketed(e))) = EncodeBucketed(e)
  <1> DEFINE d == DecodeBucketed(EncodeBucketed(e))
             old == Oldest(DistinctWindow, e.last)
             a == Restrict(e.cards, Alive(e.cards, old))
  <1>1. /\ d.win = [w \in W |-> Lasting(e.win[w], w, a)] /\ d.cards = a
        /\ d.tracks = e.tracks /\ d.first = e.first /\ d.last = e.last
    BY RestartFields
  <1>2. BucketedOf(d, h, k)
    BY RestartOfBucketed
  <1>3. Bare(d.win) = Bare(e.win)
    <2>1. ASSUME NEW w \in W
          PROVE  /\ DOMAIN d.win[w] = DOMAIN e.win[w]
                 /\ \A i \in DOMAIN e.win[w] : /\ d.win[w][i].idx = e.win[w][i].idx
                                               /\ d.win[w][i].count = e.win[w][i].count
                                               /\ d.win[w][i].milli = e.win[w][i].milli
      <3>1. d.win[w] = Lasting(e.win[w], w, a)
        BY <1>1
      <3> HIDE DEF d, a
      <3> QED BY <3>1 DEF Lasting
    <2> HIDE DEF d
    <2> QED BY <2>1 DEF Bare
  <1>4. Restrict(a, Alive(a, old)) = a
    <2>1. /\ e.cards \in CardTables /\ Tracked(e.cards, h) /\ old \in Int
      BY Config, Buckets DEF BucketedOf, BucketedEntry, CardsKept, CardsOf
    <2>2. DOMAIN a = Alive(e.cards, old) /\ Alive(a, old) = Alive(e.cards, old)
      BY <2>1, KeptAlive
    <2>3. a = [c \in DOMAIN a |-> a[c]]
      BY DEF Restrict
    <2> HIDE DEF a
    <2> QED BY <2>2, <2>3 DEF Restrict
  <1>5. EncodeBucketed(d) =
          [first |-> d.first, last |-> d.last, tracks |-> d.tracks, win |-> Bare(d.win),
           cards |-> Restrict(d.cards, Alive(d.cards, Oldest(DistinctWindow, d.last)))]
    BY <1>2, SnapshotFields
  <1>6. EncodeBucketed(e) = [first |-> e.first, last |-> e.last, tracks |-> e.tracks,
                             win |-> Bare(e.win), cards |-> a]
    BY SnapshotFields
  <1> HIDE DEF d, a, old
  <1>7. EncodeBucketed(d) = EncodeBucketed(e)
    BY <1>1, <1>3, <1>4, <1>5, <1>6 DEF old
  <1> QED BY <1>7 DEF d

(* A window has no more buckets than fit it.                               *)
LEMMA FewBuckets ==
    ASSUME NEW e, NEW h \in Seq(Event), NEW k, BucketedOf(e, h, k), NEW w \in W
    PROVE  Len(e.win[w]) <= Windows[w] \div Plan[w] + 1
  <1> DEFINE q == e.win[w] n == Len(q) old == Oldest(w, e.last) new == BucketOf(w, e.last)
             f == [i \in 1 .. n |-> q[i].idx]
  <1>1. e \in BucketedEntry /\ e.last \in Int /\ Queue(q, h, w, old, new)
    BY DEF BucketedOf, BucketedEntry, WindowsOf
  <1>2. /\ old \in Int /\ new \in Int /\ old <= new
        /\ new - old = Windows[w] \div Plan[w]
    BY <1>1, Buckets
  <1> HIDE DEF q, old, new
  <1>3. /\ q \in Seq(Bucket) /\ n \in Nat /\ DOMAIN q = 1 .. n
        /\ \A i \in DOMAIN q : q[i].idx \in Int /\ old <= q[i].idx /\ q[i].idx <= new
    BY <1>1, QueueTypes DEF Queue
  <1> HIDE DEF n
  <1>4. f \in Injection(1 .. n, old .. new)
    <2>1. f \in [1 .. n -> old .. new]
      BY <1>2, <1>3
    <2>2. ASSUME NEW i \in 1 .. n, NEW j \in 1 .. n, f[i] = f[j] PROVE i = j
      <3>1. i < j => q[i].idx < q[j].idx
        BY <1>1, <1>3 DEF Queue, Increasing
      <3>2. j < i => q[j].idx < q[i].idx
        BY <1>1, <1>3 DEF Queue, Increasing
      <3> QED BY <2>2, <3>1, <3>2, <1>3
    <2> QED BY <2>1, <2>2 DEF Injection, IsInjective
  <1> HIDE DEF f
  <1>5. IsFiniteSet(old .. new) /\ Cardinality(old .. new) = new - old + 1
    BY <1>2, FS_Interval
  <1>6. Cardinality(1 .. n) <= Cardinality(old .. new)
    BY <1>4, <1>5, FS_Injection
  <1>7. n <= new - old + 1
    BY <1>3, <1>5, <1>6, IntervalFinite
  <1> QED BY <1>2, <1>7 DEF n, q

(* The cards counted are no more than the cap, those kept not many more.    *)
LEMMA FewDistinct ==
    ASSUME NEW e, NEW h, NEW k, BucketedOf(e, h, k)
    PROVE  /\ e.distinct <= DistinctCap
           /\ Cardinality(DOMAIN e.cards) <= 2 * DistinctCap + CardSlack
  BY DEF BucketedOf, CardsKept, CardsOf, Roomy

(* What a restore would refuse of a bucketed entry's snapshot.             *)
LEMMA BucketsDecodable ==
    ASSUME NEW e, NEW h \in Seq(Event), NEW k, BucketedOf(e, h, k)
    PROVE  DecodableBuckets(EncodeBucketed(e))
  <1> DEFINE s == EncodeBucketed(e)
             x == DistinctWindow
             old == Oldest(x, e.last)
             a == Restrict(e.cards, Alive(e.cards, old))
  <1>1. /\ e \in BucketedEntry /\ WindowsOf(e, h, e.last) /\ CardsKept(e, h, e.last) /\ e.last \in Int
    BY DEF BucketedOf, BucketedEntry
  <1>2. /\ s.cards = a
        /\ \A w \in W : /\ DOMAIN s.win[w] = DOMAIN e.win[w]
                        /\ s.win[w] = [i \in DOMAIN e.win[w] |-> s.win[w][i]]
                        /\ \A i \in DOMAIN e.win[w] : /\ s.win[w][i].idx = e.win[w][i].idx
                                                      /\ s.win[w][i].count = e.win[w][i].count
    BY RestartFields
  <1>3. /\ x \in W /\ old \in Int
    BY <1>1, Config, Buckets
  <1>4. /\ e.cards \in CardTables /\ Tracked(e.cards, h)
        /\ e.distinct = Cardinality(Alive(e.cards, old)) /\ e.distinct <= DistinctCap
    BY <1>1 DEF CardsKept, CardsOf
  <1>5. Tracked(a, h) /\ DOMAIN a = Alive(e.cards, old)
    BY <1>3, <1>4, KeptAlive
  <1>6. \A c \in DOMAIN a : a[c] >= old
    BY <1>5 DEF Restrict, Alive
  <1> HIDE DEF s, a
  <1>7. ASSUME NEW w \in W
        PROVE  LET q == s.win[w]
               IN  /\ Len(q) <= Windows[w] \div Plan[w] + 1
                   /\ \A i \in DOMAIN q : q[i].count > 0 /\ (i > 1 => q[i - 1].idx < q[i].idx)
    <2> DEFINE p == e.win[w] n == Len(p) q == s.win[w]
    <2>1. /\ p \in Seq(Bucket) /\ Increasing(p) /\ \A i \in DOMAIN p : p[i].count > 0
      BY <1>1 DEF WindowsOf, Queue
    <2>2. n \in Nat /\ DOMAIN p = 1 .. n /\ n <= Windows[w] \div Plan[w] + 1
      BY <2>1, QueueTypes, FewBuckets
    <2>3. /\ DOMAIN q = DOMAIN p /\ q = [i \in DOMAIN p |-> q[i]]
          /\ \A i \in DOMAIN p : q[i].idx = p[i].idx /\ q[i].count = p[i].count
      BY <1>2
    <2> HIDE DEF p, n, q
    <2>4. Len(q) = n
      <3> DEFINE S == {q[i] : i \in 1 .. n}
      <3>1. q \in [1 .. n -> S]
        BY <2>2, <2>3
      <3>2. \A i \in 1 .. n : q[i] \in S
        OBVIOUS
      <3> HIDE DEF S
      <3>3. q \in Seq(S)
        BY <2>2, <3>1, SeqDef
      <3>4. Len(q) \in Nat /\ DOMAIN q = 1 .. Len(q)
        BY <3>3, LenProperties
      <3> QED BY <2>2, <2>3, <3>4
    <2>5. ASSUME NEW i \in DOMAIN q
          PROVE  q[i].count > 0 /\ (i > 1 => q[i - 1].idx < q[i].idx)
      <3>1. i \in 1 .. n /\ (i > 1 => i - 1 \in 1 .. n /\ i - 1 < i)
        BY <2>2, <2>3
      <3>2. i > 1 => p[i - 1].idx < p[i].idx
        BY <3>1, <2>1, <2>2 DEF Increasing
      <3> QED BY <3>1, <3>2, <2>1, <2>2, <2>3
    <2> QED BY <2>2, <2>4, <2>5 DEF q
  <1>8. Cardinality(DOMAIN s.cards) <= DistinctCap
    BY <1>2, <1>4, <1>5
  <1>9. ASSUME NEW c \in DOMAIN s.cards
        PROVE  \E i \in DOMAIN s.win[x] : s.win[x][i].idx = s.cards[c]
    <2>1. PICK j \in DOMAIN h : BucketOf(x, h[j].t) = a[c]
      BY <1>2, <1>5 DEF Tracked
    <2>2. j \in InSpan(h, x, old)
      BY <2>1, <1>2, <1>6 DEF InSpan
    <2>3. PICK i \in DOMAIN e.win[x] : e.win[x][i].idx = BucketOf(x, h[j].t)
      BY <2>2, <1>1, <1>3 DEF WindowsOf, Queue
    <2> QED BY <2>1, <2>3, <1>2, <1>3
  <1> QED BY <1>7, <1>8, <1>9 DEF DecodableBuckets, s

(* An exact entry keeps no event that its longest window has lost.         *)
LEMMA RecentOnly ==
    ASSUME NEW e, NEW h \in Seq(Event), NEW k, ExactOf(e, h, k), NEW i \in DOMAIN e.ev
    PROVE  e.ev[i].t > e.last - Windows[Len(Windows)]
  <1> DEFINE b == e.base z == End(e) l == Len(h) m == Len(e.ev) s == b + i - 1 w == Len(Windows)
             j == s + 1 + l - z
  <1>1. e \in ExactEntry /\ Placed(e, h, e.last) /\ e.start[w] = b /\ w \in W
    BY Config DEF ExactOf
  <1>2. /\ b \in Nat /\ m \in Nat /\ z = b + m /\ m <= l /\ l \in Nat /\ DOMAIN h = 1 .. l
        /\ DOMAIN e.ev = 1 .. m
    <2>1. e.ev \in Seq(Event)
      BY <1>1 DEF ExactEntry
    <2> QED BY <1>1, <2>1, InsideFinite, HistoryTypes, LenProperties DEF Placed
  <1>3. \A r \in b .. z - 1 : EvAt(e, r) = h[r + 1 + l - z]
    BY <1>1 DEF Placed
  <1>4. \A r \in DOMAIN h : r > l - (z - b) => h[r].t > e.last - Windows[w]
    BY <1>1 DEF Placed
  <1> HIDE DEF b, z, l, m, w
  <1>5. s \in b .. z - 1 /\ s - b + 1 = i /\ j \in 1 .. l /\ j > l - (z - b)
    BY <1>2
  <1> HIDE DEF s
  <1>6. EvAt(e, s) = e.ev[i]
    BY <1>5 DEF EvAt, b
  <1>7. e.ev[i] = h[j]
    BY <1>3, <1>5, <1>6
  <1> QED BY <1>2, <1>4, <1>5, <1>7 DEF w

(* What a restore would refuse of an exact entry's snapshot.               *)
LEMMA ExactDecodable ==
    ASSUME NEW e, NEW h \in Seq(Event), NEW k, ExactOf(e, h, k)
    PROVE  Decodable(EncodeExact(e))
  <1> DEFINE s == EncodeExact(e)
  <1>1. /\ e \in ExactEntry /\ Totals(e) /\ InOrder(h) /\ Placed(e, h, e.last) /\ e.last \in Int
        /\ e.start[Len(Windows)] = e.base
    BY DEF ExactOf, ExactEntry
  <1>2. s.ev = e.ev /\ \A w \in W : s.starts[w] = e.start[w] - e.base
    BY DEF EncodeExact
  <1> HIDE DEF s
  <1>3. ASSUME NEW w \in W PROVE s.starts[w] <= Len(s.ev)
    BY <1>1, <1>2, InsideFinite DEF Totals
  <1>4. ASSUME NEW w \in W \ {1} PROVE s.starts[w] <= s.starts[w - 1]
    <2>1. w \in W /\ w - 1 \in W /\ w - 1 < w
      BY Config
    <2>2. e.start[w] <= e.start[w - 1]
      BY <2>1, <1>1, StartsNest
    <2>3. e.start[w] \in Nat /\ e.start[w - 1] \in Nat /\ e.base \in Nat
      BY <2>1, <1>1, InsideFinite
    <2> QED BY <2>1, <2>2, <2>3, <1>2
  <1>5. s.starts[Len(Windows)] = 0
    <2>1. Len(Windows) \in W
      BY Config
    <2> QED BY <2>1, <1>1, <1>2, InsideFinite
  <1> QED BY <1>3, <1>4, <1>5 DEF Decodable, s

-----------------------------------------------------------------------------
(* The stores: every key's entry stands to its history as its kind says,   *)
(* and every step keeps it so.                                             *)

(* What an entry of either kind knows.                                     *)
EntryOf(kind, e, h, k) == IF kind = "exact" THEN ExactOf(e, h, k) ELSE BucketedOf(e, h, k)
(* A store holds an entry for each key with a history, and the entry knows *)
(* the history.                                                            *)
Holds(kind, m, hist) ==
    /\ DOMAIN m = {k \in StoreKeys : hist[k] # <<>>}
    /\ \A k \in DOMAIN m : EntryOf(kind, m[k], hist[k], k)
(* The inductive invariant.                                                *)
IInv == TypeOK /\ \A kind \in Kinds : Holds(kind, store[kind], history)

(* A late event is recorded at the key's latest time.                      *)
Clamp(h, ev) == IF ev.t < Last(h).t THEN [ev EXCEPT !.t = Last(h).t] ELSE ev

(* An entry's latest time is its history's.                                *)
LEMMA EntryLast ==
    ASSUME NEW kind, NEW e, NEW h, NEW k, EntryOf(kind, e, h, k)
    PROVE  h # <<>> /\ e.last = Last(h).t
  BY DEF EntryOf, ExactOf, BucketedOf

(* A history with a payment recorded.                                      *)
LEMMA RecordedTypes ==
    ASSUME NEW h \in Seq(Event), NEW ev \in Event
    PROVE  Recorded(h, ev) \in Seq(Event) /\ Recorded(h, ev) # <<>>
  <1>1. <<ev>> \in Seq(Event) /\ <<ev>> # <<>>
    OBVIOUS
  <1>2. ASSUME h # <<>>
        PROVE  Append(h, Clamp(h, ev)) \in Seq(Event) /\ Append(h, Clamp(h, ev)) # <<>>
    <2>1. Last(h).t \in Moments
      <3>1. 0 \in Int
        OBVIOUS
      <3> QED BY <1>2, <3>1, LatestTypes
    <2>2. Clamp(h, ev) \in Event
      <3> DEFINE last == Last(h).t
      <3>1. ev.t \in Moments /\ ev.milli \in Int /\ ev.card \in Cards
        BY DEF Event
      <3>2. ev.t < last => Clamp(h, ev) = [t |-> last, milli |-> ev.milli, card |-> ev.card]
        BY DEF Clamp, Event
      <3>3. ~(ev.t < last) => Clamp(h, ev) = ev
        BY DEF Clamp
      <3>4. last \in Moments
        BY <2>1
      <3> HIDE DEF last
      <3> QED BY <3>1, <3>2, <3>3, <3>4 DEF Event
    <2> QED BY <2>2, OneMore
  <1>3. Recorded(h, ev) = <<ev>> \/ (h # <<>> /\ Recorded(h, ev) = Append(h, Clamp(h, ev)))
    BY DEF Recorded, Clamp
  <1> QED BY <1>1, <1>2, <1>3

(* A payment: the key is live and its entry has one event more, or it is   *)
(* new or idle and starts over, in the store as in the history.            *)
LEMMA PayHolds ==
    ASSUME NEW kind \in Kinds, NEW hist \in [StoreKeys -> Seq(Event)], NEW m, Holds(kind, m, hist),
           NEW k \in StoreKeys, NEW ev \in Event
    PROVE  Holds(kind, ReadAdd(kind, m, k, ev).m, [hist EXCEPT ![k] = Recorded(@, ev)])
  <1> DEFINE h == hist[k]
             o == IF Live(m, k, ev.t) THEN m[k] ELSE NewEntry(kind, k.distinct)
             e == AddEntry(kind, o, ev)
             g == Recorded(h, ev)
             r == [hist EXCEPT ![k] = g]
             p == Put(m, k, e)
  <1>1. h \in Seq(Event) /\ k.distinct \in BOOLEAN /\ ev.t \in Int
    BY PaymentsAssumption, EventTypes
  <1>2. k \in DOMAIN m <=> h # <<>>
    BY DEF Holds
  <1>3. g \in Seq(Event) /\ g # <<>>
    BY <1>1, RecordedTypes
  <1>4. EntryOf(kind, e, g, k)
    <2>1. CASE Live(m, k, ev.t)
      <3>1. k \in DOMAIN m /\ h # <<>> /\ EntryOf(kind, m[k], h, k) /\ o = m[k]
        BY <2>1, <1>2 DEF Live, Holds
      <3>2. m[k].last = Last(h).t /\ Last(h).t \in Int
        BY <1>1, <3>1, EntryLast, LatestTypes
      <3>3. ~(ev.t - Last(h).t >= TTL)
        BY <2>1, <3>2 DEF Live, IsIdle
      <3>4. g = Append(h, Clamp(h, ev))
        BY <3>1, <3>3 DEF Recorded, Clamp
      <3> HIDE DEF o, h, g
      <3>5. CASE kind = "exact"
        <4>1. ExactOf(AddExact(m[k], ev), Append(h, Clamp(h, ev)), k)
          BY <1>1, <3>1, <3>5, AddToLive DEF EntryOf, Clamp
        <4> QED BY <4>1, <3>1, <3>4, <3>5 DEF EntryOf, AddEntry
      <3>6. CASE kind # "exact"
        <4>1. BucketedOf(AddBucketed(m[k], ev), Append(h, Clamp(h, ev)), k)
          BY <1>1, <3>1, <3>6, AddToLiveBucketed DEF EntryOf, Clamp
        <4> QED BY <4>1, <3>1, <3>4, <3>6 DEF EntryOf, AddEntry
      <3> QED BY <3>5, <3>6
    <2>2. CASE ~Live(m, k, ev.t)
      <3>1. g = <<ev>>
        <4>1. CASE h = <<>>
          BY <4>1 DEF Recorded
        <4>2. CASE h # <<>>
          <5>1. k \in DOMAIN m /\ EntryOf(kind, m[k], h, k)
            BY <4>2, <1>2 DEF Holds
          <5>2. m[k].last = Last(h).t
            BY <5>1, EntryLast
          <5>3. ev.t - Last(h).t >= TTL
            BY <2>2, <5>1, <5>2 DEF Live, IsIdle
          <5> QED BY <5>3 DEF Recorded
        <4> QED BY <4>1, <4>2
      <3>2. o = NewEntry(kind, k.distinct)
        BY <2>2
      <3> HIDE DEF o, g
      <3>3. CASE kind = "exact"
        BY <1>1, <3>1, <3>2, <3>3, AddToNew DEF EntryOf, AddEntry, NewEntry
      <3>4. CASE kind # "exact"
        BY <1>1, <3>1, <3>2, <3>4, AddToNewBucketed DEF EntryOf, AddEntry, NewEntry
      <3> QED BY <3>3, <3>4
    <2> QED BY <2>1, <2>2
  <1> HIDE DEF e, g, h
  <1>5. /\ r[k] = g /\ \A x \in StoreKeys : x # k => r[x] = hist[x]
        /\ DOMAIN p = DOMAIN m \cup {k} /\ p[k] = e
        /\ \A x \in DOMAIN m : x # k => p[x] = m[x]
    BY DEF Put
  <1> HIDE DEF p, r
  <1>6. Holds(kind, p, r)
    <2>1. DOMAIN m = {x \in StoreKeys : hist[x] # <<>>} /\ \A x \in DOMAIN m : EntryOf(kind, m[x], hist[x], x)
      BY DEF Holds
    <2>2. DOMAIN p = {x \in StoreKeys : r[x] # <<>>}
      BY <2>1, <1>3, <1>5
    <2>3. ASSUME NEW x \in DOMAIN p PROVE EntryOf(kind, p[x], r[x], x)
      <3>1. CASE x = k
        BY <3>1, <1>4, <1>5
      <3>2. CASE x # k
        BY <3>2, <2>1, <1>5
      <3> QED BY <3>1, <3>2
    <2> QED BY <2>2, <2>3 DEF Holds
  <1>7. ReadAdd(kind, m, k, ev).m = p
    BY DEF ReadAdd, p, e
  <1> QED BY <1>6, <1>7 DEF r, g, h

(* The histories a sweep leaves.                                           *)
Swept(hist, now) == [k \in StoreKeys |-> IF hist[k] # <<>> /\ now - Last(hist[k]).t >= TTL
                                    THEN <<>> ELSE hist[k]]

(* A sweep removes the entries of the keys whose history it forgets.       *)
LEMMA SweepHolds ==
    ASSUME NEW kind, NEW hist, NEW m, Holds(kind, m, hist), NEW now
    PROVE  Holds(kind, EvictIdle(m, now), Swept(hist, now))
  <1> DEFINE p == EvictIdle(m, now) r == Swept(hist, now)
  <1>1. DOMAIN m = {k \in StoreKeys : hist[k] # <<>>} /\ \A k \in DOMAIN m : EntryOf(kind, m[k], hist[k], k)
    BY DEF Holds
  <1>2. \A k \in DOMAIN m : IsIdle(m[k], now) <=> now - Last(hist[k]).t >= TTL
    BY <1>1, EntryLast DEF IsIdle
  <1>3. /\ DOMAIN p = {k \in DOMAIN m : ~IsIdle(m[k], now)} /\ \A k \in DOMAIN p : p[k] = m[k]
    BY DEF EvictIdle, Restrict
  <1>4. \A k \in StoreKeys : r[k] = IF hist[k] # <<>> /\ now - Last(hist[k]).t >= TTL THEN <<>> ELSE hist[k]
    BY DEF Swept
  <1> HIDE DEF p, r
  <1>5. DOMAIN p = {k \in StoreKeys : r[k] # <<>>} /\ \A k \in DOMAIN p : r[k] = hist[k]
    BY <1>1, <1>2, <1>3, <1>4
  <1> QED BY <1>1, <1>3, <1>5 DEF Holds, p, r

(* A restarted entry knows the same history, and answers the same.         *)
LEMMA RestartedEntry ==
    ASSUME NEW kind \in Kinds, NEW hist \in [StoreKeys -> Seq(Event)], NEW m, Holds(kind, m, hist),
           NEW k \in DOMAIN m
    PROVE  LET d == Restarted(kind, m)[k]
           IN  /\ EntryOf(kind, d, hist[k], k)
               /\ \A now \in Int : now - Last(hist[k]).t < TTL
                                     => ReadEntry(kind, d, now) = ReadEntry(kind, m[k], now)
  <1> DEFINE h == hist[k] e == m[k]
             x == DecodeExact(EncodeExact(e)) b == DecodeBucketed(EncodeBucketed(e))
  <1>1. k \in StoreKeys /\ h # <<>> /\ h \in Seq(Event) /\ EntryOf(kind, e, h, k)
    BY DEF Holds
  <1>2. Restarted(kind, m)[k] = IF kind = "exact" THEN x ELSE b
    BY DEF Restarted
  <1> HIDE DEF h, e, x, b
  <1>3. CASE kind = "exact"
    <2>1. ExactOf(e, h, k)
      BY <1>1, <1>3 DEF EntryOf
    <2>2. ExactOf(x, h, k)
      BY <1>1, <2>1, RestartOfExact DEF x
    <2>3. ASSUME NEW now \in Int, now - Last(h).t < TTL, NEW y, ExactOf(y, h, k)
          PROVE  ReadExact(y, now) = HistoryRead(h, k, now)
      <3>1. Last(h).t \in Int
        BY <1>1, <2>3, LatestTypes
      <3>2. /\ y \in ExactEntry /\ Totals(y) /\ CardsKnown(y) /\ InOrder(h) /\ Placed(y, h, Last(h).t)
            /\ y.tracks = k.distinct /\ y.first = h[1].t /\ y.last = Last(h).t
        BY <2>3 DEF ExactOf
      <3> DEFINE last == Last(h).t
      <3>3. last = Last(h).t
        OBVIOUS
      <3> HIDE DEF last
      <3> QED BY <1>1, <2>3, <3>1, <3>2, <3>3, ReadOfExact
    <2> QED BY <1>2, <1>3, <2>1, <2>2, <2>3 DEF EntryOf, ReadEntry, h, e
  <1>4. CASE kind # "exact"
    <2>1. BucketedOf(e, h, k)
      BY <1>1, <1>4 DEF EntryOf
    <2>2. /\ BucketedOf(b, h, k)
          /\ \A old \in Int : Oldest(DistinctWindow, Last(h).t) <= old
                                => Alive(b.cards, old) = Alive(e.cards, old)
      BY <1>1, <2>1, RestartOfBucketed DEF b
    <2>3. ASSUME NEW now \in Int PROVE ReadBucketed(b, now) = ReadBucketed(e, now)
      <3> DEFINE t == Latest(h, now) old == Oldest(DistinctWindow, t)
      <3>1. Last(h).t \in Int /\ t \in Int /\ Last(h).t <= t
        BY <1>1, LatestTypes
      <3>2. old \in Int /\ Oldest(DistinctWindow, Last(h).t) <= old
        BY <3>1, Config, Buckets
      <3>3. Alive(b.cards, old) = Alive(e.cards, old)
        BY <2>2, <3>2
      <3>4. SpanRead(h, k, t, b.cards) = SpanRead(h, k, t, e.cards)
        BY <3>3 DEF SpanRead
      <3> QED BY <1>1, <2>1, <2>2, <3>4, ReadOfBucketed
    <2> QED BY <1>2, <1>4, <2>1, <2>2, <2>3 DEF EntryOf, ReadEntry, h, e
  <1> QED BY <1>3, <1>4

(* A restart keeps what the stores know, and what they answer.             *)
LEMMA RestartHolds ==
    ASSUME NEW kind \in Kinds, NEW hist \in [StoreKeys -> Seq(Event)], NEW m, Holds(kind, m, hist)
    PROVE  /\ Holds(kind, Restarted(kind, m), hist)
           /\ \A k \in StoreKeys, now \in Moments :
                Read(kind, Restarted(kind, m), k, now) = Read(kind, m, k, now)
  <1> DEFINE p == Restarted(kind, m)
  <1>1. DOMAIN p = DOMAIN m
    BY DEF Restarted
  <1>2. \A k \in DOMAIN m : EntryOf(kind, p[k], hist[k], k)
    BY RestartedEntry
  <1>3. \A k \in DOMAIN m : EntryOf(kind, m[k], hist[k], k)
    BY DEF Holds
  <1>4. ASSUME NEW k \in StoreKeys, NEW now \in Moments
        PROVE  Read(kind, p, k, now) = Read(kind, m, k, now)
    <2>1. now \in Int
      BY PaymentsAssumption
    <2>2. CASE k \notin DOMAIN m
      BY <2>2, <1>1 DEF Read, Live
    <2>3. CASE k \in DOMAIN m
      <3> DEFINE last == Last(hist[k]).t
      <3>1. p[k].last = last /\ m[k].last = last /\ hist[k] # <<>> /\ hist[k] \in Seq(Event)
        BY <2>3, <1>2, <1>3, EntryLast
      <3>2. last \in Int
        BY <2>1, <3>1, LatestTypes
      <3>3. now - last < TTL => ReadEntry(kind, p[k], now) = ReadEntry(kind, m[k], now)
        BY <2>1, <2>3, RestartedEntry
      <3> HIDE DEF p, last
      <3>4. Live(m, k, now) <=> Live(p, k, now)
        BY <1>1, <3>1 DEF Live, IsIdle
      <3>5. Live(m, k, now) => now - last < TTL
        BY <2>1, <3>1, <3>2, Config DEF Live, IsIdle
      <3> QED BY <3>3, <3>4, <3>5 DEF Read
    <2> QED BY <2>2, <2>3
  <1> HIDE DEF p
  <1>5. Holds(kind, p, hist)
    BY <1>1, <1>2 DEF Holds
  <1> QED BY <1>4, <1>5 DEF p

-----------------------------------------------------------------------------
(* The theorems.                                                           *)

(* At first nothing is known.                                              *)
LEMMA InitHolds == StoreInit => IInv
  <1> SUFFICES ASSUME StoreInit PROVE IInv
    OBVIOUS
  <1>1. /\ history = [k \in StoreKeys |-> <<>>] /\ paid = 0 /\ <<>> \in Seq(Event)
        /\ \A kind \in Kinds : store[kind] = <<>>
    BY EmptySeq DEF StoreInit
  <1>2. DOMAIN <<>> = {}
    OBVIOUS
  <1>3. Len(Amount) \in Nat
    BY PaymentsAssumption, LenProperties
  <1>4. TypeOK
    BY <1>1, <1>2, <1>3 DEF TypeOK
  <1>5. \A kind \in Kinds : Holds(kind, store[kind], history)
    BY <1>1, <1>2 DEF Holds
  <1> QED BY <1>4, <1>5 DEF IInv

(* What a store holds says what its keys are.                              *)
LEMMA TypesOfHolds ==
    ASSUME history' \in [StoreKeys -> Seq(Event)], paid' \in 0 .. Len(Amount),
           \A kind \in Kinds : Holds(kind, store'[kind], history')
    PROVE  IInv'
  <1>1. \A kind \in Kinds : DOMAIN store'[kind] \subseteq StoreKeys
    BY DEF Holds
  <1> QED BY <1>1 DEF IInv, TypeOK

(* Every step keeps the invariant.                                         *)
LEMMA NextHolds == IInv /\ [StoreNext]_storeVars => IInv'
  <1> SUFFICES ASSUME IInv, [StoreNext]_storeVars PROVE IInv'
    OBVIOUS
  <1>1. /\ history \in [StoreKeys -> Seq(Event)] /\ paid \in 0 .. Len(Amount) /\ Len(Amount) \in Nat
        /\ \A kind \in Kinds : Holds(kind, store[kind], history)
    BY PaymentsAssumption, LenProperties DEF IInv, TypeOK
  <1>2. ASSUME NEW k \in StoreKeys, NEW t \in Moments, NEW card \in Cards, Pay(k, t, card)
        PROVE  IInv'
    <2> DEFINE ev == [t |-> t, milli |-> Amount[paid + 1], card |-> card]
    <2>1. /\ paid < Len(Amount) /\ paid' = paid + 1
          /\ store' = [kind \in Kinds |-> ReadAdd(kind, store[kind], k, ev).m]
          /\ history' = [history EXCEPT ![k] = Recorded(@, ev)]
      BY <1>2 DEF Pay
    <2>2. ev \in Event
      <3>1. paid + 1 \in 1 .. Len(Amount)
        BY <1>1, <2>1
      <3>2. Amount[paid + 1] \in Int
        BY <3>1, PaymentsAssumption, ElementOfSeq
      <3> QED BY <3>2 DEF Event
    <2> HIDE DEF ev
    <2>3. \A kind \in Kinds : Holds(kind, store'[kind], history')
      <3> TAKE kind \in Kinds
      <3>1. store'[kind] = ReadAdd(kind, store[kind], k, ev).m
        BY <2>1
      <3>2. Holds(kind, ReadAdd(kind, store[kind], k, ev).m, [history EXCEPT ![k] = Recorded(@, ev)])
        BY <1>1, <2>2, PayHolds
      <3> QED BY <2>1, <3>1, <3>2
    <2>4. history' \in [StoreKeys -> Seq(Event)]
      <3>1. history[k] \in Seq(Event)
        BY <1>1
      <3>2. Recorded(history[k], ev) \in Seq(Event)
        BY <2>2, <3>1, RecordedTypes
      <3> QED BY <1>1, <2>1, <3>2
    <2>5. paid' \in 0 .. Len(Amount)
      BY <1>1, <2>1
    <2> QED BY <2>3, <2>4, <2>5, TypesOfHolds
  <1>3. ASSUME NEW now \in Moments, Sweep(now)
        PROVE  IInv'
    <2>1. /\ store' = [kind \in Kinds |-> EvictIdle(store[kind], now)]
          /\ history' = Swept(history, now) /\ paid' = paid
      BY <1>3 DEF Sweep, Swept
    <2>2. \A kind \in Kinds : Holds(kind, store'[kind], history')
      BY <1>1, <2>1, SweepHolds
    <2>3. history' \in [StoreKeys -> Seq(Event)]
      BY <1>1, <2>1, EmptySeq DEF Swept
    <2> QED BY <1>1, <2>1, <2>2, <2>3, TypesOfHolds
  <1>4. ASSUME Restart
        PROVE  IInv'
    <2>1. /\ store' = [kind \in Kinds |-> Restarted(kind, store[kind])]
          /\ history' = history /\ paid' = paid
      BY <1>4 DEF Restart
    <2>2. \A kind \in Kinds : Holds(kind, store'[kind], history')
      BY <1>1, <2>1, RestartHolds
    <2> QED BY <1>1, <2>1, <2>2, TypesOfHolds
  <1>5. CASE UNCHANGED storeVars
    BY <1>5 DEF storeVars, IInv, TypeOK, Holds
  <1> QED BY <1>2, <1>3, <1>4, <1>5 DEF StoreNext

(* The stores know the history, whatever payments, sweeps and restarts     *)
(* happened (keyed.go:41-150).                                             *)
THEOREM Inductive == StoreSpec => []IInv
  BY InitHolds, NextHolds, PTL DEF StoreSpec

(* The state has its types: no store has an entry for a key it was not     *)
(* given.                                                                  *)
THEOREM Typed == StoreSpec => []TypeOK
  <1>1. IInv => TypeOK
    BY DEF IInv
  <1> QED BY <1>1, Inductive, PTL

(* The two kinds.                                                          *)
LEMMA KindsAre == "exact" \in Kinds /\ "bucketed" \in Kinds /\ "exact" # "bucketed"
  BY DEF Kinds

(* A key has an entry that is not idle exactly if its history is not.      *)
LEMMA LiveHistory ==
    ASSUME IInv, NEW kind \in Kinds, NEW k \in StoreKeys, NEW now \in Moments
    PROVE  LET m == store[kind] h == history[k]
           IN  /\ h \in Seq(Event) /\ now \in Int
               /\ Live(m, k, now) => /\ EntryOf(kind, m[k], h, k)
                                     /\ h # <<>> /\ now - Last(h).t < TTL
               /\ ~Live(m, k, now) => h = <<>> \/ now - Last(h).t >= TTL
  <1> DEFINE m == store[kind] h == history[k]
  <1>1. h \in Seq(Event) /\ now \in Int /\ Holds(kind, m, history) /\ TTL \in Int
    BY PaymentsAssumption, ConfigAssumption DEF IInv, TypeOK
  <1>2. k \in DOMAIN m <=> h # <<>>
    BY <1>1 DEF Holds
  <1>3. k \in DOMAIN m => EntryOf(kind, m[k], h, k)
    BY <1>1 DEF Holds
  <1> HIDE DEF m, h
  <1>4. k \in DOMAIN m => m[k].last = Last(h).t /\ Last(h).t \in Int
    BY <1>1, <1>3, EntryLast, LatestTypes
  <1> DEFINE last == Last(h).t
  <1>5. k \in DOMAIN m => last \in Int /\ m[k].last = last
    BY <1>4
  <1> HIDE DEF last
  <1>6. Live(m, k, now) <=> k \in DOMAIN m /\ ~(now - last >= TTL)
    BY <1>5 DEF Live, IsIdle
  <1>7. Live(m, k, now) => now - last < TTL
    BY <1>1, <1>5, <1>6
  <1> QED BY <1>1, <1>2, <1>3, <1>6, <1>7 DEF m, h, last

(* The exact store answers, at any time and without writing, what the      *)
(* history says: its running totals never drift, however payments, late    *)
(* ones, sweeps and restarts follow each other (exact.go:34-38, 62-144).   *)
THEOREM ExactReadsHold == StoreSpec => []ExactReads
  <1>1. IInv => ExactReads
    <2> SUFFICES ASSUME IInv, NEW k \in StoreKeys, NEW now \in Moments
                 PROVE  ReadOf("exact", k, now) = HistoryRead(history[k], k, now)
      BY DEF ExactReads
    <2> DEFINE kind == "exact" m == store[kind] h == history[k] e == m[k]
    <2>1. kind \in Kinds /\ kind = "exact"
      BY KindsAre
    <2>2. /\ h \in Seq(Event) /\ now \in Int
          /\ Live(m, k, now) => EntryOf(kind, e, h, k) /\ h # <<>> /\ now - Last(h).t < TTL
          /\ ~Live(m, k, now) => h = <<>> \/ now - Last(h).t >= TTL
      BY <2>1, LiveHistory
    <2>3. ReadOf(kind, k, now) = Read(kind, m, k, now)
      BY DEF ReadOf
    <2> HIDE DEF kind, m, h, e
    <2>4. CASE Live(m, k, now)
      <3>1. ExactOf(e, h, k)
        BY <2>1, <2>2, <2>4 DEF EntryOf
      <3> DEFINE last == Last(h).t
      <3>2. /\ e \in ExactEntry /\ Totals(e) /\ CardsKnown(e) /\ InOrder(h) /\ Placed(e, h, last)
            /\ h # <<>> /\ e.tracks = k.distinct /\ e.first = h[1].t /\ e.last = last
            /\ last = Last(h).t /\ last \in Int /\ now - last < TTL
        BY <2>2, <2>4, <3>1, LatestTypes DEF ExactOf
      <3> HIDE DEF last
      <3>3. ReadExact(e, now) = HistoryRead(h, k, now)
        BY <2>2, <3>2, ReadOfExact
      <3> QED BY <2>1, <2>3, <2>4, <3>3 DEF Read, ReadEntry, e, h, kind
    <2>5. CASE ~Live(m, k, now)
      BY <2>2, <2>3, <2>5 DEF Read, HistoryRead, h, kind
    <2> QED BY <2>4, <2>5
  <1> QED BY <1>1, Inductive, PTL

(* What the bucketed store counts and adds up are the payments of one      *)
(* window, the one asked for or up to a bucket longer, whatever the signs  *)
(* of their amounts; distinct cards are at most those of the longest such  *)
(* window, and no fewer than the exact ones while the key was never at the *)
(* cap (bucketed.go:35-42).                                                *)
THEOREM BucketedBoundHolds == StoreSpec => []BucketedBound
  <1>1. IInv => BucketedBound
    <2> SUFFICES ASSUME IInv, NEW k \in StoreKeys, NEW now \in Moments
                 PROVE  WithinABucket(history[k], k, now, ReadOf("bucketed", k, now))
      BY DEF BucketedBound
    <2> DEFINE kind == "bucketed" m == store[kind] h == history[k] e == m[k]
    <2>1. kind \in Kinds /\ kind # "exact"
      BY KindsAre
    <2>2. /\ h \in Seq(Event) /\ now \in Int
          /\ Live(m, k, now) => EntryOf(kind, e, h, k) /\ now - Last(h).t < TTL
          /\ ~Live(m, k, now) => h = <<>> \/ now - Last(h).t >= TTL
      BY <2>1, LiveHistory
    <2>3. ReadOf(kind, k, now) = Read(kind, m, k, now)
      BY DEF ReadOf
    <2> HIDE DEF kind, m, h, e
    <2>4. CASE Live(m, k, now)
      <3>1. BucketedOf(e, h, k)
        BY <2>1, <2>2, <2>4 DEF EntryOf
      <3>2. WithinABucket(h, k, now, ReadBucketed(e, now))
        BY <2>2, <2>4, <3>1, BoundOfBucketed
      <3> QED BY <2>1, <2>3, <2>4, <3>2 DEF Read, ReadEntry, e, h, kind
    <2>5. CASE ~Live(m, k, now)
      <3> DEFINE a == Unseen(k.distinct)
      <3>1. HistoryRead(h, k, now) = a /\ ReadOf(kind, k, now) = a
        BY <2>2, <2>3, <2>5 DEF Read, HistoryRead
      <3>2. a.seen = FALSE
        BY DEF Unseen
      <3> HIDE DEF a
      <3>3. WithinABucket(h, k, now, a)
        BY <3>1, <3>2 DEF WithinABucket
      <3> QED BY <3>1, <3>3 DEF h, kind
    <2> QED BY <2>4, <2>5
  <1> QED BY <1>1, Inductive, PTL

(* A key with an entry has the history it knows.                           *)
LEMMA EntriesKnow ==
    ASSUME IInv, NEW kind \in Kinds, NEW k \in DOMAIN store[kind]
    PROVE  k \in StoreKeys /\ history[k] \in Seq(Event) /\ EntryOf(kind, store[kind][k], history[k], k)
  BY DEF IInv, TypeOK, Holds

(* However many payments a key makes, the exact store keeps no event that  *)
(* its longest window has lost, and the bucketed store no more buckets than *)
(* its plan has, and of cards, the expired ones that linger in its table   *)
(* included, no more than the sweep lets pass (exact.go:14-15,             *)
(* bucketed.go:28-44, 195-205).                                            *)
THEOREM MemoryBoundedHolds == StoreSpec => []MemoryBounded
  <1>1. IInv => MemoryBounded
    <2> SUFFICES ASSUME IInv PROVE MemoryBounded
      OBVIOUS
    <2>1. ASSUME NEW k \in DOMAIN store["exact"]
          PROVE  LET e == store["exact"][k]
                 IN  \A i \in DOMAIN e.ev : e.ev[i].t > e.last - Windows[Len(Windows)]
      <3>1. history[k] \in Seq(Event) /\ ExactOf(store["exact"][k], history[k], k)
        BY KindsAre, EntriesKnow DEF EntryOf
      <3> QED BY <3>1, RecentOnly
    <2>2. ASSUME NEW k \in DOMAIN store["bucketed"]
          PROVE  LET e == store["bucketed"][k]
                 IN  /\ \A w \in W : Len(e.win[w]) <= Windows[w] \div Plan[w] + 1
                     /\ e.distinct <= DistinctCap
                     /\ Cardinality(DOMAIN e.cards) <= 2 * DistinctCap + CardSlack
      <3>1. history[k] \in Seq(Event) /\ BucketedOf(store["bucketed"][k], history[k], k)
        BY KindsAre, EntriesKnow DEF EntryOf
      <3> QED BY <3>1, FewBuckets, FewDistinct
    <2> QED BY <2>1, <2>2 DEF MemoryBounded
  <1> QED BY <1>1, Inductive, PTL

(* A store restored from its snapshot has made the same snapshot, and a     *)
(* decoder refuses none: what decode rebuilds is what encode left out      *)
(* (exact.go:156-213, bucketed.go:228-310, snapshot_test.go:14-16).        *)
THEOREM RestorableHolds == StoreSpec => []Restorable
  <1>1. IInv => Restorable
    <2> SUFFICES ASSUME IInv PROVE Restorable
      OBVIOUS
    <2>1. ASSUME NEW k \in DOMAIN store["exact"]
          PROVE  LET s == EncodeExact(store["exact"][k])
                 IN  Decodable(s) /\ EncodeExact(DecodeExact(s)) = s
      <3>1. history[k] \in Seq(Event) /\ ExactOf(store["exact"][k], history[k], k)
        BY KindsAre, EntriesKnow DEF EntryOf
      <3> QED BY <3>1, ExactDecodable, RestartOfExact
    <2>2. ASSUME NEW k \in DOMAIN store["bucketed"]
          PROVE  LET s == EncodeBucketed(store["bucketed"][k])
                 IN  DecodableBuckets(s) /\ EncodeBucketed(DecodeBucketed(s)) = s
      <3>1. history[k] \in Seq(Event) /\ BucketedOf(store["bucketed"][k], history[k], k)
        BY KindsAre, EntriesKnow DEF EntryOf
      <3> QED BY <3>1, BucketsDecodable, SnapshotAgain
    <2> QED BY <2>1, <2>2 DEF Restorable
  <1> QED BY <1>1, Inductive, PTL

(* A sweep changes no answer at its own time or later: it frees only what  *)
(* such a read finds idle (keyed.go:41-46, 64-73).                         *)
LEMMA SweepSame ==
    ASSUME IInv, NEW now \in Moments, Sweep(now), NEW t \in Moments, t >= now
    PROVE  SameAt(t)
  <1> SUFFICES ASSUME NEW kind \in Kinds, NEW k \in StoreKeys
               PROVE  Read(kind, store'[kind], k, t) = ReadOf(kind, k, t)
    BY DEF SameAt
  <1> DEFINE m == store[kind] p == EvictIdle(m, now)
  <1>1. store'[kind] = p
    BY DEF Sweep
  <1>2. now \in Int /\ t \in Int /\ TTL \in Int
    BY PaymentsAssumption, Config
  <1>3. ReadOf(kind, k, t) = Read(kind, m, k, t)
    BY DEF ReadOf
  <1> HIDE DEF m
  <1>4. /\ DOMAIN p = {x \in DOMAIN m : ~IsIdle(m[x], now)}
        /\ k \in DOMAIN p => p[k] = m[k]
    BY DEF EvictIdle, Restrict
  <1> HIDE DEF p
  <1>5. CASE k \notin DOMAIN m
    BY <1>1, <1>3, <1>4, <1>5 DEF Read, Live
  <1>6. CASE k \in DOMAIN m
    <2> DEFINE last == m[k].last
    <2>1. last \in Int
      <3>1. history[k] \in Seq(Event) /\ EntryOf(kind, m[k], history[k], k)
        BY <1>6, EntriesKnow DEF m
      <3>2. history[k] # <<>> /\ last = Last(history[k]).t
        BY <3>1, EntryLast
      <3> QED BY <3>1, <3>2, LatestTypes, <1>2
    <2> HIDE DEF last
    <2>2. IsIdle(m[k], now) => IsIdle(m[k], t)
      BY <1>2, <2>1 DEF IsIdle, last
    <2>3. Live(p, k, t) <=> Live(m, k, t)
      BY <1>4, <1>6, <2>2 DEF Live
    <2>4. Live(p, k, t) => p[k] = m[k]
      BY <1>4 DEF Live
    <2> QED BY <1>1, <1>3, <2>3, <2>4 DEF Read
  <1> QED BY <1>5, <1>6

(* A restart from a snapshot changes no answer, at any time, of either     *)
(* store (keyed.go:89-150).                                                *)
LEMMA RestartSame ==
    ASSUME IInv, Restart, NEW t \in Moments
    PROVE  SameAt(t)
  <1> SUFFICES ASSUME NEW kind \in Kinds, NEW k \in StoreKeys
               PROVE  Read(kind, store'[kind], k, t) = ReadOf(kind, k, t)
    BY DEF SameAt
  <1>1. store'[kind] = Restarted(kind, store[kind])
    BY DEF Restart
  <1>2. history \in [StoreKeys -> Seq(Event)] /\ Holds(kind, store[kind], history)
    BY DEF IInv, TypeOK
  <1>3. Read(kind, Restarted(kind, store[kind]), k, t) = Read(kind, store[kind], k, t)
    BY <1>2, RestartHolds
  <1> QED BY <1>1, <1>3 DEF ReadOf

(* Neither a sweep nor a restart is seen: no read at the sweep's time or   *)
(* later, and no read at all after a restart, is answered differently.     *)
THEOREM UpkeepInvisibleHolds == StoreSpec => UpkeepInvisible
  <1> DEFINE Same == /\ \A now \in Moments : <<Sweep(now)>>_storeVars =>
                          \A t \in Moments : t >= now => SameAt(t)
                     /\ <<Restart>>_storeVars => \A t \in Moments : SameAt(t)
  <1>1. IInv => Same
    <2> SUFFICES ASSUME IInv PROVE Same
      OBVIOUS
    <2>1. ASSUME NEW now \in Moments, <<Sweep(now)>>_storeVars, NEW t \in Moments, t >= now
          PROVE  SameAt(t)
      BY <2>1, SweepSame
    <2>2. ASSUME <<Restart>>_storeVars, NEW t \in Moments PROVE SameAt(t)
      BY <2>2, RestartSame
    <2> QED BY <2>1, <2>2
  <1>2. IInv /\ [StoreNext]_storeVars => [Same]_storeVars
    BY <1>1
  <1>3. StoreSpec => [][Same]_storeVars
    <2> HIDE DEF Same
    <2> QED BY <1>2, Inductive, PTL DEF StoreSpec
  <1> QED BY <1>3 DEF UpkeepInvisible
=============================================================================
