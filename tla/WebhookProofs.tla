--------------------------- MODULE WebhookProofs ----------------------------
(***************************************************************************)
(* An acknowledged webhook's label survives, and an event is never         *)
(* remembered as processed without its label, for any events, deliveries,  *)
(* times to live, snapshots, crashes and failed syncs.                     *)
(*                                                                         *)
(* The argument.  A label once reflected stays so, whatever is applied     *)
(* later (ApplyKeeps), and an applied event is reflected even when it was  *)
(* stale (ApplyReflects).  So what the deduper calls processed is          *)
(* labelled, in memory, in a snapshot in progress and in the saved one     *)
(* (Labelling, Saved).  An event acknowledged or about to be is in the     *)
(* snapshot's labels or in a synced line that comes after the snapshot     *)
(* (Durable); the numbers in the log grow and the next one is above them   *)
(* all (Sound, Numbering), so a replay skips no line the snapshot does not *)
(* have (Replaying), and brings every durable label back.                  *)
(***************************************************************************)
EXTENDS Webhook, FiniteSetTheorems, SequenceTheorems, WellFoundedInduction, TLAPS

-----------------------------------------------------------------------------
(* The deduper's operations keep the type of the entries.                  *)

LEMMA LeastNat ==
    ASSUME NEW T, T \subseteq Nat, T # {}
    PROVE  \E x \in T : \A y \in T : x <= y
  <1> DEFINE R == OpToRel(<, Nat)
  <1>1. IsWellFoundedOn(R, Nat)
    BY NatLessThanWellFounded
  <1> HIDE DEF R
  <1>2. PICK x \in T : \A y \in T : <<y, x>> \notin R
    BY <1>1, WFMin
  <1>3. \A y \in T : ~(y < x)
    BY <1>2 DEF OpToRel, R
  <1> QED
    BY <1>3

(* The k-th of a set of indices.                                           *)
LEMMA KthExists ==
    ASSUME NEW n \in Nat, NEW D, D \subseteq 1..n, NEW k \in 1..Cardinality(D)
    PROVE  \E i \in D : Cardinality({j \in D : j <= i}) = k
  <1> DEFINE Upto(i) == {j \in D : j <= i}
             Many == {i \in Nat : Cardinality(Upto(i)) >= k}
  <1>0. \A j \in D : j \in Nat /\ 1 <= j /\ j <= n
    OBVIOUS
  <1>1. IsFiniteSet(D) /\ Cardinality(D) \in Nat
    <2>1. IsFiniteSet(1..n)
      BY FS_Interval
    <2>2. IsFiniteSet(D)
      BY <2>1, FS_Subset
    <2> QED
      BY <2>2, FS_CardinalityType
  <1>2. \A i \in Nat : IsFiniteSet(Upto(i)) /\ Cardinality(Upto(i)) \in Nat
    <2> TAKE i \in Nat
    <2>1. Upto(i) \in SUBSET D
      OBVIOUS
    <2> HIDE DEF Upto
    <2> QED
      BY <1>1, <2>1, FS_Subset, FS_CardinalityType
  <1>3. Upto(n) = D
    BY <1>0
  <1>4. n \in Many
    <2>1. Cardinality(D) >= k
      BY <1>1
    <2> QED
      BY <2>1, <1>3
  <1> HIDE DEF Many
  <1>5. PICK i \in Many : \A j \in Many : i <= j
    BY <1>4, LeastNat DEF Many
  <1>6. i \in Nat /\ Cardinality(Upto(i)) >= k
    BY DEF Many
  <1>7. Upto(0) = {}
    <2>1. \A j \in D : ~(j <= 0)
      BY <1>0
    <2> QED
      BY <2>1
  <1>8. i # 0
    <2>1. Cardinality(Upto(0)) = 0
      BY <1>7, FS_EmptySet
    <2>2. k >= 1
      BY <1>1
    <2> HIDE DEF Upto
    <2> QED
      BY <1>6, <2>1, <2>2
  <1>9. i - 1 \in Nat /\ Cardinality(Upto(i - 1)) < k
    <2>1. i - 1 \in Nat /\ i - 1 \notin Many
      BY <1>5, <1>6, <1>8
    <2>2. ~(Cardinality(Upto(i - 1)) >= k)
      BY <2>1 DEF Many
    <2>3. Cardinality(Upto(i - 1)) \in Nat
      BY <2>1, <1>2
    <2> HIDE DEF Upto
    <2> QED
      BY <2>1, <2>2, <2>3
  <1>10. CASE i \in D
    <2>1. Upto(i) = Upto(i - 1) \cup {i} /\ i \notin Upto(i - 1)
      <3>1. \A j \in D : j <= i <=> j <= i - 1 \/ j = i
        BY <1>6, <1>0
      <3>2. ~(i <= i - 1)
        BY <1>6
      <3> QED
        BY <3>1, <3>2, <1>10
    <2>2. Cardinality(Upto(i)) = Cardinality(Upto(i - 1)) + 1
      BY <2>1, <1>9, <1>2, FS_AddElement
    <2>3. Cardinality(Upto(i)) = k
      <3> DEFINE a == Cardinality(Upto(i))
                 b == Cardinality(Upto(i - 1))
      <3>1. a \in Nat /\ b \in Nat /\ a >= k /\ b < k /\ a = b + 1
        BY <2>2, <1>2, <1>6, <1>9
      <3> HIDE DEF a, b
      <3>2. a = k
        BY <3>1
      <3> QED
        BY <3>2 DEF a
    <2> QED
      BY <2>3, <1>10
  <1>11. CASE i \notin D
    <2>1. Upto(i) = Upto(i - 1)
      <3>1. \A j \in D : j # i
        BY <1>11
      <3>2. \A j \in D : j <= i <=> j <= i - 1
        BY <1>6, <1>0, <3>1
      <3> QED
        BY <3>2
    <2> HIDE DEF Upto
    <2> QED
      BY <2>1, <1>6, <1>9, <1>2
  <1> QED
    BY <1>10, <1>11

LEMMA KeptEntries ==
    ASSUME NEW T, NEW s \in Seq(T), NEW D, D \subseteq DOMAIN s
    PROVE  Kept(s, D) \in Seq(T)
  <1>1. DOMAIN s = 1..Len(s) /\ Len(s) \in Nat /\ \A i \in 1..Len(s) : s[i] \in T
    OBVIOUS
  <1>2. Cardinality(D) \in Nat
    <2>1. IsFiniteSet(1..Len(s)) /\ D \in SUBSET (1..Len(s))
      BY <1>1, FS_Interval
    <2> QED
      BY <2>1, FS_Subset, FS_CardinalityType
  <1>3. \A k \in 1..Cardinality(D) :
          s[CHOOSE i \in D : Cardinality({j \in D : j <= i}) = k] \in T
    <2> TAKE k \in 1..Cardinality(D)
    <2>1. \E i \in D : Cardinality({j \in D : j <= i}) = k
      <3>1. D \subseteq 1..Len(s)
        BY <1>1
      <3> QED
        BY <3>1, <1>1, KthExists
    <2>2. (CHOOSE i \in D : Cardinality({j \in D : j <= i}) = k) \in D
      BY <2>1
    <2> QED
      BY <2>2, <1>1
  <1>4. Kept(s, D) \in [1..Cardinality(D) -> T]
    BY <1>3 DEF Kept
  <1> QED
    BY <1>4, <1>2

LEMMA SubSeqEntries ==
    ASSUME NEW T, NEW s \in Seq(T), NEW m \in Nat \ {0}, NEW n \in Int, n <= Len(s)
    PROVE  SubSeq(s, m, n) \in Seq(T)
  <1>1. \A i \in m..n : s[i] \in T
    OBVIOUS
  <1> QED
    BY <1>1, SubSeqProperties

LEMMA ExpireEntries ==
    ASSUME NEW T, NEW s \in Seq(T)
    PROVE  Expire(s) \in Seq(T)
  <1>1. CASE Live(s) = {}
    BY <1>1 DEF Expire
  <1>2. CASE Live(s) # {}
    <2>1. Live(s) \subseteq DOMAIN s /\ DOMAIN s = 1..Len(s) /\ Len(s) \in Nat
      BY DEF Live
    <2>2. \E i \in Live(s) : \A j \in Live(s) : i <= j
      BY <1>2, <2>1, LeastNat
    <2> DEFINE i == CHOOSE i \in Live(s) : \A j \in Live(s) : i <= j
    <2>3. i \in Live(s)
      BY <2>2
    <2>4. Expire(s) = SubSeq(s, i, Len(s))
      BY <1>2 DEF Expire
    <2> HIDE DEF i
    <2>5. i \in Nat \ {0}
      BY <2>1, <2>3
    <2> QED
      BY <2>4, <2>5, <2>1, SubSeqEntries
  <1> QED
    BY <1>1, <1>2

LEMMA NewestEntries ==
    ASSUME NEW T, NEW s \in Seq(T)
    PROVE  Newest(s) \in Seq(T)
  <1> DEFINE m == 1 + (IF Len(s) > MaxEntries THEN Len(s) - MaxEntries ELSE 0)
  <1>1. m \in Nat \ {0} /\ Len(s) \in Int
    BY HookAssumption
  <1>2. Newest(s) = SubSeq(s, m, Len(s))
    BY DEF Newest
  <1> HIDE DEF m
  <1> QED
    BY <1>1, <1>2, SubSeqEntries

LEMMA InsertEntries ==
    ASSUME NEW T, NEW s \in Seq(T), NEW x \in T
    PROVE  InsertEntry(s, x) \in Seq(T)
  <1>1. Append(s, x) \in Seq(T)
    OBVIOUS
  <1> QED
    BY <1>1, NewestEntries DEF InsertEntry

LEMMA AtIs ==
    ASSUME NEW s, NEW id, Remembered(s, id)
    PROVE  At(s, id) \in DOMAIN s /\ s[At(s, id)].id = id
  BY DEF Remembered, At

LEMMA WithoutEntries ==
    ASSUME NEW T, NEW s \in Seq(T), NEW id, Remembered(s, id)
    PROVE  Without(s, id) \in Seq(T)
  <1> DEFINE i == At(s, id)
  <1>1. i \in 1..Len(s) /\ Len(s) \in Nat
    BY AtIs
  <1>2. Without(s, id) = SubSeq(s, 1, i - 1) \o SubSeq(s, i + 1, Len(s))
    BY DEF Without, RemoveAt
  <1> HIDE DEF i
  <1>3. SubSeq(s, 1, i - 1) \in Seq(T) /\ SubSeq(s, i + 1, Len(s)) \in Seq(T)
    BY <1>1, SubSeqEntries
  <1> QED
    BY <1>2, <1>3

LEMMA CommitEntries ==
    ASSUME NEW T, NEW s \in Seq(T), NEW id, [id |-> id, seen |-> now, done |-> TRUE] \in T
    PROVE  CommitEntry(s, id) \in Seq(T)
  <1> DEFINE x == [id |-> id, seen |-> now, done |-> TRUE]
  <1>1. x \in T
    OBVIOUS
  <1>2. CommitEntry(s, id) = IF Remembered(s, id) THEN Append(Without(s, id), x) ELSE InsertEntry(s, x)
    BY DEF CommitEntry
  <1> HIDE DEF x
  <1>3. CASE Remembered(s, id)
    <2>1. Without(s, id) \in Seq(T)
      BY <1>3, WithoutEntries
    <2> QED
      BY <2>1, <1>1, <1>2, <1>3
  <1>4. CASE ~Remembered(s, id)
    BY <1>4, <1>1, <1>2, InsertEntries
  <1> QED
    BY <1>3, <1>4

LEMMA ReleaseEntries ==
    ASSUME NEW T, NEW s \in Seq(T), NEW id
    PROVE  ReleaseEntry(s, id) \in Seq(T)
  BY WithoutEntries DEF ReleaseEntry

LEMMA RestoredEntries ==
    ASSUME NEW T, NEW s \in Seq(T)
    PROVE  RestoreEntries(s) \in Seq(T)
  <1>1. Kept(s, Live(s)) \in Seq(T)
    BY KeptEntries DEF Live
  <1> QED
    BY <1>1, NewestEntries DEF RestoreEntries

LEMMA ProcessedEntries ==
    ASSUME NEW T, NEW s \in Seq(T)
    PROVE  Processed(s) \in Seq(T)
  BY KeptEntries DEF Processed

-----------------------------------------------------------------------------
(* The labels.  What is stored of a dispute is of the time of one of its   *)
(* events, and closed if that event closed it.                             *)

Latest(d, k, e) ==
  LET i == EventInfo[e]
  IN  /\ i.type \in {"created", "closed"} /\ Key(i) = k
      /\ d.updated = i.created
      /\ i.type = "closed" => d.closed

WellFormed(ls) == \A k \in DOMAIN ls.disputes : \E e \in Events : Latest(ls.disputes[k], k, e)

Upserted(u, ds, i, K) ==
  /\ DOMAIN u = DOMAIN ds \cup {K}
  /\ \A k \in DOMAIN ds : k # K => u[k] = ds[k]
  /\ u[K].status = i.status /\ u[K].updated = i.created
  /\ u[K].closed <=> i.type = "closed" \/ (K \in DOMAIN ds /\ ds[K].closed)

LEMMA UpsertIs ==
    ASSUME NEW ds, NEW i
    PROVE  Upserted(Upsert(ds, i), ds, i, Key(i))
  <1> DEFINE K == Key(i)
             u == Upsert(ds, i)
             x == [status |-> i.status, updated |-> i.created,
                   closed |-> i.type = "closed" \/ (K \in DOMAIN ds /\ ds[K].closed)]
  <1>1. DOMAIN u = DOMAIN ds \cup {K} /\ K \in DOMAIN u
    BY DEF Upsert
  <1>2. \A k \in DOMAIN ds : k # K => u[k] = ds[k]
    BY DEF Upsert
  <1>3. u[K] = x
    BY DEF Upsert
  <1>4. /\ x.status = i.status /\ x.updated = i.created
        /\ x.closed <=> i.type = "closed" \/ (K \in DOMAIN ds /\ ds[K].closed)
    OBVIOUS
  <1> HIDE DEF u, x, K
  <1>5. /\ u[K].status = i.status /\ u[K].updated = i.created
        /\ u[K].closed <=> i.type = "closed" \/ (K \in DOMAIN ds /\ ds[K].closed)
    BY <1>3, <1>4
  <1> QED
    BY <1>1, <1>2, <1>5 DEF u, K, Upserted

(* A label once reflected stays so.                                        *)
LEMMA ApplyKeeps ==
    ASSUME NEW ls, NEW e \in Events, NEW f \in Events, Labelled(f),
           WellFormed(ls), Reflects(ls, e)
    PROVE  Reflects(Apply(ls, EventInfo[f]), e)
  <1> DEFINE i == EventInfo[e]
             j == EventInfo[f]
             ds == ls.disputes
  <1>1. i.created \in Nat /\ j.created \in Nat
    BY HookAssumption
  <1>2. CASE j.type = "succeeded"
    <2>1. Apply(ls, j).disputes = ds /\ Apply(ls, j).succeeded = ls.succeeded \cup {j.payment}
      BY <1>2 DEF Apply
    <2> QED
      BY <2>1 DEF Reflects
  <1>3. CASE j.type # "succeeded" /\ Stale(ds, j)
    <2>1. Apply(ls, j) = ls
      BY <1>3 DEF Apply
    <2> QED
      BY <2>1
  <1>4. CASE j.type # "succeeded" /\ ~Stale(ds, j)
    <2> DEFINE new == Upsert(ds, j)
               d == ds[Key(i)]
    <2>1. Apply(ls, j).disputes = new /\ Apply(ls, j).succeeded = ls.succeeded
      BY <1>4 DEF Apply
    <2>2. /\ i.type = "succeeded" => i.payment \in ls.succeeded
          /\ i.type \in {"created", "closed"} => Key(i) \in DOMAIN ds /\ d.updated >= i.created
          /\ i.type = "closed" => d.closed /\ (d.updated = i.created => d.status = i.status)
      BY DEF Reflects
    <2>3. j.type \in {"created", "closed"}
      BY <1>4, HookAssumption DEF Labelled
    <2>4. SUFFICES ASSUME i.type \in {"created", "closed"}
                   PROVE  /\ Key(i) \in DOMAIN new /\ new[Key(i)].updated >= i.created
                          /\ i.type = "closed" =>
                               /\ new[Key(i)].closed
                               /\ new[Key(i)].updated = i.created => new[Key(i)].status = i.status
      <3> HIDE DEF new, d
      <3> QED
        BY <2>1, <2>2 DEF Reflects
    <2>0. Upserted(new, ds, j, Key(j))
      BY UpsertIs
    <2> HIDE DEF new
    <2>5. Key(i) \in DOMAIN new
      BY <2>2, <2>4, <2>0 DEF Upserted
    <2>6. CASE Key(i) # Key(j)
      <3>1. new[Key(i)] = d
        BY <2>6, <2>2, <2>4, <2>0 DEF Upserted
      <3> HIDE DEF new, d
      <3> QED
        BY <3>1, <2>2, <2>4, <2>5
    <2>7. CASE Key(i) = Key(j)
      <3>1. /\ new[Key(i)].status = j.status /\ new[Key(i)].updated = j.created
            /\ new[Key(i)].closed <=> j.type = "closed" \/ (Key(i) \in DOMAIN ds /\ d.closed)
        BY <2>7, <2>0 DEF Upserted
      <3>2. ~(j.created < d.updated) /\ ~(d.closed /\ j.type # "closed" /\ j.created = d.updated)
        BY <1>4, <2>7, <2>2, <2>4 DEF Stale
      <3>3. i.payment = j.payment /\ i.dispute = j.dispute
        BY <2>7 DEF Key
      <3>4. i.type = "closed" =>
              /\ j.type = "created" => j.created <= i.created
              /\ j.type = "closed" /\ j.created = i.created => j.status = i.status
        BY <3>3, <2>3, HookAssumption
      <3>5. d.updated \in Nat
        BY <2>2, <2>4, HookAssumption DEF WellFormed, Latest
      <3> HIDE DEF new, d
      <3> DEFINE up == d.updated
                 ci == i.created
                 cj == j.created
      <3>6. up \in Nat /\ ci \in Nat /\ cj \in Nat /\ ci <= up /\ ~(cj < up)
        BY <3>5, <3>2, <2>2, <2>4, <1>1
      <3>7. /\ new[Key(i)].updated = cj /\ new[Key(i)].status = j.status
            /\ i.type = "closed" => new[Key(i)].closed
        BY <3>1, <2>2, <2>4
      <3>8. i.type = "closed" /\ cj = ci => j.type = "closed" /\ cj = up
        <4>1. cj = ci => cj = up
          BY <3>6
        <4> QED
          BY <4>1, <3>2, <2>2, <2>4
      <3>9. i.type = "closed" /\ cj = ci => j.status = i.status
        BY <3>4, <3>8
      <3>10. cj >= ci
        BY <3>6
      <3> QED
        BY <3>7, <3>9, <3>10, <2>5
    <2> QED
      BY <2>6, <2>7
  <1> QED
    BY <1>2, <1>3, <1>4

(* An applied event is reflected, also when it was stale.                  *)
LEMMA ApplyReflects ==
    ASSUME NEW ls, NEW e \in Events, Labelled(e), WellFormed(ls)
    PROVE  Reflects(Apply(ls, EventInfo[e]), e)
  <1> DEFINE i == EventInfo[e]
             ds == ls.disputes
  <1>1. i.created \in Nat /\ i.type \in {"succeeded", "created", "closed"}
    BY HookAssumption DEF Labelled
  <1>2. CASE i.type = "succeeded"
    <2>1. Apply(ls, i).succeeded = ls.succeeded \cup {i.payment}
      BY <1>2 DEF Apply
    <2> QED
      BY <2>1, <1>2 DEF Reflects
  <1>3. CASE i.type # "succeeded" /\ Stale(ds, i)
    <2> DEFINE d == ds[Key(i)]
    <2>1. Apply(ls, i) = ls
      BY <1>3 DEF Apply
    <2>2. Key(i) \in DOMAIN ds
      BY <1>3 DEF Stale
    <2>3. PICK f \in Events : Latest(d, Key(i), f)
      BY <2>2 DEF WellFormed
    <2> DEFINE j == EventInfo[f]
    <2>4. /\ j.type \in {"created", "closed"} /\ Key(j) = Key(i)
          /\ d.updated = j.created /\ (j.type = "closed" => d.closed) /\ j.created \in Nat
      BY <2>3, HookAssumption DEF Latest
    <2>5. i.payment = j.payment /\ i.dispute = j.dispute
      BY <2>4 DEF Key
    <2>6. i.type = "closed" => (j.type = "created" => j.created <= i.created)
      BY <2>4, <2>5, HookAssumption
    <2>7. i.created < d.updated \/ (d.closed /\ i.type # "closed" /\ i.created = d.updated)
      BY <1>3 DEF Stale
    <2> HIDE DEF d
    <2>8. d.updated >= i.created
      BY <2>7, <2>4, <1>1
    <2>9. i.type = "closed" => j.type = "closed" /\ d.closed /\ d.updated # i.created
      BY <2>4, <2>6, <2>7, <1>1
    <2> QED
      BY <2>1, <2>2, <2>8, <2>9, <1>3 DEF Reflects, d
  <1>4. CASE i.type # "succeeded" /\ ~Stale(ds, i)
    <2> DEFINE new == Upsert(ds, i)
    <2>1. Apply(ls, i).disputes = new
      BY <1>4 DEF Apply
    <2>2. /\ Key(i) \in DOMAIN new
          /\ new[Key(i)].status = i.status /\ new[Key(i)].updated = i.created
          /\ i.type = "closed" => new[Key(i)].closed
      <3>1. Upserted(new, ds, i, Key(i))
        BY UpsertIs
      <3> HIDE DEF new
      <3> QED
        BY <3>1 DEF Upserted
    <2> HIDE DEF new
    <2>3. i.created >= i.created
      BY <1>1
    <2> QED
      BY <2>1, <2>2, <2>3, <1>4 DEF Reflects
  <1> QED
    BY <1>2, <1>3, <1>4

LEMMA ApplyWellFormed ==
    ASSUME NEW ls, NEW e \in Events, Labelled(e), WellFormed(ls)
    PROVE  WellFormed(Apply(ls, EventInfo[e]))
  <1> DEFINE i == EventInfo[e]
             ds == ls.disputes
             new == Upsert(ds, i)
  <1>1. CASE i.type = "succeeded" \/ Stale(ds, i)
    <2>1. Apply(ls, i).disputes = ds
      BY <1>1 DEF Apply
    <2> QED
      BY <2>1 DEF WellFormed
  <1>2. CASE i.type # "succeeded" /\ ~Stale(ds, i)
    <2>1. Apply(ls, i).disputes = new
      BY <1>2 DEF Apply
    <2>2. /\ DOMAIN new = DOMAIN ds \cup {Key(i)}
          /\ \A k \in DOMAIN ds : k # Key(i) => new[k] = ds[k]
          /\ new[Key(i)].updated = i.created
          /\ i.type = "closed" => new[Key(i)].closed
      <3>1. Upserted(new, ds, i, Key(i))
        BY UpsertIs
      <3> HIDE DEF new
      <3> QED
        BY <3>1 DEF Upserted
    <2>3. i.type \in {"created", "closed"}
      BY <1>2, HookAssumption DEF Labelled
    <2> HIDE DEF new
    <2>4. Latest(new[Key(i)], Key(i), e)
      BY <2>2, <2>3 DEF Latest
    <2>5. \A k \in DOMAIN new : \E f \in Events : Latest(new[k], k, f)
      BY <2>2, <2>4 DEF WellFormed
    <2> QED
      BY <2>1, <2>5 DEF WellFormed
  <1> QED
    BY <1>1, <1>2

LEMMA NoLabelsWellFormed == WellFormed(NoLabels)
  BY DEF WellFormed, NoLabels

(* An event of no interest needs no label.                                 *)
LEMMA NoLabelNeeded ==
    ASSUME NEW ls, NEW e \in Events, ~Labelled(e)
    PROVE  Reflects(ls, e)
  BY DEF Reflects, Labelled

-----------------------------------------------------------------------------
(* The inductive invariant.                                                *)

Line == [seq : Nat, event : Events \cup {Nil}]
DeliveryState == [at : {"idle", "begun", "sync", "commit"}, event : Events \cup {Nil}]
Entries(ls, A) ==
  {x \in [id : Events, seen : Int, done : BOOLEAN] : x.done => x.id \in A /\ Reflects(ls, x.id)}

Scalars(t, p, k, n, s) ==
  /\ t \in Int /\ k \in Nat /\ n \in Nat /\ s \in Nat
  /\ p \in {"down", "replay", "up", "closing"}

(* Who records holds the lock.                                             *)
Handling(f, lock, A) ==
  /\ f \in [Deliveries -> DeliveryState] /\ lock \in Deliveries \cup {Nil} /\ A \subseteq Events
  /\ \A d \in Deliveries : /\ f[d].at # "idle" => f[d].event \in Events
                           /\ f[d].at = "sync" <=> lock = d
                           /\ f[d].at = "sync" => Labelled(f[d].event)

Genuine(r) == r.event \in Events /\ Labelled(r.event) /\ r.seq # 0
Lines(fl) == fl \in Seq(Line) /\ \A i \in DOMAIN fl : fl[i] = Corrupt \/ Genuine(fl[i])

(* Outside service nothing is handled and no snapshot is taken.            *)
Resting(p, f, lock, c) ==
  p \in {"down", "replay"} => f = [d \in Deliveries |-> NotHandling] /\ lock = Nil /\ c = Nil

(* What was processed is labelled, in memory and in the snapshot.          *)
Labelling(ls, s, c, f, A) ==
  /\ WellFormed(ls)
  /\ s \in Seq(Entries(ls, A))
  /\ c = Nil \/ c \in Seq(Entries(ls, A))
  /\ \A d \in Deliveries : f[d].at = "commit" => Reflects(ls, f[d].event)

Saved(sn, A) ==
  /\ sn.seq \in Nat /\ WellFormed(sn.labels) /\ sn.seen \in Seq(Entries(sn.labels, A))

(* The log, as long as no write stopped half way: every line is a record,  *)
(* with ever larger numbers.                                               *)
Sound(fl) ==
  /\ \A i \in DOMAIN fl : Genuine(fl[i])
  /\ \A i, j \in DOMAIN fl : i < j => fl[i].seq < fl[j].seq

(* The next number is above those of the log and of the snapshot.          *)
Numbering(p, fr, k, fl, sn) ==
  p \in {"up", "closing"} =>
    /\ ~fr /\ sn.seq <= k /\ \A i \in DOMAIN fl : fl[i].seq <= k

(* The last line is that of the delivery that holds the lock.              *)
Holder(f, lock, fl, sn) ==
  lock # Nil => /\ fl # <<>> /\ fl[Len(fl)].event = f[lock].event
                /\ fl[Len(fl)].seq > sn.seq

(* A restart has what the snapshot has and what it has replayed.           *)
Replaying(p, n, k, ls, fl, sn) ==
  p = "replay" =>
    /\ n <= Len(fl) /\ k \in Nat /\ sn.seq <= k
    /\ \A i \in 1..n : fl[i].seq <= k /\ (fl[i].seq > sn.seq => Reflects(ls, fl[i].event))
    /\ k = sn.seq \/ \E i \in 1..n : fl[i].seq = k
    /\ \A e \in Events : Reflects(sn.labels, e) => Reflects(ls, e)

(* What a crash cannot take: labels in the snapshot, and synced lines that *)
(* come after it.                                                          *)
InLog(e, fl, lock, sn) ==
  \E i \in DOMAIN fl : fl[i].event = e /\ fl[i].seq > sn.seq /\ (lock = Nil \/ i < Len(fl))
Durable(e, fl, lock, sn) == Reflects(sn.labels, e) \/ InLog(e, fl, lock, sn)

AckedDurable(A, fl, lock, sn) == \A e \in A : Durable(e, fl, lock, sn)
CommitDurable(f, fl, lock, sn) ==
  \A d \in Deliveries : f[d].at = "commit" => Durable(f[d].event, fl, lock, sn)
AckedHeld(p, ls, A) == p \in {"up", "closing"} => \A e \in A : Reflects(ls, e)

MemoryInv ==
  /\ Scalars(now, hookProc, seq, pos, shorts)
  /\ Handling(dl, labelLock, acked)
  /\ Lines(file)
  /\ Resting(hookProc, dl, labelLock, copied)
  /\ Labelling(labels, seen, copied, dl, acked)
  /\ Saved(labelSnap, acked)

LogInv ==
  /\ Sound(file)
  /\ Numbering(hookProc, frag, seq, file, labelSnap)
  /\ Holder(dl, labelLock, file, labelSnap)
  /\ Replaying(hookProc, pos, seq, labels, file, labelSnap)

DurableInv ==
  /\ AckedDurable(acked, file, labelLock, labelSnap)
  /\ CommitDurable(dl, file, labelLock, labelSnap)
  /\ AckedHeld(hookProc, labels, acked)

HookInv == MemoryInv /\ (shorts = 0 => LogInv /\ (hasLog => DurableInv))

-----------------------------------------------------------------------------
(* How the parts of the invariant change.                                  *)

To(f, d, at, e) == [f EXCEPT ![d] = [at |-> at, event |-> e]]

LEMMA ToIs ==
    ASSUME NEW f \in [Deliveries -> DeliveryState], NEW d \in Deliveries, NEW at, NEW e
    PROVE  /\ To(f, d, at, e)[d].at = at /\ To(f, d, at, e)[d].event = e
           /\ \A x \in Deliveries : x # d => To(f, d, at, e)[x] = f[x]
  BY DEF To

LEMMA HandlingGoes ==
    ASSUME NEW f, NEW lock, NEW A, Handling(f, lock, A), NEW d \in Deliveries,
           NEW at \in {"idle", "begun", "sync", "commit"}, NEW e \in Events \cup {Nil},
           at # "idle" => e \in Events, at = "sync" => Labelled(e),
           NEW lock2 \in Deliveries \cup {Nil}, at = "sync" <=> lock2 = d,
           \A x \in Deliveries : x # d => (lock = x <=> lock2 = x),
           NEW B, B \subseteq Events
    PROVE  Handling(To(f, d, at, e), lock2, B)
  <1> DEFINE g == To(f, d, at, e)
  <1>1. f \in [Deliveries -> DeliveryState]
    BY DEF Handling
  <1>2. [at |-> at, event |-> e] \in DeliveryState
    BY DEF DeliveryState
  <1>3. g \in [Deliveries -> DeliveryState]
    BY <1>1, <1>2 DEF To
  <1>4. g[d].at = at /\ g[d].event = e /\ \A x \in Deliveries : x # d => g[x] = f[x]
    BY <1>1, ToIs
  <1> HIDE DEF g
  <1>5. \A x \in Deliveries : /\ g[x].at # "idle" => g[x].event \in Events
                              /\ g[x].at = "sync" <=> lock2 = x
                              /\ g[x].at = "sync" => Labelled(g[x].event)
    <2> TAKE x \in Deliveries
    <2>1. CASE x = d
      BY <2>1, <1>4
    <2>2. CASE x # d
      BY <2>2, <1>4 DEF Handling
    <2> QED
      BY <2>1, <2>2
  <1>6. Handling(g, lock2, B)
    BY <1>3, <1>5 DEF Handling
  <1> QED
    BY <1>6 DEF g

LEMMA SeqGrows ==
    ASSUME NEW S, NEW T, S \subseteq T, NEW s \in Seq(S)
    PROVE  s \in Seq(T)
  OBVIOUS

LEMMA EntriesGrow ==
    ASSUME NEW ls, NEW A, NEW B, A \subseteq B, NEW s \in Seq(Entries(ls, A))
    PROVE  s \in Seq(Entries(ls, B))
  <1>1. Entries(ls, A) \subseteq Entries(ls, B)
    BY DEF Entries
  <1> QED
    BY <1>1, SeqGrows

LEMMA EntriesApply ==
    ASSUME NEW ls, NEW A, NEW s \in Seq(Entries(ls, A)), WellFormed(ls),
           NEW e \in Events, Labelled(e)
    PROVE  s \in Seq(Entries(Apply(ls, EventInfo[e]), A))
  <1>1. Entries(ls, A) \subseteq Entries(Apply(ls, EventInfo[e]), A)
    BY ApplyKeeps DEF Entries
  <1> QED
    BY <1>1, SeqGrows

(* A delivery moves on, and the deduper with it.                           *)
LEMMA LabellingGoes ==
    ASSUME NEW ls, NEW s, NEW c, NEW f, NEW A, Labelling(ls, s, c, f, A),
           f \in [Deliveries -> DeliveryState], NEW d \in Deliveries, NEW at, NEW e,
           at = "commit" => Reflects(ls, e), NEW B, A \subseteq B,
           NEW t \in Seq(Entries(ls, B))
    PROVE  Labelling(ls, t, c, To(f, d, at, e), B)
  <1> DEFINE g == To(f, d, at, e)
  <1>1. g[d].at = at /\ g[d].event = e /\ \A x \in Deliveries : x # d => g[x] = f[x]
    BY ToIs
  <1> HIDE DEF g
  <1>2. c = Nil \/ c \in Seq(Entries(ls, B))
    BY EntriesGrow DEF Labelling
  <1>3. \A x \in Deliveries : g[x].at = "commit" => Reflects(ls, g[x].event)
    BY <1>1 DEF Labelling
  <1>4. Labelling(ls, t, c, g, B)
    BY <1>2, <1>3 DEF Labelling
  <1> QED
    BY <1>4 DEF g

(* An event is applied and its delivery goes on to commit.                 *)
LEMMA LabellingApply ==
    ASSUME NEW ls, NEW s, NEW c, NEW f, NEW A, Labelling(ls, s, c, f, A),
           f \in [Deliveries -> DeliveryState], NEW d \in Deliveries,
           NEW e \in Events, Labelled(e), \A x \in Deliveries : f[x].at # "idle" => f[x].event \in Events
    PROVE  Labelling(Apply(ls, EventInfo[e]), s, c, To(f, d, "commit", e), A)
  <1> DEFINE g == To(f, d, "commit", e)
             new == Apply(ls, EventInfo[e])
  <1>1. g[d].at = "commit" /\ g[d].event = e /\ \A x \in Deliveries : x # d => g[x] = f[x]
    BY ToIs
  <1> HIDE DEF g
  <1>2. WellFormed(ls) /\ s \in Seq(Entries(ls, A))
    BY DEF Labelling
  <1>3. WellFormed(new) /\ s \in Seq(Entries(new, A)) /\ Reflects(new, e)
    BY <1>2, ApplyWellFormed, EntriesApply, ApplyReflects
  <1>4. c = Nil \/ c \in Seq(Entries(new, A))
    BY <1>2, EntriesApply DEF Labelling
  <1>5. \A x \in Deliveries : g[x].at = "commit" => Reflects(new, g[x].event)
    <2> TAKE x \in Deliveries
    <2>1. CASE x = d
      BY <2>1, <1>1, <1>3
    <2>2. CASE x # d /\ g[x].at = "commit"
      <3>1. f[x].at = "commit" /\ f[x].event \in Events /\ g[x] = f[x]
        BY <2>2, <1>1
      <3>2. Reflects(ls, f[x].event)
        BY <3>1 DEF Labelling
      <3> QED
        BY <3>1, <3>2, <1>2, ApplyKeeps
    <2> QED
      BY <2>1, <2>2
  <1> HIDE DEF new
  <1>6. Labelling(new, s, c, g, A)
    BY <1>3, <1>4, <1>5 DEF Labelling
  <1> QED
    BY <1>6 DEF g, new

LEMMA SavedGrows ==
    ASSUME NEW sn, NEW A, NEW B, A \subseteq B, Saved(sn, A)
    PROVE  Saved(sn, B)
  BY EntriesGrow DEF Saved

LEMMA DurableAppend ==
    ASSUME NEW e, NEW fl \in Seq(Line), NEW sn, NEW r \in Line, NEW lock, Durable(e, fl, Nil, sn)
    PROVE  Durable(e, Append(fl, r), lock, sn)
  <1>1. /\ \A i \in DOMAIN fl : i \in DOMAIN Append(fl, r) /\ Append(fl, r)[i] = fl[i]
        /\ Len(Append(fl, r)) = Len(fl) + 1
        /\ \A i \in DOMAIN fl : i < Len(fl) + 1
    OBVIOUS
  <1> DEFINE g == Append(fl, r)
  <1> HIDE DEF g
  <1>2. /\ \A i \in DOMAIN fl : i \in DOMAIN g /\ g[i] = fl[i] /\ i < Len(g)
    BY <1>1 DEF g
  <1>3. InLog(e, fl, Nil, sn) => InLog(e, g, lock, sn)
    BY <1>2 DEF InLog
  <1> QED
    BY <1>3 DEF Durable, g

LEMMA DurableUnlock ==
    ASSUME NEW e, NEW fl, NEW sn, NEW lock, Durable(e, fl, lock, sn)
    PROVE  Durable(e, fl, Nil, sn)
  BY DEF Durable, InLog

LEMMA FrontIs ==
    ASSUME NEW fl \in Seq(Line), fl # <<>>
    PROVE  /\ Front(fl) \in Seq(Line) /\ Len(Front(fl)) = Len(fl) - 1
           /\ \A i \in DOMAIN Front(fl) : i \in DOMAIN fl /\ Front(fl)[i] = fl[i]
           /\ \A i \in DOMAIN fl : i < Len(fl) => i \in DOMAIN Front(fl) /\ Front(fl)[i] = fl[i]
  <1> DEFINE n == Len(fl)
             g == SubSeq(fl, 1, n - 1)
  <1>1. n \in Nat \ {0} /\ DOMAIN fl = 1..n /\ \A i \in 1..(n - 1) : fl[i] \in Line
    OBVIOUS
  <1>2. Front(fl) = g
    BY DEF Front
  <1>3. /\ g \in Seq(Line) /\ Len(g) = IF 1 <= n - 1 THEN (n - 1) - 1 + 1 ELSE 0
        /\ \A i \in 1..((n - 1) - 1 + 1) : g[i] = fl[1 + i - 1]
    <2> HIDE DEF n
    <2>1. 1 \in Int /\ n - 1 \in Int
      BY <1>1
    <2> QED
      BY <2>1, <1>1, SubSeqProperties
  <1> HIDE DEF g, n
  <1>4. Len(g) = n - 1 /\ DOMAIN g = 1..(n - 1)
    BY <1>1, <1>3
  <1>5. \A i \in 1..(n - 1) : g[i] = fl[i]
    BY <1>1, <1>3
  <1>6. \A i \in DOMAIN fl : i < n => i \in DOMAIN g
    BY <1>1, <1>4
  <1>7. \A i \in DOMAIN g : i \in DOMAIN fl
    BY <1>1, <1>4
  <1> QED
    BY <1>2, <1>3, <1>4, <1>5, <1>6, <1>7 DEF n

LEMMA DurableFront ==
    ASSUME NEW e, NEW fl \in Seq(Line), NEW sn, NEW lock, lock # Nil, fl # <<>>, Durable(e, fl, lock, sn)
    PROVE  Durable(e, Front(fl), Nil, sn)
  <1>1. \A i \in DOMAIN fl : i < Len(fl) => i \in DOMAIN Front(fl) /\ Front(fl)[i] = fl[i]
    BY FrontIs
  <1> DEFINE g == Front(fl)
  <1> HIDE DEF g
  <1>2. InLog(e, fl, lock, sn) => InLog(e, g, Nil, sn)
    BY <1>1 DEF InLog, g
  <1> QED
    BY <1>2 DEF Durable, g

LEMMA LinesFront ==
    ASSUME NEW fl, Lines(fl), fl # <<>>
    PROVE  Lines(Front(fl)) /\ (Sound(fl) => Sound(Front(fl)))
  <1>1. fl \in Seq(Line)
    BY DEF Lines
  <1> DEFINE g == Front(fl)
  <1>2. g \in Seq(Line) /\ \A i \in DOMAIN g : i \in DOMAIN fl /\ g[i] = fl[i]
    BY <1>1, FrontIs
  <1> HIDE DEF g
  <1>3. Lines(g)
    BY <1>2 DEF Lines
  <1>4. Sound(fl) => Sound(g)
    BY <1>2 DEF Sound
  <1> QED
    BY <1>3, <1>4 DEF g

LEMMA LinesAppend ==
    ASSUME NEW fl, Lines(fl), NEW r \in Line, r = Corrupt \/ Genuine(r)
    PROVE  /\ Lines(Append(fl, r))
           /\ Sound(fl) /\ Genuine(r) /\ (\A i \in DOMAIN fl : fl[i].seq < r.seq) =>
                Sound(Append(fl, r))
  <1> DEFINE g == Append(fl, r)
  <1>1. fl \in Seq(Line)
    BY DEF Lines
  <1>2. /\ g \in Seq(Line) /\ DOMAIN g = DOMAIN fl \cup {Len(fl) + 1} /\ g[Len(fl) + 1] = r
        /\ \A i \in DOMAIN fl : g[i] = fl[i] /\ i \in Int /\ i < Len(fl) + 1
        /\ Len(fl) + 1 \in Int
    BY <1>1
  <1> HIDE DEF g
  <1>3. Lines(g)
    BY <1>2 DEF Lines
  <1>4. ASSUME Sound(fl), Genuine(r), \A i \in DOMAIN fl : fl[i].seq < r.seq
        PROVE  Sound(g)
    <2>1. \A i \in DOMAIN g : Genuine(g[i])
      BY <1>2, <1>4 DEF Sound
    <2>2. ASSUME NEW i \in DOMAIN g, NEW j \in DOMAIN g, i < j
          PROVE  g[i].seq < g[j].seq
      <3>1. CASE j \in DOMAIN fl
        <4>1. i \in DOMAIN fl
          BY <3>1, <2>2, <1>2
        <4> QED
          BY <4>1, <3>1, <2>2, <1>2, <1>4 DEF Sound
      <3>2. CASE j = Len(fl) + 1
        <4>1. i \in DOMAIN fl
          BY <3>2, <2>2, <1>2
        <4> QED
          BY <4>1, <3>2, <1>2, <1>4
      <3> QED
        BY <3>1, <3>2, <1>2
    <2> QED
      BY <2>1, <2>2 DEF Sound
  <1> QED
    BY <1>3, <1>4 DEF g

LEMMA CommitGoes ==
    ASSUME NEW f \in [Deliveries -> DeliveryState], NEW fl, NEW lock, NEW sn,
           CommitDurable(f, fl, lock, sn), NEW d \in Deliveries, NEW at, NEW e,
           at = "commit" => Durable(e, fl, lock, sn)
    PROVE  CommitDurable(To(f, d, at, e), fl, lock, sn)
  <1> DEFINE g == To(f, d, at, e)
  <1>1. g[d].at = at /\ g[d].event = e /\ \A x \in Deliveries : x # d => g[x] = f[x]
    BY ToIs
  <1> HIDE DEF g
  <1>2. CommitDurable(g, fl, lock, sn)
    BY <1>1 DEF CommitDurable
  <1> QED
    BY <1>2 DEF g

-----------------------------------------------------------------------------
(* Each action keeps the invariant.                                        *)

LEMMA Known ==
    ASSUME HookInv
    PROVE  /\ now \in Int /\ seq \in Nat /\ pos \in Nat /\ shorts \in Nat
           /\ hookProc \in {"down", "replay", "up", "closing"}
           /\ dl \in [Deliveries -> DeliveryState] /\ labelLock \in Deliveries \cup {Nil}
           /\ acked \subseteq Events /\ file \in Seq(Line)
           /\ \A d \in Deliveries : /\ dl[d].at # "idle" => dl[d].event \in Events
                                    /\ dl[d].at = "sync" <=> labelLock = d
                                    /\ dl[d].at = "sync" => Labelled(dl[d].event)
           /\ WellFormed(labels) /\ seen \in Seq(Entries(labels, acked))
           /\ labelSnap.seq \in Nat
  BY DEF HookInv, MemoryInv, Scalars, Handling, Lines, Labelling, Saved

LEMMA HolderGoes ==
    ASSUME NEW f \in [Deliveries -> DeliveryState], NEW lock \in Deliveries \cup {Nil}, NEW fl, NEW sn,
           Holder(f, lock, fl, sn), NEW d \in Deliveries, lock # d, NEW at, NEW e
    PROVE  Holder(To(f, d, at, e), lock, fl, sn)
  <1> DEFINE g == To(f, d, at, e)
  <1>1. \A x \in Deliveries : x # d => g[x] = f[x]
    BY ToIs
  <1> HIDE DEF g
  <1>2. Holder(g, lock, fl, sn)
    BY <1>1 DEF Holder
  <1> QED
    BY <1>2 DEF g

(* A delivery goes to its next step without touching labels and log: it    *)
(* begins, is refused or fails before its line is written, needs no label, *)
(* or commits.                                                             *)
Touches(d, at, e) ==
  /\ dl' = To(dl, d, at, e)
  /\ acked \subseteq acked' /\ acked' \subseteq Events
  /\ seen' \in Seq(Entries(labels, acked'))
  /\ seq' \in {seq, seq + 1}
  /\ (shorts' = shorts /\ frag' = frag) \/ (shorts' = shorts + 1 /\ frag' = TRUE)
  /\ UNCHANGED <<hasLog, now, hookProc, pos, labelLock, labels, file, copied, labelSnap>>

Ready(e) ==
  /\ Reflects(labels, e)
  /\ shorts = 0 /\ hasLog => Durable(e, file, labelLock, labelSnap)

LEMMA TouchStep ==
    ASSUME HookInv, Serving, NEW d \in Deliveries, dl[d].at # "sync",
           NEW at \in {"idle", "begun", "commit"}, NEW e \in Events \cup {Nil},
           at # "idle" => e \in Events, at = "commit" => Ready(e),
           \A x \in acked' : x \in acked \/ Ready(x),
           Touches(d, at, e)
    PROVE  HookInv'
  <1>1. Scalars(now', hookProc', seq', pos', shorts')
    BY DEF HookInv, MemoryInv, Scalars, Touches
  <1>2. Handling(dl', labelLock', acked')
    <2>1. at \in {"idle", "begun", "sync", "commit"} /\ at # "sync" /\ labelLock # d
      BY Known
    <2>2. Handling(dl, labelLock, acked) /\ labelLock \in Deliveries \cup {Nil}
      BY Known DEF HookInv, MemoryInv
    <2>3. Handling(To(dl, d, at, e), labelLock, acked')
      BY <2>1, <2>2, HandlingGoes DEF Touches
    <2> QED
      BY <2>3 DEF Touches
  <1>3. Lines(file')
    BY DEF HookInv, MemoryInv, Touches
  <1>4. Resting(hookProc', dl', labelLock', copied')
    BY DEF Serving, Touches, Resting
  <1>5. Labelling(labels', seen', copied', dl', acked')
    <2>1. Labelling(labels, seen, copied, dl, acked) /\ dl \in [Deliveries -> DeliveryState]
      BY Known DEF HookInv, MemoryInv
    <2>2. at = "commit" => Reflects(labels, e)
      BY DEF Ready
    <2>3. Labelling(labels, seen', copied, To(dl, d, at, e), acked')
      BY <2>1, <2>2, LabellingGoes DEF Touches
    <2> QED
      BY <2>3 DEF Touches
  <1>6. Saved(labelSnap', acked')
    BY SavedGrows DEF HookInv, MemoryInv, Touches
  <1>7. ASSUME shorts' = 0
        PROVE  LogInv' /\ (hasLog' => DurableInv')
    <2>1. shorts = 0 /\ shorts' = shorts /\ frag' = frag
      BY <1>7, Known DEF Touches
    <2>2. LogInv /\ (hasLog => DurableInv)
      BY <2>1 DEF HookInv
    <2>3. Sound(file')
      BY <2>2 DEF LogInv, Touches
    <2>4. Numbering(hookProc', frag', seq', file', labelSnap')
      <3>1. Numbering(hookProc, frag, seq, file, labelSnap)
        BY <2>2 DEF LogInv
      <3>2. seq' >= seq /\ seq \in Nat /\ seq' \in Nat /\ labelSnap.seq \in Nat
            /\ \A i \in DOMAIN file : file[i].seq \in Nat
        <4>1. \A i \in DOMAIN file : file[i].seq \in Nat
          <5>1. \A i \in DOMAIN file : file[i] \in Line
            BY Known
          <5> QED
            BY <5>1 DEF Line
        <4>2. seq \in Nat /\ labelSnap.seq \in Nat /\ seq' \in {seq, seq + 1}
          BY Known DEF Touches
        <4> QED
          BY <4>1, <4>2
      <3>3. hookProc \in {"up", "closing"} =>
              ~frag /\ labelSnap.seq <= seq' /\ \A i \in DOMAIN file : file[i].seq <= seq'
        BY <3>1, <3>2 DEF Numbering
      <3> QED
        BY <3>3, <2>1 DEF Numbering, Touches
    <2>5. Holder(dl', labelLock', file', labelSnap')
      <3>1. labelLock # d /\ labelLock \in Deliveries \cup {Nil} /\ dl \in [Deliveries -> DeliveryState]
        BY Known
      <3>2. Holder(To(dl, d, at, e), labelLock, file, labelSnap)
        BY <3>1, <2>2, HolderGoes DEF LogInv
      <3> QED
        BY <3>2 DEF Touches
    <2>6. Replaying(hookProc', pos', seq', labels', file', labelSnap')
      BY DEF Replaying, Serving, Touches
    <2>7. ASSUME hasLog'
          PROVE  DurableInv'
      <3>1. hasLog /\ DurableInv
        BY <2>7, <2>2 DEF Touches
      <3>2. AckedDurable(acked', file, labelLock, labelSnap)
        BY <3>1, <2>1 DEF DurableInv, AckedDurable, Ready
      <3>3. CommitDurable(To(dl, d, at, e), file, labelLock, labelSnap)
        BY <3>1, <2>1, Known, CommitGoes DEF DurableInv, Ready
      <3>4. AckedHeld(hookProc, labels, acked')
        BY <3>1 DEF DurableInv, AckedHeld, Ready
      <3> QED
        BY <3>2, <3>3, <3>4 DEF DurableInv, Touches
    <2> QED
      BY <2>3, <2>4, <2>5, <2>6, <2>7 DEF LogInv
  <1> QED
    BY <1>1, <1>2, <1>3, <1>4, <1>5, <1>6, <1>7 DEF HookInv, MemoryInv

LEMMA DeliverStep ==
    ASSUME HookInv, NEW d \in Deliveries, NEW e \in Events, Deliver(d, e)
    PROVE  HookInv'
  <1> DEFINE s == Expire(seen)
             x == [id |-> e, seen |-> now, done |-> FALSE]
  <1>1. /\ Serving /\ dl[d] = NotHandling
        /\ \/ Remembered(s, e) /\ s[At(s, e)].done /\ acked' = acked \cup {e} /\ seen' = s /\ dl' = dl
           \/ acked' = acked /\ seen' = s /\ dl' = dl
           \/ acked' = acked /\ seen' = InsertEntry(s, x) /\ dl' = To(dl, d, "begun", e)
    BY DEF Deliver, To
  <1>2. seq' = seq /\ shorts' = shorts /\ frag' = frag
        /\ UNCHANGED <<hasLog, now, hookProc, pos, labelLock, labels, file, copied, labelSnap>>
    BY DEF Deliver, store
  <1>3. s \in Seq(Entries(labels, acked))
    BY Known, ExpireEntries
  <1> HIDE DEF s
  <1>4. dl[d].at = "idle" /\ dl[d].event = Nil
    BY <1>1 DEF NotHandling
  <1>5. dl = To(dl, d, "idle", Nil)
    <2>1. dl \in [Deliveries -> DeliveryState] /\ dl[d] = [at |-> "idle", event |-> Nil]
      BY Known, <1>1 DEF NotHandling
    <2> QED
      BY <2>1 DEF To
  <1>6. acked' = acked
    <2>1. ASSUME Remembered(s, e), s[At(s, e)].done
          PROVE  e \in acked
      <3>1. s[At(s, e)] \in Entries(labels, acked) /\ s[At(s, e)].id = e
        BY <2>1, AtIs, <1>3
      <3> QED
        BY <3>1, <2>1 DEF Entries
    <2> QED
      BY <2>1, <1>1
  <1>7. x \in Entries(labels, acked)
    BY Known DEF Entries
  <1>8. InsertEntry(s, x) \in Seq(Entries(labels, acked))
    BY <1>3, <1>7, InsertEntries
  <1>9. \/ Touches(d, "idle", Nil)
        \/ Touches(d, "begun", e)
    <2>1. acked \subseteq acked' /\ acked' \subseteq Events /\ seq' \in {seq, seq + 1}
      BY <1>6, <1>2, Known
    <2>2. CASE seen' = s /\ dl' = dl
      <3>1. dl' = To(dl, d, "idle", Nil)
        BY <2>2, <1>5
      <3> QED
        BY <2>1, <2>2, <3>1, <1>2, <1>3, <1>6 DEF Touches
    <2>3. CASE seen' = InsertEntry(s, x) /\ dl' = To(dl, d, "begun", e)
      BY <2>1, <2>3, <1>2, <1>8, <1>6 DEF Touches
    <2> QED
      BY <2>2, <2>3, <1>1
  <1>10. \A y \in acked' : y \in acked \/ Ready(y)
    BY <1>6
  <1> QED
    BY <1>1, <1>4, <1>9, <1>10, TouchStep

LEMMA FailStep ==
    ASSUME HookInv, NEW d \in Deliveries, RecordClosed(d) \/ RecordWriteFails(d)
    PROVE  HookInv'
  <1>1. /\ Serving /\ dl[d].at = "begun" /\ Fail(d) /\ acked' = acked
        /\ seq' \in {seq, seq + 1}
        /\ (shorts' = shorts /\ frag' = frag) \/ (shorts' = shorts + 1 /\ frag' = TRUE)
        /\ UNCHANGED <<hasLog, now, hookProc, pos, labelLock, labels, file, copied, labelSnap>>
    BY DEF RecordClosed, RecordWriteFails, Recording, Serving, store, hookBounds
  <1>2. seen' \in Seq(Entries(labels, acked))
    BY <1>1, Known, ReleaseEntries DEF Fail
  <1>3. dl' = To(dl, d, "idle", Nil)
    BY <1>1 DEF Fail, To, NotHandling
  <1>4. Touches(d, "idle", Nil)
    BY <1>1, <1>2, <1>3, Known DEF Touches
  <1> QED
    BY <1>1, <1>4, TouchStep

LEMMA IgnoredStep ==
    ASSUME HookInv, NEW d \in Deliveries, RecordIgnored(d)
    PROVE  HookInv'
  <1> DEFINE e == dl[d].event
  <1>1. /\ dl[d].at = "begun" /\ ~Labelled(e) /\ dl' = To(dl, d, "commit", e) /\ acked' = acked
        /\ seen' = seen /\ seq' = seq /\ shorts' = shorts /\ frag' = frag
        /\ UNCHANGED <<hasLog, now, hookProc, pos, labelLock, labels, file, copied, labelSnap>>
    BY DEF RecordIgnored, Goes, To, store, hookBounds
  <1>2. Serving
    <2>1. dl # [x \in Deliveries |-> NotHandling]
      BY <1>1 DEF NotHandling
    <2> QED
      BY <2>1, Known DEF HookInv, MemoryInv, Resting, Serving
  <1>3. e \in Events
    BY <1>1, Known
  <1> HIDE DEF e
  <1>4. Ready(e)
    BY <1>1, <1>3, NoLabelNeeded DEF Ready, Durable
  <1>5. Touches(d, "commit", e)
    BY <1>1, Known DEF Touches
  <1> QED
    BY <1>1, <1>2, <1>3, <1>4, <1>5, TouchStep

LEMMA CommitStep ==
    ASSUME HookInv, NEW d \in Deliveries, Commit(d)
    PROVE  HookInv'
  <1> DEFINE e == dl[d].event
             x == [id |-> e, seen |-> now, done |-> TRUE]
  <1>1. /\ dl[d].at = "commit" /\ dl' = To(dl, d, "idle", Nil) /\ acked' = acked \cup {e}
        /\ seen' = CommitEntry(seen, e) /\ seq' = seq /\ shorts' = shorts /\ frag' = frag
        /\ UNCHANGED <<hasLog, now, hookProc, pos, labelLock, labels, file, copied, labelSnap>>
    BY DEF Commit, To, NotHandling, store, hookBounds
  <1>2. Serving
    <2>1. dl # [y \in Deliveries |-> NotHandling]
      BY <1>1 DEF NotHandling
    <2> QED
      BY <2>1, Known DEF HookInv, MemoryInv, Resting, Serving
  <1>3. e \in Events
    BY <1>1, Known
  <1>4. Ready(e)
    <2>1. Reflects(labels, e)
      BY <1>1 DEF HookInv, MemoryInv, Labelling
    <2>2. shorts = 0 /\ hasLog => Durable(e, file, labelLock, labelSnap)
      BY <1>1 DEF HookInv, DurableInv, CommitDurable
    <2> QED
      BY <2>1, <2>2 DEF Ready
  <1> HIDE DEF e
  <1>5. x \in Entries(labels, acked')
    BY <1>1, <1>3, <1>4, Known DEF Entries, Ready
  <1>6. seen \in Seq(Entries(labels, acked'))
    BY <1>1, Known, EntriesGrow
  <1>7. seen' \in Seq(Entries(labels, acked'))
    BY <1>1, <1>5, <1>6, CommitEntries
  <1>8. Touches(d, "idle", Nil)
    BY <1>1, <1>3, <1>7, Known DEF Touches
  <1> QED
    BY <1>1, <1>2, <1>4, <1>8, TouchStep

LEMMA LineNumbers ==
    ASSUME HookInv
    PROVE  \A i \in DOMAIN file : file[i] \in Line /\ file[i].seq \in Nat
  <1>1. \A i \in DOMAIN file : file[i] \in Line
    BY Known
  <1> QED
    BY <1>1 DEF Line

LEMMA InMemoryStep ==
    ASSUME HookInv, NEW d \in Deliveries, RecordInMemory(d)
    PROVE  HookInv'
  <1> DEFINE e == dl[d].event
             g == To(dl, d, "commit", e)
  <1>1. /\ dl[d].at = "begun" /\ Labelled(e) /\ labelLock = Nil /\ hookProc = "up"
        /\ seq' = seq + 1 /\ ~hasLog /\ labels' = Apply(labels, EventInfo[e]) /\ dl' = g
        /\ UNCHANGED <<hasLog, now, hookProc, pos, seen, labelLock, file, frag, copied,
                       labelSnap, acked, shorts>>
    BY DEF RecordInMemory, Recording, Goes, To, hookBounds
  <1>2. e \in Events
    BY <1>1, Known
  <1> HIDE DEF e, g
  <1>3. Scalars(now', hookProc', seq', pos', shorts')
    BY <1>1 DEF HookInv, MemoryInv, Scalars
  <1>4. Handling(dl', labelLock', acked')
    <2>1. Handling(dl, labelLock, acked) /\ labelLock \in Deliveries \cup {Nil} /\ labelLock # d
          /\ acked \subseteq Events
      BY Known, <1>1, HookAssumption DEF HookInv, MemoryInv
    <2>2. Handling(g, labelLock, acked)
      BY <2>1, <1>2, HandlingGoes DEF g
    <2> QED
      BY <2>2, <1>1
  <1>5. Lines(file') /\ Saved(labelSnap', acked')
    BY <1>1 DEF HookInv, MemoryInv
  <1>6. Resting(hookProc', dl', labelLock', copied')
    BY <1>1 DEF Resting
  <1>7. Labelling(labels', seen', copied', dl', acked')
    <2>1. Labelling(labels, seen, copied, dl, acked)
      BY DEF HookInv, MemoryInv
    <2>2. Labelling(Apply(labels, EventInfo[e]), seen, copied, g, acked)
      BY <2>1, <1>1, <1>2, Known, LabellingApply DEF g
    <2> QED
      BY <2>2, <1>1
  <1>8. ASSUME shorts' = 0
        PROVE  LogInv'
    <2>1. LogInv
      BY <1>1, <1>8 DEF HookInv
    <2>2. Sound(file')
      BY <2>1, <1>1 DEF LogInv
    <2>3. Numbering(hookProc', frag', seq', file', labelSnap')
      <3>1. ~frag /\ labelSnap.seq <= seq /\ \A i \in DOMAIN file : file[i].seq <= seq
        BY <2>1, <1>1 DEF LogInv, Numbering
      <3>2. labelSnap.seq \in Nat /\ seq \in Nat
        BY Known
      <3>3. labelSnap.seq <= seq + 1 /\ \A i \in DOMAIN file : file[i].seq <= seq + 1
        BY <3>1, <3>2, LineNumbers
      <3> QED
        BY <3>1, <3>3, <1>1 DEF Numbering
    <2>4. Holder(dl', labelLock', file', labelSnap') /\ Replaying(hookProc', pos', seq', labels', file', labelSnap')
      BY <1>1 DEF Holder, Replaying
    <2> QED
      BY <2>2, <2>3, <2>4 DEF LogInv
  <1>9. ~hasLog'
    BY <1>1
  <1> QED
    BY <1>3, <1>4, <1>5, <1>6, <1>7, <1>8, <1>9 DEF HookInv, MemoryInv

LEMMA AppendStep ==
    ASSUME HookInv, NEW d \in Deliveries, RecordAppend(d)
    PROVE  HookInv'
  <1> DEFINE e == dl[d].event
             g == To(dl, d, "sync", e)
             r == [seq |-> seq + 1, event |-> e]
             n == Len(file) + 1
  <1>1. /\ dl[d].at = "begun" /\ Labelled(e) /\ labelLock = Nil /\ hookProc = "up"
        /\ seq' = seq + 1 /\ hasLog /\ dl' = g /\ labelLock' = d
        /\ file' = Append(file, LineOf(r)) /\ frag' = FALSE
        /\ UNCHANGED <<hasLog, now, hookProc, pos, seen, labels, copied, labelSnap, acked, shorts>>
    BY DEF RecordAppend, Recording, Goes, To, hookBounds
  <1>2. e \in Events
    BY <1>1, Known
  <1> HIDE DEF e
  <1>3. r \in Line /\ r.seq = seq + 1 /\ r.event = e /\ Genuine(r)
    BY <1>1, <1>2, Known DEF Line, Genuine
  <1>4. Corrupt \in Line
    BY DEF Corrupt, Line
  <1> HIDE DEF g, r
  <1>5. LineOf(r) \in Line /\ (LineOf(r) = Corrupt \/ Genuine(LineOf(r)))
    BY <1>3, <1>4 DEF LineOf
  <1>6. Scalars(now', hookProc', seq', pos', shorts')
    BY <1>1 DEF HookInv, MemoryInv, Scalars
  <1>7. Handling(dl', labelLock', acked')
    <2>1. /\ Handling(dl, labelLock, acked) /\ acked \subseteq Events
          /\ \A x \in Deliveries : x # d => (labelLock = x <=> d = x)
      BY Known, <1>1, HookAssumption DEF HookInv, MemoryInv
    <2>2. Handling(g, d, acked)
      BY <2>1, <1>1, <1>2, HandlingGoes DEF g
    <2> QED
      BY <2>2, <1>1
  <1>8. Lines(file) /\ Lines(file')
    <2>1. Lines(file)
      BY DEF HookInv, MemoryInv
    <2> QED
      BY <2>1, <1>1, <1>5, LinesAppend
  <1>9. Resting(hookProc', dl', labelLock', copied')
    BY <1>1 DEF Resting
  <1>10. Labelling(labels', seen', copied', dl', acked')
    <2>1. Labelling(labels, seen, copied, dl, acked) /\ dl \in [Deliveries -> DeliveryState]
      BY Known DEF HookInv, MemoryInv
    <2>2. Labelling(labels, seen, copied, g, acked)
      BY <2>1, Known, LabellingGoes DEF g
    <2> QED
      BY <2>2, <1>1
  <1>11. Saved(labelSnap', acked')
    BY <1>1 DEF HookInv, MemoryInv
  <1>12. ASSUME shorts' = 0
         PROVE  LogInv' /\ DurableInv'
    <2>1. LogInv /\ DurableInv
      BY <1>1, <1>12 DEF HookInv
    <2>2. ~frag /\ labelSnap.seq <= seq /\ \A i \in DOMAIN file : file[i].seq <= seq
      BY <2>1, <1>1 DEF LogInv, Numbering
    <2>3. labelSnap.seq \in Nat /\ seq \in Nat
      BY Known
    <2>4. file' = Append(file, r)
      BY <2>2, <1>1 DEF LineOf
    <2>5. /\ DOMAIN file' = DOMAIN file \cup {n} /\ Len(file') = n
          /\ \A i \in DOMAIN file : file'[i] = file[i]
          /\ file'[n] = r /\ file' # <<>>
      <3>1. file \in Seq(Line)
        BY Known
      <3>2. /\ DOMAIN Append(file, r) = DOMAIN file \cup {n} /\ Len(Append(file, r)) = n
            /\ \A i \in DOMAIN file : Append(file, r)[i] = file[i]
            /\ Append(file, r)[n] = r /\ Append(file, r) # <<>>
        BY <3>1
      <3> QED
        BY <3>2, <2>4
    <2> HIDE DEF n
    <2>6. Sound(file')
      <3>1. \A i \in DOMAIN file : file[i].seq < r.seq
        BY <2>2, <2>3, <1>3, LineNumbers
      <3>2. Sound(file)
        BY <2>1 DEF LogInv
      <3> QED
        BY <3>1, <3>2, <2>4, <1>3, <1>8, LinesAppend
    <2>7. Numbering(hookProc', frag', seq', file', labelSnap')
      <3>1. labelSnap.seq <= seq + 1 /\ \A i \in DOMAIN file : file[i].seq <= seq + 1
        BY <2>2, <2>3, LineNumbers
      <3>2. \A i \in DOMAIN file' : file'[i].seq <= seq + 1
        BY <3>1, <2>5, <2>3, <1>3
      <3> QED
        BY <3>1, <3>2, <1>1 DEF Numbering
    <2>8. Holder(dl', labelLock', file', labelSnap')
      <3>1. g[d].event = e
        BY Known, ToIs DEF g
      <3>2. r.seq > labelSnap.seq
        BY <2>2, <2>3, <1>3
      <3> QED
        BY <3>1, <3>2, <2>5, <1>1, <1>3 DEF Holder
    <2>9. Replaying(hookProc', pos', seq', labels', file', labelSnap')
      BY <1>1 DEF Replaying
    <2>10. \A x \in Events : Durable(x, file, labelLock, labelSnap) => Durable(x, file', d, labelSnap)
      BY <2>4, <1>1, <1>3, Known, DurableAppend
    <2>11. AckedDurable(acked', file', labelLock', labelSnap')
      BY <2>1, <2>10, <1>1, Known DEF DurableInv, AckedDurable
    <2>12. CommitDurable(dl', file', labelLock', labelSnap')
      <3>1. CommitDurable(dl, file', d, labelSnap)
        BY <2>1, <2>10, Known DEF DurableInv, CommitDurable
      <3>2. CommitDurable(g, file', d, labelSnap)
        BY <3>1, Known, CommitGoes DEF g
      <3> QED
        BY <3>2, <1>1
    <2>13. AckedHeld(hookProc', labels', acked')
      BY <2>1, <1>1 DEF DurableInv
    <2> QED
      BY <2>6, <2>7, <2>8, <2>9, <2>11, <2>12, <2>13 DEF LogInv, DurableInv
  <1> QED
    BY <1>6, <1>7, <1>8, <1>9, <1>10, <1>11, <1>12 DEF HookInv, MemoryInv

LEMMA SyncStep ==
    ASSUME HookInv, NEW d \in Deliveries, RecordSync(d)
    PROVE  HookInv'
  <1> DEFINE e == dl[d].event
             g == To(dl, d, "commit", e)
  <1>1. /\ dl[d].at = "sync" /\ labelLock' = Nil /\ labels' = Apply(labels, EventInfo[e]) /\ dl' = g
        /\ seq' = seq /\ UNCHANGED <<hasLog, now, hookProc, pos, seen, file, frag, copied,
                                    labelSnap, acked, shorts>>
    BY DEF RecordSync, Goes, To, hookBounds
  <1>2. e \in Events /\ Labelled(e) /\ labelLock = d /\ d # Nil
    BY <1>1, Known, HookAssumption
  <1>3. Serving
    <2>1. labelLock # Nil
      BY <1>2
    <2> QED
      BY <2>1, Known DEF HookInv, MemoryInv, Resting, Serving
  <1>4. WellFormed(labels)
    BY Known
  <1> HIDE DEF e, g
  <1>5. Scalars(now', hookProc', seq', pos', shorts')
    BY <1>1 DEF HookInv, MemoryInv, Scalars
  <1>6. Handling(dl', labelLock', acked')
    <2>1. /\ Handling(dl, labelLock, acked) /\ acked \subseteq Events
          /\ \A x \in Deliveries : x # d => (labelLock = x <=> Nil = x)
      BY Known, <1>2, HookAssumption DEF HookInv, MemoryInv
    <2>2. Handling(g, Nil, acked)
      BY <2>1, <1>2, HandlingGoes DEF g
    <2> QED
      BY <2>2, <1>1
  <1>7. Lines(file') /\ Saved(labelSnap', acked')
    BY <1>1 DEF HookInv, MemoryInv
  <1>8. Resting(hookProc', dl', labelLock', copied')
    BY <1>1, <1>3 DEF Resting, Serving
  <1>9. Labelling(labels', seen', copied', dl', acked')
    <2>1. Labelling(labels, seen, copied, dl, acked)
      BY DEF HookInv, MemoryInv
    <2>2. Labelling(Apply(labels, EventInfo[e]), seen, copied, g, acked)
      BY <2>1, <1>2, Known, LabellingApply DEF g
    <2> QED
      BY <2>2, <1>1
  <1>10. ASSUME shorts' = 0
         PROVE  LogInv' /\ (hasLog' => DurableInv')
    <2>1. LogInv /\ (hasLog => DurableInv)
      BY <1>1, <1>10 DEF HookInv
    <2>2. LogInv'
      <3>1. Sound(file') /\ Numbering(hookProc', frag', seq', file', labelSnap')
        BY <2>1, <1>1 DEF LogInv
      <3>2. Holder(dl', labelLock', file', labelSnap')
        BY <1>1 DEF Holder
      <3>3. Replaying(hookProc', pos', seq', labels', file', labelSnap')
        BY <1>1, <1>3 DEF Replaying, Serving
      <3> QED
        BY <3>1, <3>2, <3>3 DEF LogInv
    <2>3. ASSUME hasLog'
          PROVE  DurableInv'
      <3>1. DurableInv
        BY <2>1, <2>3, <1>1
      <3>2. \A x \in Events : Durable(x, file, labelLock, labelSnap) => Durable(x, file, Nil, labelSnap)
        BY DurableUnlock
      <3>3. Durable(e, file, Nil, labelSnap)
        <4>1. file # <<>> /\ file[Len(file)].event = e /\ file[Len(file)].seq > labelSnap.seq
          BY <2>1, <1>2 DEF LogInv, Holder, e
        <4>2. Len(file) \in DOMAIN file
          BY <4>1, Known
        <4> QED
          BY <4>1, <4>2 DEF Durable, InLog
      <3>4. AckedDurable(acked', file', labelLock', labelSnap')
        BY <3>1, <3>2, <1>1, Known DEF DurableInv, AckedDurable
      <3>5. CommitDurable(dl', file', labelLock', labelSnap')
        <4>1. CommitDurable(dl, file, Nil, labelSnap)
          BY <3>1, <3>2, Known DEF DurableInv, CommitDurable
        <4>2. CommitDurable(g, file, Nil, labelSnap)
          BY <4>1, <3>3, Known, CommitGoes DEF g
        <4> QED
          BY <4>2, <1>1
      <3>6. AckedHeld(hookProc', labels', acked')
        <4>1. \A x \in acked : Reflects(labels, x) => Reflects(Apply(labels, EventInfo[e]), x)
          BY <1>2, <1>4, Known, ApplyKeeps
        <4> QED
          BY <4>1, <3>1, <1>1 DEF DurableInv, AckedHeld
      <3> QED
        BY <3>4, <3>5, <3>6 DEF DurableInv
    <2> QED
      BY <2>2, <2>3
  <1> QED
    BY <1>5, <1>6, <1>7, <1>8, <1>9, <1>10 DEF HookInv, MemoryInv

LEMMA SyncFailsStep ==
    ASSUME HookInv, NEW d \in Deliveries, RecordSyncFails(d)
    PROVE  HookInv'
  <1> DEFINE g == To(dl, d, "idle", Nil)
  <1>1. /\ dl[d].at = "sync" /\ labelLock' = Nil /\ dl' = g
        /\ seen' = ReleaseEntry(seen, dl[d].event)
        /\ seq' = seq /\ labels' = labels
        /\ UNCHANGED <<hasLog, now, hookProc, pos, file, frag, copied, labelSnap, acked, shorts>>
    BY DEF RecordSyncFails, Fail, To, NotHandling, store
  <1>2. labelLock = d /\ d # Nil
    BY <1>1, Known, HookAssumption
  <1>3. Serving
    <2>1. labelLock # Nil
      BY <1>2
    <2> QED
      BY <2>1, Known DEF HookInv, MemoryInv, Resting, Serving
  <1>4. seen' \in Seq(Entries(labels, acked))
    BY <1>1, Known, ReleaseEntries
  <1> HIDE DEF g
  <1>5. Scalars(now', hookProc', seq', pos', shorts')
    BY <1>1 DEF HookInv, MemoryInv, Scalars
  <1>6. Handling(dl', labelLock', acked')
    <2>1. /\ Handling(dl, labelLock, acked) /\ acked \subseteq Events
          /\ \A x \in Deliveries : x # d => (labelLock = x <=> Nil = x)
      BY Known, <1>2, HookAssumption DEF HookInv, MemoryInv
    <2>2. Handling(g, Nil, acked)
      BY <2>1, <1>2, HandlingGoes DEF g
    <2> QED
      BY <2>2, <1>1
  <1>7. Lines(file') /\ Saved(labelSnap', acked')
    BY <1>1 DEF HookInv, MemoryInv
  <1>8. Resting(hookProc', dl', labelLock', copied')
    BY <1>1, <1>3 DEF Resting, Serving
  <1>9. Labelling(labels', seen', copied', dl', acked')
    <2>1. Labelling(labels, seen, copied, dl, acked) /\ dl \in [Deliveries -> DeliveryState]
      BY Known DEF HookInv, MemoryInv
    <2>2. Labelling(labels, seen', copied, g, acked)
      BY <2>1, <1>4, LabellingGoes DEF g
    <2> QED
      BY <2>2, <1>1
  <1>10. ASSUME shorts' = 0
         PROVE  LogInv' /\ (hasLog' => DurableInv')
    <2>1. LogInv /\ (hasLog => DurableInv)
      BY <1>1, <1>10 DEF HookInv
    <2>2. LogInv'
      <3>1. Sound(file') /\ Numbering(hookProc', frag', seq', file', labelSnap')
        BY <2>1, <1>1 DEF LogInv
      <3>2. Holder(dl', labelLock', file', labelSnap')
        BY <1>1 DEF Holder
      <3>3. Replaying(hookProc', pos', seq', labels', file', labelSnap')
        BY <1>1, <1>3 DEF Replaying, Serving
      <3> QED
        BY <3>1, <3>2, <3>3 DEF LogInv
    <2>3. ASSUME hasLog'
          PROVE  DurableInv'
      <3>1. DurableInv
        BY <2>1, <2>3, <1>1
      <3>2. \A x \in Events : Durable(x, file, labelLock, labelSnap) => Durable(x, file, Nil, labelSnap)
        BY DurableUnlock
      <3>3. AckedDurable(acked', file', labelLock', labelSnap')
        BY <3>1, <3>2, <1>1, Known DEF DurableInv, AckedDurable
      <3>4. CommitDurable(dl', file', labelLock', labelSnap')
        <4>1. CommitDurable(dl, file, Nil, labelSnap)
          BY <3>1, <3>2, Known DEF DurableInv, CommitDurable
        <4>2. CommitDurable(g, file, Nil, labelSnap)
          BY <4>1, Known, CommitGoes DEF g
        <4> QED
          BY <4>2, <1>1
      <3>5. AckedHeld(hookProc', labels', acked')
        BY <3>1, <1>1 DEF DurableInv
      <3> QED
        BY <3>3, <3>4, <3>5 DEF DurableInv
    <2> QED
      BY <2>2, <2>3
  <1> QED
    BY <1>5, <1>6, <1>7, <1>8, <1>9, <1>10 DEF HookInv, MemoryInv

LEMMA CopyStep ==
    ASSUME HookInv, SnapshotDedupe
    PROVE  HookInv'
  <1>1. /\ Serving /\ seen' = Expire(seen) /\ copied' = Processed(Expire(seen))
        /\ seq' = seq /\ labels' = labels
        /\ UNCHANGED <<hasLog, now, hookProc, pos, dl, labelLock, file, frag, labelSnap, acked, shorts>>
    BY DEF SnapshotDedupe, store
  <1>2. /\ seen' \in Seq(Entries(labels, acked)) /\ copied' \in Seq(Entries(labels, acked))
    <2>1. Expire(seen) \in Seq(Entries(labels, acked))
      BY Known, ExpireEntries
    <2> QED
      BY <2>1, <1>1, ProcessedEntries
  <1>3. Scalars(now', hookProc', seq', pos', shorts') /\ Handling(dl', labelLock', acked')
        /\ Lines(file') /\ Saved(labelSnap', acked')
    BY <1>1 DEF HookInv, MemoryInv
  <1>4. Resting(hookProc', dl', labelLock', copied')
    BY <1>1 DEF Resting, Serving
  <1>5. Labelling(labels', seen', copied', dl', acked')
    <2>1. Labelling(labels, seen, copied, dl, acked)
      BY DEF HookInv, MemoryInv
    <2> QED
      BY <2>1, <1>1, <1>2 DEF Labelling
  <1>6. shorts' = 0 => LogInv' /\ (hasLog' => DurableInv')
    BY <1>1 DEF HookInv, LogInv, DurableInv
  <1> QED
    BY <1>3, <1>4, <1>5, <1>6 DEF HookInv, MemoryInv

(* The snapshot takes over what the log guaranteed: the labels in memory   *)
(* reflect every event that is acknowledged or about to be.                *)
LEMMA SnapshotStep ==
    ASSUME HookInv, SnapshotLabels
    PROVE  HookInv'
  <1> DEFINE sn == [seen |-> copied, seq |-> seq, labels |-> labels]
  <1>1. /\ copied # Nil /\ labelLock = Nil /\ labelSnap' = sn /\ copied' = Nil
        /\ seq' = seq /\ labels' = labels
        /\ UNCHANGED <<hasLog, now, hookProc, pos, seen, dl, labelLock, file, frag, acked, shorts>>
    BY DEF SnapshotLabels, store, hookBounds
  <1>2. sn.seen = copied /\ sn.seq = seq /\ sn.labels = labels
    OBVIOUS
  <1> HIDE DEF sn
  <1>3. hookProc \in {"up", "closing"}
    BY <1>1, Known DEF HookInv, MemoryInv, Resting
  <1>4. Labelling(labels, seen, copied, dl, acked)
    BY DEF HookInv, MemoryInv
  <1>5. Scalars(now', hookProc', seq', pos', shorts') /\ Handling(dl', labelLock', acked') /\ Lines(file')
    BY <1>1 DEF HookInv, MemoryInv
  <1>6. Resting(hookProc', dl', labelLock', copied')
    BY <1>1, <1>3 DEF Resting
  <1>7. Labelling(labels', seen', copied', dl', acked')
    BY <1>4, <1>1 DEF Labelling
  <1>8. Saved(labelSnap', acked')
    <2>1. Saved(sn, acked)
      BY <1>1, <1>2, <1>4, Known DEF Saved, Labelling
    <2> QED
      BY <2>1, <1>1
  <1>9. ASSUME shorts' = 0
        PROVE  LogInv' /\ (hasLog' => DurableInv')
    <2>1. LogInv /\ (hasLog => DurableInv)
      BY <1>1, <1>9 DEF HookInv
    <2>2. LogInv'
      <3>1. Sound(file')
        BY <2>1, <1>1 DEF LogInv
      <3>2. Numbering(hookProc', frag', seq', file', labelSnap')
        <4>1. Numbering(hookProc, frag, seq, file, labelSnap) /\ seq <= seq
          BY <2>1, Known DEF LogInv
        <4>2. Numbering(hookProc, frag, seq, file, sn)
          BY <4>1, <1>2 DEF Numbering
        <4> QED
          BY <4>2, <1>1
      <3>3. Holder(dl', labelLock', file', labelSnap')
        BY <1>1 DEF Holder
      <3>4. Replaying(hookProc', pos', seq', labels', file', labelSnap')
        BY <1>1, <1>3 DEF Replaying
      <3> QED
        BY <3>1, <3>2, <3>3, <3>4 DEF LogInv
    <2>3. ASSUME hasLog'
          PROVE  DurableInv'
      <3>1. DurableInv
        BY <2>1, <2>3, <1>1
      <3>2. \A x \in acked : Reflects(labels, x)
        BY <3>1, <1>3 DEF DurableInv, AckedHeld
      <3>3. AckedDurable(acked, file, labelLock, sn)
        BY <3>2, <1>2 DEF AckedDurable, Durable
      <3>4. CommitDurable(dl, file, labelLock, sn)
        BY <1>4, <1>2 DEF CommitDurable, Durable, Labelling
      <3>5. AckedHeld(hookProc, labels, acked)
        BY <3>1 DEF DurableInv
      <3> QED
        BY <3>3, <3>4, <3>5, <1>1 DEF DurableInv
    <2> QED
      BY <2>2, <2>3
  <1> QED
    BY <1>5, <1>6, <1>7, <1>8, <1>9 DEF HookInv, MemoryInv

LEMMA CloseStep ==
    ASSUME HookInv, CloseLabels
    PROVE  HookInv'
  <1>1. /\ hookProc = "up" /\ hookProc' = "closing" /\ seq' = seq /\ labels' = labels
        /\ UNCHANGED <<hasLog, now, pos, seen, dl, labelLock, file, frag, copied, labelSnap,
                       acked, shorts>>
    BY DEF CloseLabels, store, hookBounds
  <1>2. Scalars(now', hookProc', seq', pos', shorts')
    BY <1>1 DEF HookInv, MemoryInv, Scalars
  <1>3. /\ Handling(dl', labelLock', acked') /\ Lines(file') /\ Saved(labelSnap', acked')
        /\ Labelling(labels', seen', copied', dl', acked')
    BY <1>1 DEF HookInv, MemoryInv
  <1>4. Resting(hookProc', dl', labelLock', copied')
    BY <1>1 DEF Resting
  <1>5. ASSUME shorts' = 0
        PROVE  LogInv' /\ (hasLog' => DurableInv')
    <2>1. LogInv /\ (hasLog => DurableInv)
      BY <1>1, <1>5 DEF HookInv
    <2>2. Sound(file') /\ Holder(dl', labelLock', file', labelSnap')
      BY <2>1, <1>1 DEF LogInv
    <2>3. Numbering(hookProc', frag', seq', file', labelSnap')
      BY <2>1, <1>1 DEF LogInv, Numbering
    <2>4. Replaying(hookProc', pos', seq', labels', file', labelSnap')
      BY <1>1 DEF Replaying
    <2>5. hasLog' => DurableInv'
      BY <2>1, <1>1 DEF DurableInv, AckedHeld
    <2> QED
      BY <2>2, <2>3, <2>4, <2>5 DEF LogInv
  <1> QED
    BY <1>2, <1>3, <1>4, <1>5 DEF HookInv, MemoryInv

LEMMA EmptyMemory ==
    ASSUME NEW A
    PROVE  Labelling(NoLabels, <<>>, Nil, [d \in Deliveries |-> NotHandling], A)
  <1>1. <<>> \in Seq(Entries(NoLabels, A))
    OBVIOUS
  <1>2. \A d \in Deliveries : [x \in Deliveries |-> NotHandling][d].at # "commit"
    BY DEF NotHandling
  <1> QED
    BY <1>1, <1>2, NoLabelsWellFormed DEF Labelling

LEMMA EmptyHandling ==
    ASSUME NEW A, A \subseteq Events
    PROVE  Handling([d \in Deliveries |-> NotHandling], Nil, A)
  <1> DEFINE f == [d \in Deliveries |-> NotHandling]
  <1>1. f \in [Deliveries -> DeliveryState]
    BY DEF NotHandling, DeliveryState
  <1>2. \A d \in Deliveries : f[d].at = "idle"
    BY DEF NotHandling
  <1>3. \A d \in Deliveries : d # Nil
    BY HookAssumption
  <1> HIDE DEF f
  <1>4. Handling(f, Nil, A)
    BY <1>1, <1>2, <1>3 DEF Handling
  <1> QED
    BY <1>4 DEF f

LEMMA StopStep ==
    ASSUME HookInv, Stop
    PROVE  HookInv'
  <1> DEFINE f == [d \in Deliveries |-> NotHandling]
  <1>1. /\ hookProc' = "down" /\ seen' = <<>> /\ seq' = 0 /\ labels' = NoLabels /\ pos' = 0
        /\ dl' = f /\ labelLock' = Nil /\ copied' = Nil
        /\ \/ file' = file /\ frag' = frag
           \/ labelLock # Nil /\ file' = Front(file)
        /\ UNCHANGED <<hasLog, now, labelSnap, acked, shorts>>
    BY DEF Stop, Memory
  <1>2. Scalars(now', hookProc', seq', pos', shorts')
    BY <1>1 DEF HookInv, MemoryInv, Scalars
  <1>3. Handling(dl', labelLock', acked')
    BY <1>1, Known, EmptyHandling
  <1>4. Resting(hookProc', dl', labelLock', copied')
    BY <1>1 DEF Resting
  <1>5. Labelling(labels', seen', copied', dl', acked')
    BY <1>1, EmptyMemory
  <1>6. Saved(labelSnap', acked')
    BY <1>1 DEF HookInv, MemoryInv
  <1>7. Lines(file')
    <2>1. Lines(file)
      BY DEF HookInv, MemoryInv
    <2>2. CASE file' = file
      BY <2>1, <2>2
    <2>3. CASE file' = Front(file) /\ file # <<>>
      BY <2>1, <2>3, LinesFront
    <2>4. CASE file' = Front(file) /\ file = <<>>
      <3>1. Front(file) = <<>>
        BY <2>4 DEF Front
      <3> QED
        BY <3>1, <2>1, <2>4
    <2> QED
      BY <2>2, <2>3, <2>4, <1>1
  <1> HIDE DEF f
  <1>8. ASSUME shorts' = 0
        PROVE  LogInv' /\ (hasLog' => DurableInv')
    <2>1. LogInv /\ (hasLog => DurableInv) /\ Lines(file) /\ file \in Seq(Line)
      BY <1>1, <1>8, Known DEF HookInv, MemoryInv
    <2>2. labelLock # Nil => file # <<>>
      BY <2>1 DEF LogInv, Holder
    <2>3. Sound(file')
      BY <2>1, <2>2, <1>1, LinesFront DEF LogInv
    <2>4. /\ Numbering(hookProc', frag', seq', file', labelSnap')
          /\ Holder(dl', labelLock', file', labelSnap')
          /\ Replaying(hookProc', pos', seq', labels', file', labelSnap')
      BY <1>1 DEF Numbering, Holder, Replaying
    <2>5. ASSUME hasLog'
          PROVE  DurableInv'
      <3>1. DurableInv
        BY <2>1, <2>5, <1>1
      <3>2. \A x \in acked : Durable(x, file', Nil, labelSnap)
        <4> TAKE x \in acked
        <4>1. Durable(x, file, labelLock, labelSnap)
          BY <3>1 DEF DurableInv, AckedDurable
        <4>2. CASE file' = file
          BY <4>1, <4>2, DurableUnlock
        <4>3. CASE labelLock # Nil /\ file' = Front(file)
          BY <4>1, <4>3, <2>1, <2>2, DurableFront
        <4> QED
          BY <4>2, <4>3, <1>1
      <3>3. AckedDurable(acked', file', labelLock', labelSnap')
        BY <3>2, <1>1 DEF AckedDurable
      <3>4. CommitDurable(dl', file', labelLock', labelSnap')
        <4>1. \A d \in Deliveries : f[d].at = "idle"
          BY DEF f, NotHandling
        <4> QED
          BY <4>1, <1>1 DEF CommitDurable
      <3>5. AckedHeld(hookProc', labels', acked')
        BY <1>1 DEF AckedHeld
      <3> QED
        BY <3>3, <3>4, <3>5 DEF DurableInv
    <2> QED
      BY <2>3, <2>4, <2>5 DEF LogInv
  <1> QED
    BY <1>2, <1>3, <1>4, <1>5, <1>6, <1>7, <1>8 DEF HookInv, MemoryInv

(* Before service starts, nothing is handled and the lock is free.         *)
LEMMA AtRest ==
    ASSUME HookInv, hookProc \in {"down", "replay"}
    PROVE  dl = [d \in Deliveries |-> NotHandling] /\ labelLock = Nil /\ copied = Nil
  BY DEF HookInv, MemoryInv, Resting

LEMMA RestingLabels ==
    ASSUME NEW ls, NEW s, NEW A, WellFormed(ls), s \in Seq(Entries(ls, A))
    PROVE  Labelling(ls, s, Nil, [d \in Deliveries |-> NotHandling], A)
  <1>1. \A d \in Deliveries : [x \in Deliveries |-> NotHandling][d].at # "commit"
    BY DEF NotHandling
  <1> QED
    BY <1>1 DEF Labelling

LEMMA NewStep ==
    ASSUME HookInv, NewLabels
    PROVE  HookInv'
  <1>1. /\ hookProc = "down" /\ hookProc' = "replay" /\ pos' = 0
        /\ seen' = RestoreEntries(labelSnap.seen) /\ seq' = labelSnap.seq /\ labels' = labelSnap.labels
        /\ UNCHANGED <<hasLog, now, dl, labelLock, file, frag, copied, labelSnap, acked, shorts>>
    BY DEF NewLabels, Memory, hookBounds
  <1>2. Saved(labelSnap, acked)
    BY DEF HookInv, MemoryInv
  <1>3. dl = [d \in Deliveries |-> NotHandling] /\ labelLock = Nil /\ copied = Nil
    BY <1>1, AtRest
  <1>4. seen' \in Seq(Entries(labelSnap.labels, acked))
    BY <1>1, <1>2, RestoredEntries DEF Saved
  <1>5. Scalars(now', hookProc', seq', pos', shorts')
    BY <1>1, Known DEF Scalars
  <1>6. /\ Handling(dl', labelLock', acked') /\ Lines(file') /\ Saved(labelSnap', acked')
    BY <1>1 DEF HookInv, MemoryInv
  <1>7. Resting(hookProc', dl', labelLock', copied')
    BY <1>1, <1>3 DEF Resting
  <1>8. Labelling(labels', seen', copied', dl', acked')
    BY <1>1, <1>2, <1>3, <1>4, RestingLabels DEF Saved
  <1>9. ASSUME shorts' = 0
        PROVE  LogInv' /\ (hasLog' => DurableInv')
    <2>1. LogInv /\ (hasLog => DurableInv) /\ Len(file) \in Nat /\ labelSnap.seq \in Nat
      BY <1>1, <1>9, Known DEF HookInv
    <2>2. Sound(file') /\ Holder(dl', labelLock', file', labelSnap')
      BY <2>1, <1>1 DEF LogInv
    <2>3. Numbering(hookProc', frag', seq', file', labelSnap')
      BY <1>1 DEF Numbering
    <2>4. Replaying("replay", 0, labelSnap.seq, labelSnap.labels, file, labelSnap)
      <3> DEFINE k == labelSnap.seq
                 n == Len(file)
      <3>1. k \in Nat /\ n \in Nat /\ k <= k /\ 0 <= n
        BY <2>1
      <3>2. \A i \in 1..0 : FALSE
        OBVIOUS
      <3> HIDE DEF k, n
      <3> QED
        BY <3>1, <3>2 DEF Replaying, k, n
    <2>5. hasLog' => DurableInv'
      BY <2>1, <1>1 DEF DurableInv, AckedHeld
    <2> QED
      BY <2>2, <2>3, <2>4, <2>5, <1>1 DEF LogInv
  <1> QED
    BY <1>5, <1>6, <1>7, <1>8, <1>9 DEF HookInv, MemoryInv

(* The log's numbers grow, so a line the replay skips is one the snapshot  *)
(* has.                                                                    *)
LEMMA ReplayLineStep ==
    ASSUME HookInv, ReplayLine
    PROVE  HookInv'
  <1> DEFINE r == file[pos + 1]
             e == r.event
             n == pos + 1
  <1>1. /\ hookProc = "replay" /\ pos < Len(file) /\ r # Corrupt /\ pos' = n
        /\ \/ r.seq <= seq /\ seq' = seq /\ labels' = labels
           \/ ~(r.seq <= seq) /\ seq' = r.seq /\ labels' = Apply(labels, EventInfo[e])
        /\ UNCHANGED <<hasLog, now, hookProc, seen, dl, labelLock, file, frag, copied,
                       labelSnap, acked, shorts>>
    BY DEF ReplayLine, store, hookBounds
  <1>2. dl = [d \in Deliveries |-> NotHandling] /\ labelLock = Nil /\ copied = Nil
    BY <1>1, AtRest
  <1>3. pos \in Nat /\ Len(file) \in Nat /\ DOMAIN file = 1..Len(file) /\ n \in DOMAIN file
    BY <1>1, Known
  <1>4. Genuine(r) /\ r.seq \in Nat
    <2>1. r = Corrupt \/ Genuine(r)
      BY <1>3 DEF HookInv, MemoryInv, Lines
    <2> QED
      BY <2>1, <1>1, <1>3, LineNumbers
  <1>5. e \in Events /\ Labelled(e)
    BY <1>4 DEF Genuine
  <1>6. WellFormed(labels) /\ seen \in Seq(Entries(labels, acked)) /\ seq \in Nat
        /\ labelSnap.seq \in Nat
    BY Known
  <1> HIDE DEF r, e
  <1>7. seq' \in Nat /\ seq' >= seq /\ seq' >= r.seq /\ seq' \in {seq, r.seq}
    BY <1>1, <1>4, <1>6
  <1>8. \A x \in Events : Reflects(labels, x) => Reflects(labels', x)
    BY <1>1, <1>5, <1>6, ApplyKeeps
  <1>9. WellFormed(labels') /\ seen' \in Seq(Entries(labels', acked))
    <2>1. CASE labels' = labels
      BY <2>1, <1>1, <1>6
    <2>2. CASE labels' = Apply(labels, EventInfo[e])
      BY <2>2, <1>1, <1>5, <1>6, ApplyWellFormed, EntriesApply
    <2> QED
      BY <2>1, <2>2, <1>1
  <1>10. Scalars(now', hookProc', seq', pos', shorts')
    BY <1>1, <1>3, <1>7, Known DEF Scalars
  <1>11. /\ Handling(dl', labelLock', acked') /\ Lines(file') /\ Saved(labelSnap', acked')
         /\ Resting(hookProc', dl', labelLock', copied')
    BY <1>1 DEF HookInv, MemoryInv
  <1>12. Labelling(labels', seen', copied', dl', acked')
    BY <1>1, <1>2, <1>9, RestingLabels
  <1>13. ASSUME shorts' = 0
         PROVE  LogInv' /\ (hasLog' => DurableInv')
    <2>1. LogInv /\ (hasLog => DurableInv)
      BY <1>1, <1>13 DEF HookInv
    <2>2. Sound(file) /\ Sound(file') /\ Holder(dl', labelLock', file', labelSnap')
      BY <2>1, <1>1 DEF LogInv
    <2>3. Numbering(hookProc', frag', seq', file', labelSnap')
      BY <1>1 DEF Numbering
    <2>4. /\ labelSnap.seq <= seq
          /\ \A i \in 1..pos : /\ file[i].seq <= seq
                               /\ file[i].seq > labelSnap.seq => Reflects(labels, file[i].event)
          /\ seq = labelSnap.seq \/ \E i \in 1..pos : file[i].seq = seq
          /\ \A x \in Events : Reflects(labelSnap.labels, x) => Reflects(labels, x)
      BY <2>1, <1>1 DEF LogInv, Replaying
    <2>5. \A i \in 1..n : i \in DOMAIN file /\ (i = n \/ i \in 1..pos)
      BY <1>3
    <2>6. n <= Len(file) /\ labelSnap.seq <= seq'
      BY <1>1, <1>3, <1>6, <1>7, <2>4
    <2>7. \A i \in 1..n : file[i].seq <= seq'
      <3> TAKE i \in 1..n
      <3>1. CASE i = n
        BY <3>1, <1>4, <1>7 DEF r
      <3>2. CASE i \in 1..pos
        <4>1. file[i].seq <= seq /\ file[i].seq \in Nat
          BY <3>2, <2>4, <2>5, LineNumbers
        <4> QED
          BY <4>1, <1>6, <1>7
      <3> QED
        BY <3>1, <3>2, <2>5
    <2>8. r.seq > labelSnap.seq => Reflects(labels', e)
      <3>1. CASE ~(r.seq <= seq)
        <4>1. labels' = Apply(labels, EventInfo[e])
          BY <3>1, <1>1
        <4> QED
          BY <4>1, <1>5, <1>6, ApplyReflects
      <3>2. CASE r.seq <= seq
        <4>1. \A i \in 1..pos : file[i].seq < r.seq
          <5> TAKE i \in 1..pos
          <5>1. i \in DOMAIN file /\ i < n
            BY <1>3
          <5> QED
            BY <5>1, <1>3, <2>2 DEF Sound, r
        <4>2. \A i \in 1..pos : file[i].seq # seq
          BY <4>1, <3>2, <1>4, <1>6
        <4>3. seq = labelSnap.seq
          BY <4>2, <2>4
        <4> QED
          BY <4>3, <3>2, <1>4, <1>6
      <3> QED
        BY <3>1, <3>2
    <2>9. \A i \in 1..n : file[i].seq > labelSnap.seq => Reflects(labels', file[i].event)
      <3> TAKE i \in 1..n
      <3>1. CASE i = n
        BY <3>1, <2>8 DEF r, e
      <3>2. CASE i \in 1..pos
        <4>1. Genuine(file[i])
          BY <2>2, <2>5 DEF Sound
        <4> QED
          BY <4>1, <3>2, <2>4, <1>8 DEF Genuine
      <3> QED
        BY <3>1, <3>2, <2>5
    <2>10. seq' = labelSnap.seq \/ \E i \in 1..n : file[i].seq = seq'
      <3>1. CASE seq' = seq
        <4>1. \A i \in 1..pos : i \in 1..n
          BY <1>3
        <4> QED
          BY <4>1, <3>1, <2>4
      <3>2. CASE seq' = r.seq
        <4>1. n \in 1..n
          BY <1>3
        <4> QED
          BY <4>1, <3>2 DEF r
      <3> QED
        BY <3>1, <3>2, <1>7
    <2>11. \A x \in Events : Reflects(labelSnap.labels, x) => Reflects(labels', x)
      BY <2>4, <1>8
    <2> HIDE DEF n
    <2>12. Replaying(hookProc', pos', seq', labels', file', labelSnap')
      <3>1. Replaying("replay", n, seq', labels', file, labelSnap)
        BY <2>6, <2>7, <2>9, <2>10, <2>11, <1>7 DEF Replaying
      <3> QED
        BY <3>1, <1>1
    <2>13. hasLog' => DurableInv'
      BY <2>1, <1>1 DEF DurableInv, AckedHeld
    <2> QED
      BY <2>2, <2>3, <2>12, <2>13 DEF LogInv
  <1> QED
    BY <1>10, <1>11, <1>12, <1>13 DEF HookInv, MemoryInv

LEMMA ReplayFailsStep ==
    ASSUME HookInv, ReplayFails
    PROVE  HookInv'
  <1>1. /\ hookProc = "replay" /\ hookProc' = "down"
        /\ seen' = <<>> /\ seq' = 0 /\ labels' = NoLabels /\ pos' = 0
        /\ UNCHANGED <<hasLog, now, dl, labelLock, file, frag, copied, labelSnap, acked, shorts>>
    BY DEF ReplayFails, Memory, hookBounds
  <1>2. dl = [d \in Deliveries |-> NotHandling] /\ labelLock = Nil /\ copied = Nil
    BY <1>1, AtRest
  <1>3. Scalars(now', hookProc', seq', pos', shorts')
    BY <1>1, Known DEF Scalars
  <1>4. /\ Handling(dl', labelLock', acked') /\ Lines(file') /\ Saved(labelSnap', acked')
    BY <1>1 DEF HookInv, MemoryInv
  <1>5. Resting(hookProc', dl', labelLock', copied') /\ Labelling(labels', seen', copied', dl', acked')
    BY <1>1, <1>2, EmptyMemory DEF Resting
  <1>6. ASSUME shorts' = 0
        PROVE  LogInv' /\ (hasLog' => DurableInv')
    <2>1. LogInv /\ (hasLog => DurableInv)
      BY <1>1, <1>6 DEF HookInv
    <2>2. LogInv'
      BY <2>1, <1>1 DEF LogInv, Numbering, Replaying
    <2>3. hasLog' => DurableInv'
      BY <2>1, <1>1 DEF DurableInv, AckedHeld
    <2> QED
      BY <2>2, <2>3
  <1> QED
    BY <1>3, <1>4, <1>5, <1>6 DEF HookInv, MemoryInv

(* With the whole log replayed, every durable label is in memory.          *)
LEMMA ReplayEndStep ==
    ASSUME HookInv, ReplayEnd
    PROVE  HookInv'
  <1>1. /\ hookProc = "replay" /\ pos = Len(file) /\ hookProc' = "up" /\ frag' = FALSE
        /\ seq' = seq /\ labels' = labels
        /\ UNCHANGED <<hasLog, now, pos, seen, dl, labelLock, file, copied, labelSnap, acked, shorts>>
    BY DEF ReplayEnd, store, hookBounds
  <1>2. dl = [d \in Deliveries |-> NotHandling] /\ labelLock = Nil /\ copied = Nil
    BY <1>1, AtRest
  <1>3. Scalars(now', hookProc', seq', pos', shorts')
    BY <1>1, Known DEF Scalars
  <1>4. /\ Handling(dl', labelLock', acked') /\ Lines(file') /\ Saved(labelSnap', acked')
        /\ Labelling(labels', seen', copied', dl', acked')
    BY <1>1 DEF HookInv, MemoryInv
  <1>5. Resting(hookProc', dl', labelLock', copied')
    BY <1>1 DEF Resting
  <1>6. ASSUME shorts' = 0
        PROVE  LogInv' /\ (hasLog' => DurableInv')
    <2>1. LogInv /\ (hasLog => DurableInv)
      BY <1>1, <1>6 DEF HookInv
    <2>2. Sound(file') /\ Holder(dl', labelLock', file', labelSnap')
      BY <2>1, <1>1 DEF LogInv
    <2>3. DOMAIN file = 1..pos
      BY <1>1, Known
    <2>4. /\ labelSnap.seq <= seq
          /\ \A i \in 1..pos : /\ file[i].seq <= seq
                               /\ file[i].seq > labelSnap.seq => Reflects(labels, file[i].event)
          /\ \A x \in Events : Reflects(labelSnap.labels, x) => Reflects(labels, x)
      BY <2>1, <1>1 DEF LogInv, Replaying
    <2>5. Numbering(hookProc', frag', seq', file', labelSnap')
      BY <2>3, <2>4, <1>1 DEF Numbering
    <2>6. Replaying(hookProc', pos', seq', labels', file', labelSnap')
      BY <1>1 DEF Replaying
    <2>7. ASSUME hasLog'
          PROVE  DurableInv'
      <3>1. DurableInv
        BY <2>1, <2>7, <1>1
      <3>2. \A x \in acked : Reflects(labels, x)
        <4> TAKE x \in acked
        <4>1. Durable(x, file, labelLock, labelSnap) /\ x \in Events
          BY <3>1, Known DEF DurableInv, AckedDurable
        <4>2. CASE Reflects(labelSnap.labels, x)
          BY <4>1, <4>2, <2>4
        <4>3. CASE InLog(x, file, labelLock, labelSnap)
          BY <4>3, <2>3, <2>4 DEF InLog
        <4> QED
          BY <4>1, <4>2, <4>3 DEF Durable
      <3>3. AckedHeld(hookProc', labels', acked')
        BY <3>2, <1>1 DEF AckedHeld
      <3> QED
        BY <3>1, <3>3, <1>1 DEF DurableInv
    <2> QED
      BY <2>2, <2>5, <2>6, <2>7 DEF LogInv
  <1> QED
    BY <1>3, <1>4, <1>5, <1>6 DEF HookInv, MemoryInv

LEMMA IdleStep ==
    ASSUME HookInv, Tick \/ UNCHANGED hookVars
    PROVE  HookInv'
  <1>1. /\ now' \in Int
        /\ UNCHANGED <<hasLog, hookProc, pos, seen, dl, labelLock, seq, labels, file, frag, copied,
                       labelSnap, acked, shorts>>
    BY Known DEF Tick, hookVars, store, hookBounds
  <1>2. Scalars(now', hookProc', seq', pos', shorts')
    BY <1>1, Known DEF Scalars
  <1>3. /\ Handling(dl', labelLock', acked') /\ Lines(file') /\ Saved(labelSnap', acked')
        /\ Labelling(labels', seen', copied', dl', acked')
        /\ Resting(hookProc', dl', labelLock', copied')
    BY <1>1 DEF HookInv, MemoryInv
  <1>4. shorts' = 0 => LogInv' /\ (hasLog' => DurableInv')
    BY <1>1 DEF HookInv, LogInv, DurableInv
  <1> QED
    BY <1>2, <1>3, <1>4 DEF HookInv, MemoryInv

LEMMA HookInitInv == HookInit => HookInv
  <1> SUFFICES ASSUME HookInit
               PROVE  HookInv
    OBVIOUS
  <1>1. /\ now = 0 /\ hookProc = "up" /\ pos = 0 /\ seen = <<>>
        /\ dl = [d \in Deliveries |-> NotHandling] /\ labelLock = Nil
        /\ seq = 0 /\ labels = NoLabels /\ file = <<>> /\ frag = FALSE /\ copied = Nil
        /\ labelSnap.seen = <<>> /\ labelSnap.seq = 0 /\ labelSnap.labels = NoLabels
        /\ acked = {} /\ shorts = 0
    BY DEF HookInit
  <1>2. Scalars(now, hookProc, seq, pos, shorts)
    BY <1>1 DEF Scalars
  <1>3. Handling(dl, labelLock, acked)
    BY <1>1, EmptyHandling
  <1>4. file \in Seq(Line) /\ DOMAIN file = {}
    BY <1>1
  <1>5. Lines(file) /\ Sound(file)
    BY <1>4 DEF Lines, Sound
  <1>6. Resting(hookProc, dl, labelLock, copied)
    BY <1>1 DEF Resting
  <1>7. Labelling(labels, seen, copied, dl, acked)
    BY <1>1, EmptyMemory
  <1>8. Saved(labelSnap, acked)
    <2>1. <<>> \in Seq(Entries(NoLabels, {}))
      OBVIOUS
    <2> QED
      BY <2>1, <1>1, NoLabelsWellFormed DEF Saved
  <1>9. LogInv
    BY <1>1, <1>4, <1>5 DEF LogInv, Numbering, Holder, Replaying
  <1>10. DurableInv
    <2>1. \A d \in Deliveries : dl[d].at = "idle"
      BY <1>1 DEF NotHandling
    <2> QED
      BY <2>1, <1>1 DEF DurableInv, AckedDurable, CommitDurable, AckedHeld
  <1> QED
    BY <1>2, <1>3, <1>5, <1>6, <1>7, <1>8, <1>9, <1>10 DEF HookInv, MemoryInv

LEMMA HookNextInv == HookInv /\ [HookNext]_hookVars => HookInv'
  <1> SUFFICES ASSUME HookInv, [HookNext]_hookVars
               PROVE  HookInv'
    OBVIOUS
  <1>1. ASSUME NEW d \in Deliveries, \E e \in Events : Deliver(d, e)
        PROVE  HookInv'
    BY <1>1, DeliverStep
  <1>2. ASSUME NEW d \in Deliveries, Recorded(d)
        PROVE  HookInv'
    BY <1>2, FailStep, IgnoredStep, InMemoryStep, AppendStep, SyncStep, SyncFailsStep DEF Recorded
  <1>3. ASSUME NEW d \in Deliveries, Commit(d)
        PROVE  HookInv'
    BY <1>3, CommitStep
  <1>4. CASE SnapshotDedupe \/ SnapshotLabels \/ CloseLabels
    BY <1>4, CopyStep, SnapshotStep, CloseStep
  <1>5. CASE Stop \/ NewLabels
    BY <1>5, StopStep, NewStep
  <1>6. CASE ReplayLine \/ ReplayFails \/ ReplayEnd
    BY <1>6, ReplayLineStep, ReplayFailsStep, ReplayEndStep
  <1>7. CASE Tick \/ UNCHANGED hookVars
    BY <1>7, IdleStep
  <1> QED
    BY <1>1, <1>2, <1>3, <1>4, <1>5, <1>6, <1>7 DEF HookNext

(* HookInv is an invariant of the webhook specification.                   *)
THEOREM HookInvariance == HookSpec => []HookInv
  <1> QED
    BY HookInitInv, HookNextInv, PTL DEF HookSpec

-----------------------------------------------------------------------------
(* Clearinghouse stops retrying at the first 2xx: whatever was redelivered,*)
(* reordered, evicted, refused, snapshotted or lost in a crash, at any     *)
(* point of Record, Snapshot or the replay, the label of an acknowledged   *)
(* event is in the store whenever the service serves, and the log can be   *)
(* replayed, as long as no write of the log stopped half way.              *)
THEOREM AckedLabelsSurvive == HookSpec => []AckedSurvive
  <1>1. HookInv => AckedSurvive
    <2> SUFFICES ASSUME HookInv, hasLog, shorts = 0, NEW e \in acked
                 PROVE  Survives(e)
      BY DEF AckedSurvive
    <2>1. Sound(file) /\ DurableInv
      BY DEF HookInv, LogInv
    <2>2. \A i \in DOMAIN file : file[i] # Corrupt
      <3>1. Corrupt.seq = 0
        BY DEF Corrupt
      <3> QED
        BY <3>1, <2>1 DEF Sound, Genuine
    <2>3. Serving => Reflects(labels, e)
      BY <2>1 DEF DurableInv, AckedHeld, Serving
    <2> QED
      BY <2>2, <2>3 DEF Survives, Replayable
  <1> QED
    BY <1>1, HookInvariance, PTL

(* The deduper never remembers an event as processed without its label,    *)
(* with a label log or without, and also right after a restart from a      *)
(* snapshot: the snapshot copies the deduper before the labels.            *)
THEOREM SeenAreLabelled == HookSpec => []SeenHasLabel
  <1>1. HookInv => SeenHasLabel
    <2> SUFFICES ASSUME HookInv, NEW i \in DOMAIN seen, seen[i].done
                 PROVE  Reflects(labels, seen[i].id)
      BY DEF SeenHasLabel
    <2>1. seen[i] \in Entries(labels, acked)
      BY Known
    <2> QED
      BY <2>1 DEF Entries
  <1> QED
    BY <1>1, HookInvariance, PTL
=============================================================================
