------------------------------- MODULE Joiner -------------------------------
(***************************************************************************)
(* The stage that turns parts into decisions (internal/stream/join.go).    *)
(* The router sends a payment's base part, whose mask says which entities' *)
(* features will follow; the aggregators send one entity part each; the    *)
(* joiner pairs them by payment and decides when the set is complete.      *)
(* Everything is sent at least once: a router sends again from its         *)
(* committed offset, also while its predecessor is still sending; an       *)
(* aggregator sends again from its checkpoint, with the same numbers and   *)
(* the same values, because its input order is fixed (RouteMerge,          *)
(* Checkpoint); the joiner itself restarts from its checkpoint and sends   *)
(* decisions again.                                                        *)
(*                                                                         *)
(* One parts partition; a payment is its number, in event-time order.      *)
(***************************************************************************)
EXTENDS Naturals, Sequences, FiniteSets

CONSTANTS Payments, Entities, Key, NoKey,
          Source,        \* payments partitions
          Of,            \* source -> its payments, in order
          Agg,           \* aggregator partitions
          AggOf,         \* key -> aggregator
          Released,      \* aggregator -> <<payment, entity>>, as its merger releases them
          None,
          MaxDisruptions,
          MaxLag         \* parts the joiner is behind by

VARIABLES
  sender,      \* <<source, instance>> -> how many of its payments it has sent
  aggNext,     \* aggregator -> how many of its outputs it has sent
  parts,       \* the parts partition
  next,        \* the joiner's position in it
  pending,     \* payment -> [base, have, values]
  lastSrc, lastAgg,      \* high-water marks of what was received
  saved,       \* the joiner's checkpoint
  decisions,   \* the decisions topic
  disruptions

joinVars == <<next, pending, lastSrc, lastAgg>>
vars == <<sender, aggNext, parts, joinVars, saved, decisions, disruptions>>

Mask(p) == {e \in Entities : Key[p][e] # NoKey}

(* What is sent to aggregator a: the entities of each payment that hash to *)
(* it.                                                                     *)
Owned(a) == {x \in Payments \X Entities : x[2] \in Mask(x[1]) /\ AggOf[Key[x[1]][x[2]]] = a}

(* A payment is written once.  A merger releases each event once, in event *)
(* time order (RouteMerge: AppliedOnce, AppliedInOrder).                   *)
ASSUME PaymentsAssumption ==
  /\ Payments \subseteq Nat
  /\ Of \in [Source -> Seq(Payments)]
  /\ \A s, t \in Source : \A i \in DOMAIN Of[s], j \in DOMAIN Of[t] :
       Of[s][i] = Of[t][j] => s = t /\ i = j
ASSUME ReleasedAssumption ==
  /\ Released \in [Agg -> Seq(Payments \X Entities)]
  /\ \A a \in Agg :
       /\ {Released[a][i] : i \in DOMAIN Released[a]} = Owned(a)
       /\ \A i, j \in DOMAIN Released[a] :
            /\ i # j => Released[a][i] # Released[a][j]
            /\ i < j => Released[a][i][1] <= Released[a][j][1]

(***************************************************************************)
(* The parts.  ScoreAndUpdateEntity reads the payments added to the key    *)
(* before.                                                                 *)
(***************************************************************************)
Base(s, n) == [kind |-> "base", src |-> s, offset |-> n, payment |-> Of[s][n], mask |-> Mask(Of[s][n])]

SameKey(x, y) == x[2] = y[2] /\ Key[x[1]][x[2]] = Key[y[1]][y[2]]

EntityPart(a, n) ==
  LET x == Released[a][n]
  IN  [kind |-> "entity", agg |-> a, seq |-> n, payment |-> x[1], entity |-> x[2],
       values |-> {Released[a][j][1] : j \in {j \in 1..(n - 1) : SameKey(Released[a][j], x)}}]

ASSUME NoneAssumption ==
  None \notin Nat /\ \A s \in Source : \A n \in DOMAIN Of[s] : None # Base(s, n)

Room == Len(parts) - next + 1 < MaxLag
Disrupt == disruptions < MaxDisruptions /\ disruptions' = disruptions + 1

(***************************************************************************)
(* Upstream.                                                               *)
(***************************************************************************)
SendBase(s, i) ==
  LET n == sender[<<s, i>>] + 1
  IN  /\ Room /\ sender[<<s, i>>] # None /\ n <= Len(Of[s])
      /\ parts' = Append(parts, Base(s, n))
      /\ sender' = [sender EXCEPT ![<<s, i>>] = n]
      /\ UNCHANGED <<aggNext, joinVars, saved, decisions, disruptions>>

(* A new router starts at the committed offset, which is any that the      *)
(* partition's last owner has passed; that one may go on sending.          *)
TakeOver(s) ==
  /\ Disrupt
  /\ \E old \in {None, sender[<<s, 2>>]}, from \in 0..sender[<<s, 2>>] :
       sender' = [sender EXCEPT ![<<s, 1>>] = old, ![<<s, 2>>] = from]
  /\ UNCHANGED <<aggNext, parts, joinVars, saved, decisions>>

SendEntity(a) ==
  /\ Room /\ aggNext[a] < Len(Released[a])
  /\ parts' = Append(parts, EntityPart(a, aggNext[a] + 1))
  /\ aggNext' = [aggNext EXCEPT ![a] = @ + 1]
  /\ UNCHANGED <<sender, joinVars, saved, decisions, disruptions>>

(* Its checkpoint is any earlier point.                                    *)
RestartAgg(a) ==
  /\ Disrupt
  /\ \E from \in 0..(aggNext[a] - 1) : aggNext' = [aggNext EXCEPT ![a] = from]
  /\ UNCHANGED <<sender, parts, joinVars, saved, decisions>>

(***************************************************************************)
(* The joiner.                                                             *)
(***************************************************************************)
NewJoin == [base |-> None, have |-> {}, values |-> [e \in Entities |-> {}]]
JoinOf(p) == IF p \in DOMAIN pending THEN pending[p] ELSE NewJoin

CompleteSubset(j) == j.base # None /\ j.base.mask \cap j.have # {}
Complete(j) == j.base # None /\ j.have = j.base.mask

DuplicateEntityOnly(r) == r.kind = "entity" /\ r.seq <= lastAgg[r.agg]
Duplicate(r) == IF r.kind = "base" THEN r.offset <= lastSrc[r.src] ELSE r.seq <= lastAgg[r.agg]

With(j, r) ==
  IF r.kind = "base" THEN [j EXCEPT !.base = r]
  ELSE [j EXCEPT !.have = @ \cup {r.entity}, !.values[r.entity] = r.values]

(* decide: the row's slots of an entity outside the mask are missing.      *)
Missing == {0}
Decision(j) ==
  [payment |-> j.base.payment,
   features |-> [e \in Entities |-> IF e \in j.base.mask THEN j.values[e] ELSE Missing]]

PutJoin(f, p, j) == [q \in DOMAIN f \cup {p} |-> IF q = p THEN j ELSE f[q]]
Removed(f, p) == [q \in DOMAIN f \ {p} |-> f[q]]

Handle ==
  /\ next <= Len(parts)
  /\ next' = next + 1
  /\ LET r == parts[next]
         j == With(JoinOf(r.payment), r)
     IN  IF Duplicate(r)
         THEN UNCHANGED <<pending, lastSrc, lastAgg, decisions>>
         ELSE /\ lastSrc' = IF r.kind = "base" THEN [lastSrc EXCEPT ![r.src] = r.offset] ELSE lastSrc
              /\ lastAgg' = IF r.kind = "base" THEN lastAgg ELSE [lastAgg EXCEPT ![r.agg] = r.seq]
              /\ IF Complete(j)
                 THEN /\ pending' = Removed(pending, r.payment)
                      /\ decisions' = Append(decisions, Decision(j))
                 ELSE /\ pending' = PutJoin(pending, r.payment, j)
                      /\ UNCHANGED decisions
  /\ UNCHANGED <<sender, aggNext, parts, saved, disruptions>>

(* snapshot and restore, between two records.                              *)
Snapshot == [next |-> next, pending |-> pending, lastSrc |-> lastSrc, lastAgg |-> lastAgg]

Checkpoint ==
  /\ saved.next # next
  /\ saved' = Snapshot
  /\ UNCHANGED <<sender, aggNext, parts, joinVars, decisions, disruptions>>

Restart ==
  /\ Disrupt /\ saved.next # next
  /\ next' = saved.next /\ pending' = saved.pending
  /\ lastSrc' = saved.lastSrc /\ lastAgg' = saved.lastAgg
  /\ UNCHANGED <<sender, aggNext, parts, saved, decisions>>

Init ==
  /\ sender = [si \in Source \X {1, 2} |-> IF si[2] = 1 THEN None ELSE 0]
  /\ aggNext = [a \in Agg |-> 0]
  /\ parts = << >> /\ next = 1 /\ pending = << >>
  /\ lastSrc = [s \in Source |-> 0] /\ lastAgg = [a \in Agg |-> 0]
  /\ saved = [next |-> 1, pending |-> << >>, lastSrc |-> lastSrc, lastAgg |-> lastAgg]
  /\ decisions = << >> /\ disruptions = 0

Next ==
  \/ \E s \in Source : TakeOver(s) \/ \E i \in {1, 2} : SendBase(s, i)
  \/ \E a \in Agg : SendEntity(a) \/ RestartAgg(a)
  \/ Handle \/ Checkpoint \/ Restart

(* The members that hold a partition poll, send and handle; disruptions    *)
(* are finitely many.                                                      *)
Spec == /\ Init /\ [][Next]_vars
        /\ \A s \in Source : WF_vars(SendBase(s, 2))
        /\ \A a \in Agg : WF_vars(SendEntity(a))
        /\ WF_vars(Handle)

-----------------------------------------------------------------------------
(* Every payment is decided, always with the decision of the sequential    *)
(* engine: what is sent again never pairs a part with the wrong payment,   *)
(* loses one or changes a decision.                                        *)
Decided == [p \in Payments |-> {decisions[i] : i \in {i \in DOMAIN decisions : decisions[i].payment = p}}]
Sequential == INSTANCE Scoring WITH decided <- Decided
DecidesSequentially == Sequential!Spec

(* Nothing waits for parts that were already used: what is sent again      *)
(* never opens a join that no part will complete, so pending is bounded by *)
(* the payments in progress.                                               *)
Received(p) == {j \in 1..(next - 1) : parts[j].payment = p}
NoLeftovers ==
  \A p \in DOMAIN pending :
    LET rs == {parts[j] : j \in Received(p)}
    IN  ~\E b \in rs : b.kind = "base" /\ b.mask \subseteq {r.entity : r \in rs \ {b}}
=============================================================================
