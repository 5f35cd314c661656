-------------------------- MODULE RouteMergeProofs --------------------------
(***************************************************************************)
(* Proofs that the merger's invariants hold for any number of sources,     *)
(* entities, aggregator partitions and router instances, any routing, any  *)
(* payments logs and any number of crashes, takeovers and resends.         *)
(***************************************************************************)
EXTENDS RouteMerge, FiniteSetTheorems, TLAPS

(* A record with a routed key is a payment, at a position after MinPos. *)
RecordsOK ==
    \A s \in Source : \A o \in 1..Len(payments[s]) :
        (\E e \in Entity : payments[s][o].to[e] # None) =>
            payments[s][o].kind = "payment" /\ payments[s][o].pos > 0

(* A payment is later than every record before it in its partition. *)
PaymentsOrdered ==
    InOrder => \A s \in Source : \A i, j \in 1..Len(payments[s]) :
        i < j /\ payments[s][j].kind = "payment" => payments[s][i].pos < payments[s][j].pos

(* The event of mark mk is among the first n records of partition a. *)
Logged(a, n, s, mk) == \E i \in 1..n : events[a][i] = EventOf(s, mk)

IsEventOf(a, i) ==
    LET e == events[a][i] IN
    /\ MarkOf(e) \in AllOwed(e.src, a)
    /\ e = EventOf(e.src, MarkOf(e))

(* Every logged event is one its partition owes. *)
LogGenuine ==
    \A a \in Agg : \A i \in 1..Len(events[a]) :
        events[a][i].kind = "event" => IsEventOf(a, i)

(* Before a logged event come all earlier events of its source. *)
LogClosed ==
    \A a \in Agg : \A i \in 1..Len(events[a]) :
        events[a][i].kind = "event" =>
            \A mk \in AllOwed(events[a][i].src, a) :
                After(MarkOf(events[a][i]), mk) => Logged(a, i - 1, events[a][i].src, mk)

(* A logged watermark is true: every event of its source at or before it,  *)
(* the ones not yet produced included, comes before it in the log.         *)
WatermarkTrue ==
    InOrder => \A a \in Agg : \A i \in 1..Len(events[a]) :
        events[a][i].kind = "watermark" =>
            /\ \/ events[a][i].pos = 0
               \/ \E o \in 1..Len(payments[events[a][i].src]) :
                      payments[events[a][i].src][o].pos = events[a][i].pos
            /\ \A mk \in AllOwed(events[a][i].src, a) :
                 payments[events[a][i].src][mk.offset].pos <= events[a][i].pos
                    => Logged(a, i - 1, events[a][i].src, mk)

(* What is committed is in the logs. *)
CommittedLogged ==
    \A s \in Source :
        /\ committed[s] \in 1..(Len(payments[s]) + 1)
        /\ \A a \in Agg : \A mk \in AllOwed(s, a) :
             mk.offset < committed[s] => Logged(a, Len(events[a]), s, mk)

(* What a router instance has handled is in the logs or still unsent. *)
GoodRouter(me) ==
    /\ me.next \in 1..(Len(payments[me.src]) + 1)
    /\ me.phase # "send" => \A a \in Agg : me.unsent[a] = {}
    /\ me.phase = "tail" => me.sent = me.last
    /\ me.last = 0 \/ \E o \in 1..(me.next - 1) : payments[me.src][o].pos = me.last
    /\ \A a \in Agg :
         /\ me.unsent[a] \subseteq Owed(me.src, a, 1, me.next - 1)
         /\ \A mk \in AllOwed(me.src, a) :
              mk.offset < me.next => Logged(a, Len(events[a]), me.src, mk) \/ mk \in me.unsent[a]

RouterOK ==
    \A r \in Router : IF router[r].src = None THEN router[r].phase = "poll"
                      ELSE GoodRouter(router[r])

(* A merger stands for the records of its log it has handled. *)
GoodMerger(me, log) ==
    /\ me.next \in 1..(Len(log) + 1)
    /\ \A i \in 1..(me.next - 1) : log[i].kind = "event" =>
         /\ ~After(MarkOf(log[i]), me.m.recv[log[i].src])
         /\ log[i] \in AppliedBy(me) \cup me.m.buf
    /\ \A ev \in AppliedBy(me) \cup me.m.buf : \E i \in 1..(me.next - 1) : log[i] = ev
    /\ \A s \in Source :
         /\ \/ me.m.recv[s] = [offset |-> 0, entity |-> 0]
            \/ \E i \in 1..(me.next - 1) :
                   log[i].kind = "event" /\ log[i].src = s /\ MarkOf(log[i]) = me.m.recv[s]
         /\ \/ me.m.wm[s] = 0
            \/ \E i \in 1..(me.next - 1) :
                   log[i] = [kind |-> "watermark", src |-> s, pos |-> me.m.wm[s]]

MergerOK == \A a \in Agg : GoodMerger(agg[a], events[a])

(* With producers in order, what is applied is behind the release frontier *)
(* and what is held is ahead of it.                                        *)
GoodFrontier(me) ==
    /\ AtOrBeforeLow(me.m, me.m.last.pos)
    /\ \A ev \in me.m.buf : Less(me.m.last, KeyOf(ev))
    /\ \A ev \in AppliedBy(me) : ~Less(me.m.last, KeyOf(ev))

FrontierOK == InOrder => \A a \in Agg : GoodFrontier(agg[a])

IInv ==
    /\ TypeOK
    /\ RecordsOK
    /\ PaymentsOrdered
    /\ LogGenuine
    /\ LogClosed
    /\ WatermarkTrue
    /\ CommittedLogged
    /\ RouterOK
    /\ MergerOK
    /\ FrontierOK
    /\ AppliedOnce
    /\ NoLateEvent
    /\ AppliedInOrder

-----------------------------------------------------------------------------
(* Types *)

(* A mark that is owed is a mark. *)
LEMMA OwedAreMarks ==
    ASSUME NEW s, NEW a, NEW lo \in Nat, NEW hi \in Nat
    PROVE  Owed(s, a, lo, hi) \subseteq Mark
BY NumAssumption DEF Owed, Mark, Entity

(* The event of a mark within its log is an event. *)
LEMMA EventOfType ==
    ASSUME TypeOK, NEW s \in Source, NEW mk \in [offset : 1..Len(payments[s]), entity : Entity]
    PROVE  EventOf(s, mk) \in Event
<1>1. payments[s] \in Seq(Record) BY DEF TypeOK
<1>2. payments[s][mk.offset] \in Record BY <1>1
<1> QED BY <1>2 DEF EventOf, Event, Record

(* The merger's operations preserve its type. *)
LEMMA NewMergerType == NewMerger \in MergerState
BY DEF NewMerger, MergerState, ReleaseKey, Mark, Pos, MinPos

LEMMA ReceiveType ==
    ASSUME NEW m \in MergerState, NEW ev \in Event
    PROVE  Receive(m, ev) \in MergerState
<1>1. MarkOf(ev) \in Mark BY NumAssumption DEF MarkOf, Event, Mark, Entity
<1>2. [m.recv EXCEPT ![ev.src] = MarkOf(ev)] \in [Source -> Mark]
    BY <1>1 DEF MergerState
<1>3. Receive(m, ev) = [m EXCEPT !.recv = [m.recv EXCEPT ![ev.src] = MarkOf(ev)]]
    BY DEF Receive
<1> QED BY <1>2, <1>3 DEF MergerState

LEMMA AddType ==
    ASSUME NEW m \in MergerState, NEW ev \in Event
    PROVE  Add(m, ev) \in MergerState
<1> DEFINE n == Receive(m, ev)
<1>1. n \in MergerState BY ReceiveType
<1>2. [n EXCEPT !.late = @ + 1] \in MergerState
    BY <1>1 DEF MergerState
<1>3. n.buf \cup {ev} \in SUBSET Event
    BY <1>1 DEF MergerState
<1>4. [n EXCEPT !.buf = @ \cup {ev}] \in MergerState
    BY <1>1, <1>3 DEF MergerState
<1>5. [m EXCEPT !.dups = @ + 1] \in MergerState
    BY DEF MergerState
<1> QED BY <1>2, <1>4, <1>5 DEF Add

LEMMA AdvanceWatermarkType ==
    ASSUME NEW m \in MergerState, NEW w \in Watermark
    PROVE  AdvanceWatermark(m, w) \in MergerState
BY DEF AdvanceWatermark, MergerState, Watermark

LEMMA PopType ==
    ASSUME NEW m \in MergerState, NEW ev \in m.buf
    PROVE  Pop(m, ev) \in MergerState
<1>1. ev \in Event BY DEF MergerState
<1>2. KeyOf(ev) \in ReleaseKey
    BY <1>1, NumAssumption DEF KeyOf, Event, ReleaseKey, Source, Entity
<1> QED BY <1>2 DEF Pop, MergerState

LEMMA NewRouterType ==
    ASSUME NEW s \in Source \cup {None}, NEW n \in Nat \ {0}
    PROVE  NewRouter(s, n) \in RouterState
BY DEF NewRouter, RouterState, Pos, MinPos

LEMMA FreeRouterType == NewRouter(None, 1) \in RouterState
BY DEF NewRouter, RouterState, Pos, MinPos

(* Names for the groups of actions that leave most of the state alone. *)
ProduceNext == \E s \in Source : Produce(s)
RouterNext ==
    \/ \E r \in Router, s \in Source : Assign(r, s)
    \/ \E r \in Router : RouteBatch(r) \/ Flushed(r) \/ Commit(r) \/ Crash(r) \/ Revoked(r) \/ Lost(r)
SendNext == \E r \in Router, a \in Agg : SendEvent(r, a) \/ SendWatermark(r, a)
AggNext == \E a \in Agg : AggWork(a)

LEMMA NextCases ==
    ASSUME [Next]_vars
    PROVE  ProduceNext \/ RouterNext \/ SendNext \/ AggNext \/ UNCHANGED vars
BY DEF Next, ProduceNext, RouterNext, SendNext, AggNext, RouterWork

LEMMA WriteType ==
    ASSUME TypeOK, NEW s \in Source, NEW rec \in Record, Write(s, rec)
    PROVE  TypeOK'
<1>1. payments' \in [Source -> Seq(Record)]
    BY DEF TypeOK, Write
<1> QED BY <1>1 DEF TypeOK, Write

LEMMA NoRouteType == NoRoute \in [Entity -> Agg \cup {None}]
BY DEF NoRoute

LEMMA ProduceType ==
    ASSUME TypeOK, ProduceNext
    PROVE  TypeOK'
<1>1. PICK s \in Source : Produce(s) BY DEF ProduceNext
<1>2. CASE ProducePayment(s)
    <2>1. PICK p \in 1..PosBound, to \in Routes :
              Write(s, [kind |-> "payment", pos |-> p, to |-> to])
        BY <1>2 DEF ProducePayment
    <2>2. [kind |-> "payment", pos |-> p, to |-> to] \in Record
        BY RoutesAssumption, BoundAssumption DEF Record, Pos
    <2> QED BY <2>1, <2>2, WriteType
<1>3. CASE ProduceHeartbeat(s)
    <2>1. PICK p \in 1..PosBound : Write(s, [kind |-> "heartbeat", pos |-> p, to |-> NoRoute])
        BY <1>3 DEF ProduceHeartbeat
    <2>2. [kind |-> "heartbeat", pos |-> p, to |-> NoRoute] \in Record
        BY NoRouteType, BoundAssumption DEF Record, Pos
    <2> QED BY <2>1, <2>2, WriteType
<1>4. CASE ProduceUndecodable(s)
    <2>1. [kind |-> "undecodable", pos |-> MinPos, to |-> NoRoute] \in Record
        BY NoRouteType DEF Record, Pos, MinPos
    <2> QED BY <1>4, <2>1, WriteType DEF ProduceUndecodable
<1> QED BY <1>1, <1>2, <1>3, <1>4 DEF Produce

LEMMA RouteBatchType ==
    ASSUME TypeOK, NEW r \in Router, RouteBatch(r)
    PROVE  TypeOK'
<1> DEFINE me == router[r]
<1>1. me \in RouterState /\ me.src \in Source
    BY DEF TypeOK, RouteBatch, RouterState
<1> DEFINE O(hi) == OutOfOrder(me.src, me.last, me.next, hi)
<1>2. PICK hi \in me.next..Len(payments[me.src]) :
          /\ \E p \in Seen(me.src, me.last, me.next, hi) :
                router' = [router EXCEPT ![r] =
                  [@ EXCEPT !.next = hi + 1, !.last = p, !.phase = "send",
                            !.unsent = [a \in Agg |-> Owed(me.src, a, me.next, hi)]]]
          /\ violations' = violations + Cardinality(O(hi))
    BY DEF RouteBatch
<1> DEFINE un == [a \in Agg |-> Owed(me.src, a, me.next, hi)]
<1>3. PICK p \in Seen(me.src, me.last, me.next, hi) :
          router' = [router EXCEPT ![r] =
            [@ EXCEPT !.next = hi + 1, !.last = p, !.phase = "send", !.unsent = un]]
    BY <1>2
<1>4. /\ payments[me.src] \in Seq(Record)
      /\ me.next \in Nat \ {0}
      /\ Len(payments[me.src]) \in Nat
      /\ hi \in Nat
      /\ hi <= Len(payments[me.src])
    <2>1. payments[me.src] \in Seq(Record) BY <1>1 DEF TypeOK
    <2>2. Len(payments[me.src]) \in Nat BY <2>1
    <2>3. me.next \in Nat \ {0} BY <1>1 DEF RouterState
    <2> QED BY <2>1, <2>2, <2>3
<1>5. p \in Pos
    <2>1. me.last \in Pos BY <1>1 DEF RouterState
    <2>2. \A i \in me.next..hi : payments[me.src][i].pos \in Pos
        <3>1. SUFFICES ASSUME NEW i \in me.next..hi PROVE payments[me.src][i] \in Record
            BY DEF Record
        <3>2. i \in 1..Len(payments[me.src])
            BY <1>4
        <3> QED BY <1>4, <3>2
    <2> QED BY <1>3, <2>1, <2>2 DEF Seen
<1>6. router' \in [Router -> RouterState]
    <2>1. un \in [Agg -> SUBSET Mark]
        BY <1>4, OwedAreMarks
    <2>2. hi + 1 \in Nat \ {0}
        BY <1>4
    <2>3. [me EXCEPT !.next = hi + 1, !.last = p, !.phase = "send", !.unsent = un] \in RouterState
        BY <1>1, <1>5, <2>1, <2>2 DEF RouterState
    <2> QED BY <1>3, <2>3 DEF TypeOK
<1>7. violations' \in Nat
    <2> HIDE DEF me
    <2>1. IsFiniteSet(me.next..hi)
        <3>1. me.next \in Int /\ hi \in Int BY <1>4
        <3> QED BY <3>1, FS_Interval
    <2>2. O(hi) \subseteq me.next..hi BY DEF OutOfOrder
    <2>3. Cardinality(O(hi)) \in Nat BY <2>1, <2>2, FS_Subset, FS_CardinalityType
    <2> QED BY <1>2, <2>3 DEF TypeOK
<1> QED BY <1>6, <1>7 DEF TypeOK, RouteBatch

LEMMA RouterType ==
    ASSUME TypeOK, RouterNext
    PROVE  TypeOK'
<1> USE DEF TypeOK
<1>1. ASSUME NEW r \in Router, NEW s \in Source, Assign(r, s)
      PROVE  TypeOK'
    <2>1. NewRouter(s, committed[s]) \in RouterState BY NewRouterType
    <2> QED BY <1>1, <2>1 DEF Assign, Disrupt
<1>2. ASSUME NEW r \in Router, RouteBatch(r)
      PROVE  TypeOK'
    BY <1>2, RouteBatchType
<1>3. ASSUME NEW r \in Router, Flushed(r)
      PROVE  TypeOK'
    <2> DEFINE t == IF router[r].sent < router[r].last THEN Agg ELSE {}
    <2>1. [router[r] EXCEPT !.sent = router[r].last, !.phase = "tail", !.tail = t] \in RouterState
        <3> HIDE DEF t
        <3>1. t \in SUBSET Agg BY DEF t
        <3> QED BY <3>1 DEF RouterState
    <2>2. router' = [router EXCEPT ![r] =
              [@ EXCEPT !.sent = router[r].last, !.phase = "tail", !.tail = t]]
        BY <1>3 DEF Flushed
    <2> QED BY <1>3, <2>1, <2>2 DEF Flushed
<1>4. ASSUME NEW r \in Router, Commit(r)
      PROVE  TypeOK'
    <2>1. NewRouter(None, 1) \in RouterState BY FreeRouterType
    <2>2. [router[r] EXCEPT !.phase = "poll"] \in RouterState BY DEF RouterState
    <2>3. router[r].next \in Nat \ {0} BY DEF RouterState
    <2>4. CASE owner[router[r].src] = r
        <3>1. router' = [router EXCEPT ![r] = [router[r] EXCEPT !.phase = "poll"]]
            BY <1>4, <2>4 DEF Commit
        <3>2. router' \in [Router -> RouterState]
            BY <2>2, <3>1
        <3>3. committed' \in [Source -> Nat \ {0}]
            BY <1>4, <2>3, <2>4 DEF Commit
        <3> QED BY <1>4, <3>2, <3>3 DEF Commit
    <2>5. CASE owner[router[r].src] # r
        BY <1>4, <2>1, <2>5 DEF Commit
    <2> QED BY <2>4, <2>5
<1>5. ASSUME NEW r \in Router, Crash(r) \/ Revoked(r) \/ Lost(r)
      PROVE  TypeOK'
    <2>1. NewRouter(None, 1) \in RouterState BY FreeRouterType
    <2>2. router' \in [Router -> RouterState]
        BY <1>5, <2>1 DEF Crash, Revoked, Lost
    <2>3. owner' \in [Source -> Router \cup {None}]
        BY <1>5 DEF Crash, Revoked, Lost
    <2>4. disruptions' \in Nat
        BY <1>5 DEF Crash, Revoked, Lost, Disrupt
    <2> QED BY <1>5, <2>2, <2>3, <2>4 DEF Crash, Revoked, Lost
<1> QED BY <1>1, <1>2, <1>3, <1>4, <1>5 DEF RouterNext

LEMMA OwnType ==
    ASSUME TypeOK, NEW r \in Router, NEW s, s = router[r].src, s # None
    PROVE  s \in Source
BY DEF TypeOK, RouterState

LEMMA SendEventType ==
    ASSUME TypeOK, IInv, NEW r \in Router, NEW a \in Agg, SendEvent(r, a)
    PROVE  TypeOK'
<1> DEFINE me == router[r]
<1> USE DEF TypeOK
<1>1. PICK mk \in me.unsent[a] :
          /\ events' = [events EXCEPT ![a] = Append(@, EventOf(me.src, mk))]
          /\ router' = [router EXCEPT ![r].unsent[a] = @ \ {mk}]
    BY DEF SendEvent
<1>2. me \in RouterState
    OBVIOUS
<1>3. router' \in [Router -> RouterState]
    <2>1. [me.unsent EXCEPT ![a] = @ \ {mk}] \in [Agg -> SUBSET Mark]
        BY <1>2 DEF RouterState
    <2>2. [me EXCEPT !.unsent = [me.unsent EXCEPT ![a] = @ \ {mk}]] \in RouterState
        BY <1>2, <2>1 DEF RouterState
    <2>3. router' = [router EXCEPT ![r] = [me EXCEPT !.unsent = [me.unsent EXCEPT ![a] = @ \ {mk}]]]
        BY <1>1
    <2> QED BY <2>2, <2>3
<1>4. me.src \in Source /\ mk \in [offset : 1..Len(payments[me.src]), entity : Entity]
    <2>1. me.src # None BY DEF SendEvent, IInv, RouterOK
    <2>2. me.src \in Source BY <1>2, <2>1 DEF RouterState
    <2>3. mk \in Owed(me.src, a, 1, me.next - 1) /\ me.next \in 1..(Len(payments[me.src]) + 1)
        BY <2>1 DEF IInv, RouterOK, GoodRouter
    <2>4. Len(payments[me.src]) \in Nat BY <2>2
    <2> QED BY <2>2, <2>3, <2>4 DEF Owed
<1>5. EventOf(me.src, mk) \in Event BY <1>4, EventOfType
<1>6. events' \in [Agg -> Seq(Event \cup Watermark)]
    BY <1>1, <1>5
<1> QED BY <1>3, <1>6 DEF SendEvent

LEMMA SendWatermarkType ==
    ASSUME TypeOK, IInv, NEW r \in Router, NEW a \in Agg, SendWatermark(r, a)
    PROVE  TypeOK'
<1> DEFINE me == router[r]
           w == [kind |-> "watermark", src |-> me.src, pos |-> me.sent]
<1> USE DEF TypeOK
<1>1. me \in RouterState
    OBVIOUS
<1>2. w \in Watermark
    <2>1. me.src # None BY DEF SendWatermark, IInv, RouterOK
    <2> QED BY <1>1, <2>1 DEF RouterState, Watermark
<1>3. events' \in [Agg -> Seq(Event \cup Watermark)]
    BY <1>2 DEF SendWatermark
<1>4. router' \in [Router -> RouterState]
    <2>1. [me EXCEPT !.tail = @ \ {a}] \in RouterState
        BY <1>1 DEF RouterState
    <2> QED BY <2>1 DEF SendWatermark
<1> QED BY <1>3, <1>4 DEF SendWatermark

LEMMA AggType ==
    ASSUME TypeOK, NEW a \in Agg, AggWork(a)
    PROVE  TypeOK'
<1> DEFINE me == agg[a]
<1> USE DEF TypeOK
<1>1. me \in AggState
    OBVIOUS
<1>2. CASE HandleRecord(a)
    <2> DEFINE rec == events[a][me.next]
               m2 == IF rec.kind = "watermark" THEN AdvanceWatermark(me.m, rec) ELSE Add(me.m, rec)
               ap == IF rec.kind = "event" /\ IsLate(me.m, rec) THEN Append(me.applied, rec) ELSE me.applied
    <2>1. rec \in Event \cup Watermark
        BY <1>1, <1>2 DEF HandleRecord, AggState
    <2>2. rec.kind = "watermark" => rec \in Watermark
        BY <2>1 DEF Event
    <2>3. rec.kind # "watermark" => rec \in Event
        BY <2>1 DEF Watermark
    <2>4. me.m \in MergerState /\ me.applied \in Seq(Event) /\ me.next \in Nat \ {0}
        BY <1>1 DEF AggState
    <2> HIDE DEF rec
    <2>5. m2 \in MergerState
        BY <2>2, <2>3, <2>4, AddType, AdvanceWatermarkType
    <2>6. ap \in Seq(Event)
        BY <2>1, <2>3, <2>4
    <2> HIDE DEF m2, ap
    <2>7. [m |-> m2, next |-> me.next + 1, applied |-> ap] \in AggState
        BY <2>4, <2>5, <2>6 DEF AggState
    <2>8. agg' = [agg EXCEPT ![a] = [m |-> m2, next |-> me.next + 1, applied |-> ap]]
        BY <1>2 DEF HandleRecord, rec, m2, ap
    <2>9. agg' \in [Agg -> AggState]
        BY <2>7, <2>8
    <2> QED BY <1>2, <2>9 DEF HandleRecord
<1>3. CASE Release(a)
    <2>1. PICK ev \in me.m.buf : agg' = [agg EXCEPT ![a] =
              [m |-> Pop(me.m, ev), next |-> me.next, applied |-> Append(me.applied, ev)]]
        BY <1>3 DEF Release
    <2>2. me.m \in MergerState /\ me.applied \in Seq(Event) /\ ev \in Event /\ me.next \in Nat \ {0}
        BY <1>1 DEF AggState, MergerState
    <2>3. Pop(me.m, ev) \in MergerState /\ Append(me.applied, ev) \in Seq(Event)
        BY <2>2, PopType
    <2>4. [m |-> Pop(me.m, ev), next |-> me.next, applied |-> Append(me.applied, ev)] \in AggState
        BY <2>2, <2>3 DEF AggState
    <2>5. agg' \in [Agg -> AggState]
        BY <2>1, <2>4
    <2> QED BY <1>3, <2>5 DEF Release
<1> QED BY <1>2, <1>3 DEF AggWork

-----------------------------------------------------------------------------
(* Producing: the logs of events do not change, and what the new payment   *)
(* owes is later than every promise.                                       *)

LEMMA WriteFacts ==
    ASSUME TypeOK, NEW s \in Source, NEW rec \in Record, Write(s, rec)
    PROVE  /\ TypeOK'
           /\ \A q \in Source :
                /\ Len(payments[q]) \in Nat
                /\ Len(payments'[q]) = IF q = s THEN Len(payments[q]) + 1 ELSE Len(payments[q])
                /\ \A o \in 1..Len(payments[q]) : payments'[q][o] = payments[q][o]
           /\ payments'[s][Len(payments[s]) + 1] = rec
<1>1. TypeOK' BY WriteType
<1>2. payments' = [payments EXCEPT ![s] = Append(@, rec)] BY DEF Write
<1>3. payments \in [Source -> Seq(Record)] BY DEF TypeOK
<1> QED BY <1>1, <1>2, <1>3

(* A mark is either owed already or of the new record. *)
LEMMA WriteOwed ==
    ASSUME TypeOK, NEW s \in Source, NEW rec \in Record, Write(s, rec),
           NEW q \in Source, NEW a \in Agg
    PROVE  /\ AllOwed(q, a) \subseteq AllOwed(q, a)'
           /\ \A mk \in AllOwed(q, a)' :
                mk \notin AllOwed(q, a) =>
                    q = s /\ mk.offset = Len(payments[s]) + 1 /\ rec.to[mk.entity] = a
           /\ \A mk \in AllOwed(q, a) : EventOf(q, mk)' = EventOf(q, mk)
           /\ \A n \in Nat : \A mk \in AllOwed(q, a) :
                Logged(a, n, q, mk) <=> Logged(a, n, q, mk)'
<1>1. \A mk \in [offset : 1..Len(payments[q]), entity : Entity] :
          payments'[q][mk.offset] = payments[q][mk.offset]
    BY WriteFacts
<1>2. Len(payments'[q]) \in {Len(payments[q]), Len(payments[q]) + 1} /\ Len(payments[q]) \in Nat
    BY WriteFacts
<1>3. AllOwed(q, a) \subseteq AllOwed(q, a)'
    BY <1>1, <1>2 DEF AllOwed, Owed
<1>4. ASSUME NEW mk \in AllOwed(q, a)', mk \notin AllOwed(q, a)
      PROVE  q = s /\ mk.offset = Len(payments[s]) + 1 /\ rec.to[mk.entity] = a
    <2>1. mk.offset \in 1..Len(payments'[q]) /\ mk.entity \in Entity /\ payments'[q][mk.offset].to[mk.entity] = a
          /\ mk = [offset |-> mk.offset, entity |-> mk.entity]
        BY <1>4 DEF AllOwed, Owed
    <2>2. mk.offset \notin 1..Len(payments[q])
        <3>1. SUFFICES ASSUME mk.offset \in 1..Len(payments[q]) PROVE mk \in AllOwed(q, a)
            BY <1>4
        <3> QED BY <2>1, <3>1, <1>1 DEF AllOwed, Owed
    <2> QED BY <1>2, <2>1, <2>2, WriteFacts
<1>5. \A mk \in AllOwed(q, a) : EventOf(q, mk)' = EventOf(q, mk)
    BY <1>1 DEF AllOwed, Owed, EventOf
<1>6. \A n \in Nat : \A mk \in AllOwed(q, a) : Logged(a, n, q, mk) <=> Logged(a, n, q, mk)'
    BY <1>5 DEF Logged, Write
<1> QED BY <1>3, <1>4, <1>5, <1>6

(* The merger's invariants read only the event logs and the aggregators. *)
LEMMA MergerPartStable ==
    ASSUME IInv, UNCHANGED <<events, agg>>
    PROVE  MergerOK' /\ FrontierOK' /\ AppliedOnce' /\ NoLateEvent' /\ AppliedInOrder'
<1>1. MergerOK' BY DEF IInv, MergerOK
<1>2. FrontierOK' BY DEF IInv, FrontierOK
<1>3. AppliedOnce' BY DEF IInv, AppliedOnce, AppliedTo
<1>4. NoLateEvent' BY DEF IInv, NoLateEvent
<1>5. AppliedInOrder' BY DEF IInv, AppliedInOrder
<1> QED BY <1>1, <1>2, <1>3, <1>4, <1>5

LEMMA WriteInv ==
    ASSUME IInv, NEW s \in Source, NEW rec \in Record, Write(s, rec),
           (\E e \in Entity : rec.to[e] # None) => rec.kind = "payment" /\ rec.pos > 0,
           InOrder /\ rec.kind = "payment" =>
               \A i \in 1..Len(payments[s]) : payments[s][i].pos < rec.pos
    PROVE  IInv'
<1>1. TypeOK /\ TypeOK' BY WriteFacts DEF IInv
<1>2. UNCHANGED <<events, committed, owner, router, agg>> BY DEF Write
<1>a. /\ \A q \in Source :
           /\ Len(payments[q]) \in Nat
           /\ Len(payments'[q]) = IF q = s THEN Len(payments[q]) + 1 ELSE Len(payments[q])
           /\ \A o \in 1..Len(payments[q]) : payments'[q][o] = payments[q][o]
      /\ payments'[s][Len(payments[s]) + 1] = rec
    BY <1>1, WriteFacts
<1>b. \A q \in Source, a \in Agg :
          /\ AllOwed(q, a) \subseteq AllOwed(q, a)'
          /\ \A mk \in AllOwed(q, a)' :
               mk \notin AllOwed(q, a) =>
                   q = s /\ mk.offset = Len(payments[s]) + 1 /\ rec.to[mk.entity] = a
          /\ \A mk \in AllOwed(q, a) : EventOf(q, mk)' = EventOf(q, mk)
          /\ \A n \in Nat : \A mk \in AllOwed(q, a) : Logged(a, n, q, mk) <=> Logged(a, n, q, mk)'
    BY <1>1, WriteOwed
<1>3. \A a \in Agg : \A i \in 1..Len(events[a]) :
          /\ events[a][i].src \in Source /\ events[a][i].pos \in Nat
          /\ i \in Nat /\ i - 1 \in Nat
    <2>1. ASSUME NEW a \in Agg, NEW i \in 1..Len(events[a])
          PROVE  /\ events[a][i].src \in Source /\ events[a][i].pos \in Nat
                 /\ i \in Nat /\ i - 1 \in Nat
        <3>1. events[a][i] \in Event \cup Watermark /\ Len(events[a]) \in Nat
            BY <1>1 DEF TypeOK
        <3>2. \A x \in Event \cup Watermark : x.src \in Source /\ x.pos \in Nat
            BY DEF Event, Watermark, Pos
        <3>3. i \in Nat /\ i - 1 \in Nat
            BY <3>1
        <3> QED BY <3>1, <3>2, <3>3
    <2> QED BY <2>1
<1>4. RecordsOK'
    <2>1. SUFFICES ASSUME NEW q \in Source, NEW o \in 1..Len(payments'[q]),
                          NEW e \in Entity, payments'[q][o].to[e] # None
                   PROVE  payments'[q][o].kind = "payment" /\ payments'[q][o].pos > 0
        BY DEF RecordsOK
    <2>2. CASE o \in 1..Len(payments[q])
        BY <1>a, <2>1, <2>2 DEF IInv, RecordsOK
    <2>3. CASE o \notin 1..Len(payments[q])
        <3>1. q = s /\ o = Len(payments[s]) + 1 BY <1>a, <2>3
        <3> QED BY <1>a, <2>1, <3>1
    <2> QED BY <2>2, <2>3
<1>5. PaymentsOrdered'
    <2>1. SUFFICES ASSUME InOrder, NEW q \in Source, NEW i \in 1..Len(payments'[q]),
                          NEW j \in 1..Len(payments'[q]), i < j, payments'[q][j].kind = "payment"
                   PROVE  payments'[q][i].pos < payments'[q][j].pos
        BY DEF PaymentsOrdered
    <2>2. Len(payments[q]) \in Nat BY <1>a
    <2>3. i \in 1..Len(payments[q]) /\ payments'[q][i] = payments[q][i]
        BY <1>a, <2>1, <2>2
    <2>4. CASE j \in 1..Len(payments[q])
        BY <1>a, <2>1, <2>3, <2>4 DEF IInv, PaymentsOrdered
    <2>5. CASE j \notin 1..Len(payments[q])
        <3>1. q = s /\ j = Len(payments[s]) + 1 BY <1>a, <2>2, <2>5
        <3> QED BY <1>a, <2>1, <2>3, <3>1
    <2> QED BY <2>4, <2>5
<1>6. LogGenuine'
    <2>1. SUFFICES ASSUME NEW a \in Agg, NEW i \in 1..Len(events[a]), events[a][i].kind = "event"
                   PROVE  IsEventOf(a, i)'
        BY <1>2 DEF LogGenuine
    <2>2. IsEventOf(a, i) BY <2>1 DEF IInv, LogGenuine
    <2> QED BY <1>1, <1>2, <1>3, <2>1, <2>2, <1>b DEF IsEventOf
<1>7. LogClosed'
    <2>1. SUFFICES ASSUME NEW a \in Agg, NEW i \in 1..Len(events[a]), events[a][i].kind = "event",
                          NEW q \in Source, q = events[a][i].src, NEW top, top = MarkOf(events[a][i]),
                          NEW mk \in AllOwed(q, a)', After(top, mk)
                   PROVE  Logged(a, i - 1, q, mk)'
        BY <1>2, <1>3 DEF LogClosed
    <2>2. top \in AllOwed(q, a) BY <2>1 DEF IInv, LogGenuine, IsEventOf
    <2>3. top.offset <= Len(payments[q]) /\ top.offset \in Nat /\ Len(payments[q]) \in Nat
        BY <1>a, <2>2 DEF AllOwed, Owed
    <2>4. mk.offset <= Len(payments[q])
        <3>1. mk.offset \in Nat
            <4>1. Len(payments'[q]) \in Nat BY <1>a
            <4> QED BY <4>1 DEF AllOwed, Owed
        <3> QED BY <2>1, <2>3, <3>1 DEF After
    <2>5. mk \in AllOwed(q, a)
        BY <1>b, <2>3, <2>4
    <2>6. Logged(a, i - 1, q, mk)
        BY <2>1, <2>5 DEF IInv, LogClosed
    <2> QED BY <1>3, <1>b, <2>5, <2>6
<1>8. WatermarkTrue'
    <2>1. SUFFICES ASSUME InOrder, NEW a \in Agg, NEW i \in 1..Len(events[a]),
                          events[a][i].kind = "watermark",
                          NEW q \in Source, q = events[a][i].src,
                          NEW p \in Nat, p = events[a][i].pos
                   PROVE  /\ p = 0 \/ \E o \in 1..Len(payments'[q]) : payments'[q][o].pos = p
                          /\ \A mk \in AllOwed(q, a)' :
                               payments'[q][mk.offset].pos <= p => Logged(a, i - 1, q, mk)'
        BY <1>2, <1>3 DEF WatermarkTrue
    <2>2. /\ p = 0 \/ \E o \in 1..Len(payments[q]) : payments[q][o].pos = p
          /\ \A mk \in AllOwed(q, a) : payments[q][mk.offset].pos <= p => Logged(a, i - 1, q, mk)
        BY <2>1 DEF IInv, WatermarkTrue
    <2>3. p = 0 \/ \E o \in 1..Len(payments'[q]) : payments'[q][o].pos = p
        <3>1. SUFFICES ASSUME NEW o \in 1..Len(payments[q]), payments[q][o].pos = p
                       PROVE  o \in 1..Len(payments'[q]) /\ payments'[q][o].pos = p
            BY <2>2
        <3>2. Len(payments[q]) \in Nat
            BY <1>a
        <3>3. Len(payments'[q]) \in {Len(payments[q]), Len(payments[q]) + 1}
            BY <1>a
        <3> QED BY <1>a, <3>1, <3>2, <3>3
    <2>4. ASSUME NEW mk \in AllOwed(q, a)', payments'[q][mk.offset].pos <= p
          PROVE  Logged(a, i - 1, q, mk)'
        <3>1. CASE mk \in AllOwed(q, a)
            <4>1. payments[q][mk.offset].pos <= p
                BY <1>a, <2>4, <3>1 DEF AllOwed, Owed
            <4>2. Logged(a, i - 1, q, mk) BY <2>2, <3>1, <4>1
            <4>3. i - 1 \in Nat BY <1>3
            <4> QED BY <1>b, <3>1, <4>2, <4>3
        <3>2. CASE mk \notin AllOwed(q, a)
            <4>1. q = s /\ mk.offset = Len(payments[s]) + 1 /\ rec.to[mk.entity] = a
                BY <1>b, <3>2
            <4>2. mk.entity \in Entity BY DEF AllOwed, Owed
            <4>3. rec.kind = "payment" /\ rec.pos > 0
                BY <4>1, <4>2, AggAssumption
            <4>4. payments'[q][mk.offset] = rec
                BY <1>a, <4>1
            <4>5. \A o \in 1..Len(payments[q]) : payments[q][o].pos < rec.pos
                BY <2>1, <4>1, <4>3
            <4>6. rec.pos \in Nat BY DEF Record, Pos
            <4>7. p < rec.pos
                BY <2>2, <4>3, <4>5, <4>6
            <4> QED BY <2>4, <4>4, <4>6, <4>7
        <3> QED BY <3>1, <3>2
    <2> QED BY <2>3, <2>4
<1>9. CommittedLogged'
    <2>1. SUFFICES ASSUME NEW q \in Source
                   PROVE  /\ committed[q] \in 1..(Len(payments'[q]) + 1)
                          /\ \A a \in Agg : \A mk \in AllOwed(q, a)' :
                               mk.offset < committed[q] => Logged(a, Len(events[a]), q, mk)'
        BY <1>2 DEF CommittedLogged
    <2>2. committed[q] \in 1..(Len(payments[q]) + 1) BY DEF IInv, CommittedLogged
    <2>3. committed[q] \in 1..(Len(payments'[q]) + 1) BY <1>1, <2>2, <1>a
    <2>4. ASSUME NEW a \in Agg, NEW mk \in AllOwed(q, a)', mk.offset < committed[q]
          PROVE  Logged(a, Len(events[a]), q, mk)'
        <3>1. mk \in AllOwed(q, a) BY <1>1, <2>2, <2>4, <1>a, <1>b
        <3>2. Logged(a, Len(events[a]), q, mk) BY <2>4, <3>1 DEF IInv, CommittedLogged
        <3>3. Len(events[a]) \in Nat BY <1>1 DEF TypeOK
        <3> QED BY <1>1, <3>1, <3>2, <3>3, <1>b, <1>2
    <2> QED BY <2>3, <2>4
<1>10. RouterOK'
    <2>1. SUFFICES ASSUME NEW r \in Router, NEW me, me = router[r], me.src # None, GoodRouter(me)
                   PROVE  GoodRouter(me)'
        BY <1>2 DEF IInv, RouterOK
    <2> DEFINE q == me.src
    <2>2. q \in Source BY <1>1, <2>1, OwnType
    <2>3. me.next \in 1..(Len(payments[q]) + 1) BY <2>1 DEF GoodRouter
    <2>4. me.next \in 1..(Len(payments'[q]) + 1) BY <1>a, <2>2, <2>3
    <2>5. me.last = 0 \/ \E o \in 1..(me.next - 1) : payments'[q][o].pos = me.last
        <3>1. SUFFICES ASSUME NEW o \in 1..(me.next - 1), payments[q][o].pos = me.last
                       PROVE  o \in 1..(me.next - 1) /\ payments'[q][o].pos = me.last
            BY <2>1 DEF GoodRouter
        <3>2. o \in 1..Len(payments[q]) BY <1>a, <2>2, <2>3
        <3> QED BY <1>a, <2>2, <3>1, <3>2
    <2>6. ASSUME NEW a \in Agg
          PROVE  /\ me.unsent[a] \subseteq Owed(q, a, 1, me.next - 1)'
                 /\ \A mk \in AllOwed(q, a)' : mk.offset < me.next =>
                      Logged(a, Len(events[a]), q, mk)' \/ mk \in me.unsent[a]
        <3>1. Owed(q, a, 1, me.next - 1)' = Owed(q, a, 1, me.next - 1)
            <4>1. \A o \in 1..(me.next - 1) : payments'[q][o] = payments[q][o]
                BY <1>a, <2>2, <2>3
            <4> QED BY <4>1 DEF Owed
        <3>2. ASSUME NEW mk \in AllOwed(q, a)', mk.offset < me.next
              PROVE  Logged(a, Len(events[a]), q, mk)' \/ mk \in me.unsent[a]
            <4>1. mk \in AllOwed(q, a)
                BY <1>a, <1>b, <2>2, <2>3, <3>2
            <4>2. Logged(a, Len(events[a]), q, mk) \/ mk \in me.unsent[a]
                BY <2>1, <3>2, <4>1 DEF GoodRouter
            <4>3. Len(events[a]) \in Nat BY <1>1 DEF TypeOK
            <4> QED BY <1>2, <1>b, <2>2, <4>1, <4>2, <4>3
        <3> QED BY <2>1, <3>1, <3>2 DEF GoodRouter
    <2> QED BY <1>2, <2>1, <2>4, <2>5, <2>6 DEF GoodRouter
<1>11. MergerOK' /\ FrontierOK' /\ AppliedOnce' /\ NoLateEvent' /\ AppliedInOrder'
    BY <1>2, MergerPartStable DEF IInv
<1> QED BY <1>1, <1>4, <1>5, <1>6, <1>7, <1>8, <1>9, <1>10, <1>11 DEF IInv

LEMMA ProduceInv ==
    ASSUME IInv, ProduceNext
    PROVE  IInv'
<1>1. PICK s \in Source : Produce(s) BY DEF ProduceNext
<1>2. \A e \in Entity : NoRoute[e] = None BY DEF NoRoute
<1>3. CASE ProducePayment(s)
    <2>1. PICK p \in 1..PosBound, to \in Routes :
              /\ InOrder => \A i \in 1..Len(payments[s]) : payments[s][i].pos < p
              /\ Write(s, [kind |-> "payment", pos |-> p, to |-> to])
        BY <1>3 DEF ProducePayment
    <2>2. [kind |-> "payment", pos |-> p, to |-> to] \in Record /\ p > 0
        BY RoutesAssumption, BoundAssumption DEF Record, Pos
    <2> QED BY <2>1, <2>2, WriteInv
<1>4. CASE ProduceHeartbeat(s)
    <2>1. PICK p \in 1..PosBound : Write(s, [kind |-> "heartbeat", pos |-> p, to |-> NoRoute])
        BY <1>4 DEF ProduceHeartbeat
    <2>2. [kind |-> "heartbeat", pos |-> p, to |-> NoRoute] \in Record
        BY NoRouteType, BoundAssumption DEF Record, Pos
    <2> QED BY <1>2, <2>1, <2>2, WriteInv
<1>5. CASE ProduceUndecodable(s)
    <2>1. [kind |-> "undecodable", pos |-> MinPos, to |-> NoRoute] \in Record
        BY NoRouteType DEF Record, Pos, MinPos
    <2> QED BY <1>2, <1>5, <2>1, WriteInv DEF ProduceUndecodable
<1> QED BY <1>1, <1>3, <1>4, <1>5 DEF Produce

-----------------------------------------------------------------------------
(* Routers moving on without sending: the logs do not change. *)

LEMMA LogPartStable ==
    ASSUME IInv, UNCHANGED <<payments, events>>
    PROVE  RecordsOK' /\ PaymentsOrdered' /\ LogGenuine' /\ LogClosed' /\ WatermarkTrue'
<1>1. RecordsOK' /\ PaymentsOrdered' BY DEF IInv, RecordsOK, PaymentsOrdered
<1>2. LogGenuine'
    <2>1. SUFFICES ASSUME NEW a \in Agg, NEW i \in 1..Len(events[a]), IsEventOf(a, i)
                   PROVE  IsEventOf(a, i)'
        BY DEF IInv, LogGenuine
    <2> QED BY <2>1 DEF IsEventOf, AllOwed, Owed, EventOf
<1>3. LogClosed'
    <2>1. SUFFICES ASSUME NEW a \in Agg, NEW i \in 1..Len(events[a]), events[a][i].kind = "event",
                          NEW q, q = events[a][i].src,
                          NEW mk \in AllOwed(q, a)', After(MarkOf(events[a][i]), mk)
                   PROVE  Logged(a, i - 1, q, mk)'
        BY DEF LogClosed
    <2>2. mk \in AllOwed(q, a) BY DEF AllOwed, Owed
    <2>3. Logged(a, i - 1, q, mk) BY <2>1, <2>2 DEF IInv, LogClosed
    <2> QED BY <2>3 DEF Logged, EventOf
<1>4. WatermarkTrue' BY DEF IInv, WatermarkTrue, AllOwed, Owed, EventOf, Logged
<1> QED BY <1>1, <1>2, <1>3, <1>4

LEMMA GoodRouterStable ==
    ASSUME UNCHANGED <<payments, events>>, NEW me, GoodRouter(me)
    PROVE  GoodRouter(me)'
BY DEF GoodRouter, AllOwed, Owed, EventOf, Logged

LEMMA CommittedStable ==
    ASSUME CommittedLogged, UNCHANGED <<payments, events, committed>>
    PROVE  CommittedLogged'
BY DEF CommittedLogged, AllOwed, Owed, EventOf, Logged

(* A fresh task is good: what it will not read is committed, so logged. *)
LEMMA NewRouterGood ==
    ASSUME IInv, NEW s \in Source
    PROVE  GoodRouter(NewRouter(s, committed[s]))
<1>1. committed[s] \in 1..(Len(payments[s]) + 1)
    BY DEF IInv, CommittedLogged
<1>2. \A a \in Agg : \A mk \in AllOwed(s, a) :
          mk.offset < committed[s] => Logged(a, Len(events[a]), s, mk)
    BY DEF IInv, CommittedLogged
<1> QED BY <1>1, <1>2 DEF GoodRouter, NewRouter, MinPos

LEMMA RouterInv ==
    ASSUME IInv, RouterNext
    PROVE  IInv'
<1>1. TypeOK /\ TypeOK' BY RouterType DEF IInv
<1>2. UNCHANGED <<payments, events, agg>>
    BY DEF RouterNext, Assign, RouteBatch, Flushed, Commit, Crash, Revoked, Lost
<1>3. SUFFICES CommittedLogged' /\ RouterOK'
    BY <1>1, <1>2, LogPartStable, MergerPartStable DEF IInv
<1>4. ASSUME NEW r \in Router, NEW me, router' = [router EXCEPT ![r] = me],
             IF me.src = None THEN me.phase = "poll" ELSE GoodRouter(me)
      PROVE  RouterOK'
    <2>1. SUFFICES ASSUME NEW q \in Router, NEW it, it = router'[q]
                   PROVE  IF it.src = None THEN it.phase = "poll" ELSE GoodRouter(it)'
        BY DEF RouterOK
    <2>2. IF it.src = None THEN it.phase = "poll" ELSE GoodRouter(it)
        <3>1. CASE q = r
            BY <1>1, <1>4, <2>1, <3>1 DEF TypeOK
        <3>2. CASE q # r
            BY <1>1, <1>4, <2>1, <3>2 DEF IInv, RouterOK, TypeOK
        <3> QED BY <3>1, <3>2
    <2> QED BY <1>2, <2>2, GoodRouterStable
<1>5. ASSUME NEW r \in Router, router' = [router EXCEPT ![r] = NewRouter(None, 1)]
      PROVE  RouterOK'
    <2>1. NewRouter(None, 1).src = None /\ NewRouter(None, 1).phase = "poll"
        BY DEF NewRouter
    <2> QED BY <1>4, <1>5, <2>1
<1>6. ASSUME NEW r \in Router, NEW s \in Source, Assign(r, s)
      PROVE  CommittedLogged' /\ RouterOK'
    <2>1. router' = [router EXCEPT ![r] = NewRouter(s, committed[s])] /\ UNCHANGED committed
        BY <1>6 DEF Assign
    <2>2. NewRouter(s, committed[s]).src # None
        BY NoneAssumption DEF NewRouter
    <2>3. RouterOK'
        BY <1>4, <2>1, <2>2, NewRouterGood
    <2> QED BY <1>2, <2>1, <2>3, CommittedStable DEF IInv
<1>7. ASSUME NEW r \in Router, RouteBatch(r)
      PROVE  CommittedLogged' /\ RouterOK'
    <2>1. PICK old : old = router[r] OBVIOUS
    <2> DEFINE q == old.src
    <2>2. old.src # None /\ old.phase = "poll" /\ old \in RouterState
        BY <1>1, <1>7, <2>1 DEF RouteBatch, TypeOK
    <2>3. q \in Source BY <2>2 DEF RouterState
    <2>4. GoodRouter(old) BY <2>1, <2>2 DEF IInv, RouterOK
    <2> DEFINE it == router[r]
    <2>5. PICK hi \in it.next..Len(payments[it.src]) :
              \E p \in Seen(it.src, it.last, it.next, hi) :
                  router' = [router EXCEPT ![r] =
                    [@ EXCEPT !.next = hi + 1, !.last = p, !.phase = "send",
                              !.unsent = [a \in Agg |-> Owed(it.src, a, it.next, hi)]]]
        BY <1>7 DEF RouteBatch
    <2>6. PICK p \in Seen(it.src, it.last, it.next, hi) :
              router' = [router EXCEPT ![r] =
                [@ EXCEPT !.next = hi + 1, !.last = p, !.phase = "send",
                          !.unsent = [a \in Agg |-> Owed(it.src, a, it.next, hi)]]]
        BY <2>5
    <2> DEFINE me == [old EXCEPT !.next = hi + 1, !.last = p, !.phase = "send",
                                 !.unsent = [a \in Agg |-> Owed(q, a, old.next, hi)]]
    <2>7. hi \in old.next..Len(payments[q]) /\ p \in Seen(q, old.last, old.next, hi)
        BY <2>1, <2>5, <2>6
    <2>8. router' = [router EXCEPT ![r] = me]
        BY <2>1, <2>6
    <2> HIDE DEF it
    <2>9. /\ me.src = q /\ me.next = hi + 1 /\ me.last = p /\ me.phase = "send"
          /\ \A a \in Agg : me.unsent[a] = Owed(q, a, old.next, hi)
        BY <2>2 DEF RouterState
    <2>10. old.next \in 1..(Len(payments[q]) + 1) /\ Len(payments[q]) \in Nat
        BY <1>1, <2>3, <2>4 DEF GoodRouter, TypeOK
    <2>11. hi \in Nat /\ old.next <= hi /\ hi <= Len(payments[q]) /\ old.next >= 1
        BY <2>10, <2>7
    <2>12. p = 0 \/ \E o \in 1..hi : payments[q][o].pos = p
        <3>1. CASE p = old.last
            BY <2>4, <2>10, <2>11, <3>1 DEF GoodRouter
        <3>2. CASE p # old.last
            <4>1. PICK i \in old.next..hi : payments[q][i].pos = p
                BY <2>7, <3>2 DEF Seen
            <4>2. i \in 1..hi BY <2>10, <2>11
            <4> QED BY <4>1, <4>2
        <3> QED BY <3>1, <3>2
    <2>13. ASSUME NEW a \in Agg
           PROVE  /\ Owed(q, a, old.next, hi) \subseteq Owed(q, a, 1, hi)
                  /\ \A mk \in AllOwed(q, a) : mk.offset < hi + 1 =>
                       Logged(a, Len(events[a]), q, mk) \/ mk \in Owed(q, a, old.next, hi)
        <3>1. Owed(q, a, old.next, hi) \subseteq Owed(q, a, 1, hi)
            BY <2>10, <2>11 DEF Owed
        <3>2. ASSUME NEW mk \in AllOwed(q, a), mk.offset < hi + 1
              PROVE  Logged(a, Len(events[a]), q, mk) \/ mk \in Owed(q, a, old.next, hi)
            <4>1. mk.offset \in Nat BY <2>10 DEF AllOwed, Owed
            <4>2. CASE mk.offset < old.next
                BY <2>2, <2>4, <4>2 DEF GoodRouter
            <4>3. CASE ~(mk.offset < old.next)
                BY <2>10, <2>11, <3>2, <4>1, <4>3 DEF AllOwed, Owed
            <4> QED BY <4>2, <4>3
        <3> QED BY <3>1, <3>2
    <2> HIDE DEF me
    <2>14. GoodRouter(me)
        BY <2>9, <2>11, <2>12, <2>13 DEF GoodRouter
    <2>15. RouterOK' BY <1>4, <2>2, <2>9, <2>14, <2>8
    <2> QED BY <1>2, <1>7, <2>15, CommittedStable DEF RouteBatch, IInv
<1>8. ASSUME NEW r \in Router, Flushed(r)
      PROVE  CommittedLogged' /\ RouterOK'
    <2>1. PICK old : old = router[r] OBVIOUS
    <2> DEFINE me == [old EXCEPT !.sent = old.last, !.phase = "tail",
                                 !.tail = IF old.sent < old.last THEN Agg ELSE {}]
    <2>2. old.phase = "send" /\ old \in RouterState /\ \A a \in Agg : old.unsent[a] = {}
        BY <1>1, <1>8, <2>1 DEF Flushed, TypeOK
    <2>3. old.src # None /\ GoodRouter(old)
        BY <2>1, <2>2 DEF IInv, RouterOK
    <2>4. /\ me.src = old.src /\ me.next = old.next /\ me.last = old.last /\ me.sent = old.last
          /\ me.unsent = old.unsent
        BY <2>2 DEF RouterState
    <2>5. router' = [router EXCEPT ![r] = me] /\ UNCHANGED committed
        BY <1>8, <2>1 DEF Flushed
    <2> HIDE DEF me
    <2>6. GoodRouter(me)
        BY <2>2, <2>3, <2>4 DEF GoodRouter
    <2> QED BY <1>2, <1>4, <2>3, <2>4, <2>5, <2>6, CommittedStable DEF IInv
<1>9. ASSUME NEW r \in Router, Commit(r)
      PROVE  CommittedLogged' /\ RouterOK'
    <2>1. PICK old : old = router[r] OBVIOUS
    <2>2. old.phase = "tail" /\ old \in RouterState
        BY <1>1, <1>9, <2>1 DEF Commit, TypeOK
    <2>3. old.src # None /\ GoodRouter(old)
        BY <2>1, <2>2 DEF IInv, RouterOK
    <2>4. old.src \in Source /\ \A a \in Agg : old.unsent[a] = {}
        BY <2>2, <2>3 DEF RouterState, GoodRouter
    <2>5. CASE owner[old.src] = r
        <3> DEFINE me == [old EXCEPT !.phase = "poll"]
        <3>1. router' = [router EXCEPT ![r] = me] /\ committed' = [committed EXCEPT ![old.src] = old.next]
            BY <1>9, <2>1, <2>5 DEF Commit
        <3>2. /\ me.src = old.src /\ me.next = old.next /\ me.last = old.last
              /\ me.unsent = old.unsent /\ me.phase = "poll"
            BY <2>2 DEF RouterState
        <3> HIDE DEF me
        <3>3. GoodRouter(me)
            BY <2>3, <2>4, <3>2 DEF GoodRouter
        <3>4. RouterOK'
            BY <1>4, <2>3, <3>1, <3>2, <3>3
        <3>5. ASSUME NEW s \in Source
              PROVE  /\ committed'[s] \in 1..(Len(payments[s]) + 1)
                     /\ \A a \in Agg : \A mk \in AllOwed(s, a) :
                          mk.offset < committed'[s] => Logged(a, Len(events[a]), s, mk)
            <4>1. CASE s = old.src
                <5>1. committed'[s] = old.next BY <1>1, <3>1, <4>1 DEF TypeOK
                <5> QED BY <2>3, <2>4, <4>1, <5>1 DEF GoodRouter
            <4>2. CASE s # old.src
                <5>1. committed'[s] = committed[s] BY <1>1, <3>1, <4>2 DEF TypeOK
                <5> QED BY <5>1 DEF IInv, CommittedLogged
            <4> QED BY <4>1, <4>2
        <3>6. CommittedLogged'
            BY <1>2, <3>5 DEF CommittedLogged, AllOwed, Owed, EventOf, Logged
        <3> QED BY <3>4, <3>6
    <2>6. CASE owner[old.src] # r
        <3>1. router' = [router EXCEPT ![r] = NewRouter(None, 1)] /\ UNCHANGED committed
            BY <1>9, <2>1, <2>6 DEF Commit
        <3> QED BY <1>2, <1>5, <3>1, CommittedStable DEF IInv
    <2> QED BY <2>5, <2>6
<1>10. ASSUME NEW r \in Router, Crash(r) \/ Revoked(r) \/ Lost(r)
      PROVE  CommittedLogged' /\ RouterOK'
    BY <1>2, <1>5, <1>10, CommittedStable DEF Crash, Revoked, Lost, IInv
<1> QED BY <1>6, <1>7, <1>8, <1>9, <1>10 DEF RouterNext

-----------------------------------------------------------------------------
(* Sending: a record is appended to the log of one aggregator partition.   *)

Sent(a, msg) ==
    /\ events' = [events EXCEPT ![a] = Append(@, msg)]
    /\ UNCHANGED <<payments, committed, agg>>

LEMMA SentFacts ==
    ASSUME IInv, NEW a \in Agg, NEW msg, Sent(a, msg), NEW b \in Agg
    PROVE  /\ Len(events[b]) \in Nat
           /\ Len(events'[b]) = IF b = a THEN Len(events[b]) + 1 ELSE Len(events[b])
           /\ \A i \in 1..Len(events[b]) : events'[b][i] = events[b][i]
           /\ b = a => events'[b][Len(events[b]) + 1] = msg
           /\ \A i \in 1..Len(events'[b]) :
                i \in 1..Len(events[b]) \/ (b = a /\ i = Len(events[b]) + 1 /\ events'[b][i] = msg)
           /\ \A q : AllOwed(q, b)' = AllOwed(q, b)
           /\ \A q, mk : EventOf(q, mk)' = EventOf(q, mk)
<1>1. events \in [Agg -> Seq(Event \cup Watermark)] BY DEF IInv, TypeOK
<1>2. /\ Len(events[b]) \in Nat
      /\ Len(events'[b]) = IF b = a THEN Len(events[b]) + 1 ELSE Len(events[b])
      /\ \A i \in 1..Len(events[b]) : events'[b][i] = events[b][i]
      /\ b = a => events'[b][Len(events[b]) + 1] = msg
    BY <1>1 DEF Sent
<1>3. \A i \in 1..Len(events'[b]) :
          i \in 1..Len(events[b]) \/ (b = a /\ i = Len(events[b]) + 1 /\ events'[b][i] = msg)
    BY <1>2
<1>4. \A q : AllOwed(q, b)' = AllOwed(q, b) BY DEF Sent, AllOwed, Owed
<1>5. \A q, mk : EventOf(q, mk)' = EventOf(q, mk) BY DEF Sent, EventOf
<1> QED BY <1>2, <1>3, <1>4, <1>5

(* What is logged stays logged. *)
LEMMA SentLogged ==
    ASSUME IInv, NEW a \in Agg, NEW msg, Sent(a, msg), NEW b \in Agg,
           NEW n \in Nat, NEW k \in Nat, n <= Len(events[b]), n <= k,
           NEW q, NEW mk, Logged(b, n, q, mk)
    PROVE  Logged(b, k, q, mk)'
<1>1. PICK i \in 1..n : events[b][i] = EventOf(q, mk) BY DEF Logged
<1>2. Len(events[b]) \in Nat BY SentFacts
<1>3. i \in 1..Len(events[b]) /\ i \in 1..k BY <1>2
<1>4. events'[b][i] = EventOf(q, mk)' BY <1>1, <1>3, SentFacts
<1> QED BY <1>3, <1>4 DEF Logged

LEMMA SentRouter ==
    ASSUME IInv, NEW a \in Agg, NEW msg, Sent(a, msg), NEW me, GoodRouter(me)
    PROVE  GoodRouter(me)'
<1>1. ASSUME NEW b \in Agg
      PROVE  /\ me.unsent[b] \subseteq Owed(me.src, b, 1, me.next - 1)'
             /\ \A mk \in AllOwed(me.src, b)' : mk.offset < me.next =>
                  Logged(b, Len(events[b]), me.src, mk)' \/ mk \in me.unsent[b]
    <2>1. Owed(me.src, b, 1, me.next - 1)' = Owed(me.src, b, 1, me.next - 1)
        BY DEF Sent, Owed
    <2>2. ASSUME NEW mk \in AllOwed(me.src, b), mk.offset < me.next,
                 Logged(b, Len(events[b]), me.src, mk)
          PROVE  Logged(b, Len(events[b]), me.src, mk)'
        <3>1. /\ Len(events[b]) \in Nat /\ Len(events'[b]) \in Nat
              /\ Len(events[b]) <= Len(events'[b])
            BY SentFacts
        <3>2. PICK i \in 1..Len(events[b]) : events[b][i] = EventOf(me.src, mk)
            BY <2>2 DEF Logged
        <3>3. i \in 1..Len(events'[b]) /\ events'[b][i] = EventOf(me.src, mk)'
            BY <3>1, <3>2, SentFacts
        <3> QED BY <3>3 DEF Logged
    <2>3. AllOwed(me.src, b)' = AllOwed(me.src, b) BY SentFacts
    <2> QED BY <2>1, <2>2, <2>3 DEF GoodRouter
<1>2. /\ me.next \in 1..(Len(payments'[me.src]) + 1)
      /\ me.phase # "send" => \A b \in Agg : me.unsent[b] = {}
      /\ me.phase = "tail" => me.sent = me.last
      /\ me.last = 0 \/ \E o \in 1..(me.next - 1) : payments'[me.src][o].pos = me.last
    BY DEF GoodRouter, Sent
<1> QED BY <1>1, <1>2 DEF GoodRouter

(* A merger does not look ahead in its log. *)
LEMMA GoodMergerPrefix ==
    ASSUME NEW me, NEW log, NEW log2, GoodMerger(me, log),
           me.next \in 1..(Len(log2) + 1),
           \A i \in 1..(me.next - 1) : log2[i] = log[i]
    PROVE  GoodMerger(me, log2)
<1> DEFINE n == me.next - 1
<1>1. \A i \in 1..n : log2[i].kind = "event" =>
         /\ ~After(MarkOf(log2[i]), me.m.recv[log2[i].src])
         /\ log2[i] \in AppliedBy(me) \cup me.m.buf
    BY DEF GoodMerger
<1>2. \A ev \in AppliedBy(me) \cup me.m.buf : \E i \in 1..n : log2[i] = ev
    BY DEF GoodMerger
<1>3. ASSUME NEW s \in Source
      PROVE  /\ \/ me.m.recv[s] = [offset |-> 0, entity |-> 0]
                \/ \E i \in 1..n :
                       log2[i].kind = "event" /\ log2[i].src = s /\ MarkOf(log2[i]) = me.m.recv[s]
             /\ \/ me.m.wm[s] = 0
                \/ \E i \in 1..n :
                       log2[i] = [kind |-> "watermark", src |-> s, pos |-> me.m.wm[s]]
    BY DEF GoodMerger
<1> QED BY <1>1, <1>2, <1>3 DEF GoodMerger

LEMMA SentInv ==
    ASSUME IInv, NEW a \in Agg, NEW q \in Source, NEW msg, Sent(a, msg), msg.src = q,
           msg.kind = "event" =>
               /\ MarkOf(msg) \in AllOwed(q, a)
               /\ msg = EventOf(q, MarkOf(msg))
               /\ \A mk \in AllOwed(q, a) :
                    After(MarkOf(msg), mk) => Logged(a, Len(events[a]), q, mk),
           InOrder /\ msg.kind = "watermark" =>
               /\ msg.pos = 0 \/ \E o \in 1..Len(payments[q]) : payments[q][o].pos = msg.pos
               /\ \A mk \in AllOwed(q, a) :
                    payments[q][mk.offset].pos <= msg.pos => Logged(a, Len(events[a]), q, mk)
    PROVE  /\ RecordsOK' /\ PaymentsOrdered' /\ LogGenuine' /\ LogClosed' /\ WatermarkTrue'
           /\ CommittedLogged' /\ MergerOK' /\ FrontierOK'
           /\ AppliedOnce' /\ NoLateEvent' /\ AppliedInOrder'
<1>1. RecordsOK' /\ PaymentsOrdered' BY DEF IInv, RecordsOK, PaymentsOrdered, Sent
<1>2. ASSUME NEW b \in Agg, NEW i \in 1..Len(events'[b])
      PROVE  i - 1 \in Nat /\ i - 1 <= Len(events[b])
    BY SentFacts
<1>3. LogGenuine'
    <2>1. SUFFICES ASSUME NEW b \in Agg, NEW i \in 1..Len(events'[b]),
                          NEW e, e = events'[b][i], e.kind = "event"
                   PROVE  MarkOf(e) \in AllOwed(e.src, b) /\ e = EventOf(e.src, MarkOf(e))
        <3>1. SUFFICES ASSUME NEW b \in Agg, NEW i \in 1..Len(events'[b]), NEW e, e = events'[b][i],
                              MarkOf(e) \in AllOwed(e.src, b) /\ e = EventOf(e.src, MarkOf(e))
                       PROVE  MarkOf(e) \in AllOwed(e.src, b)' /\ e = EventOf(e.src, MarkOf(e))'
            BY <2>1 DEF LogGenuine, IsEventOf
        <3> QED BY <3>1, SentFacts
    <2>2. CASE i \in 1..Len(events[b])
        BY <2>1, <2>2, SentFacts DEF IInv, LogGenuine, IsEventOf
    <2>3. CASE i \notin 1..Len(events[b])
        BY <2>1, <2>3, SentFacts
    <2> QED BY <2>2, <2>3
<1>4. LogClosed'
    <2>1. SUFFICES ASSUME NEW b \in Agg, NEW i \in 1..Len(events'[b]),
                          NEW e, e = events'[b][i], e.kind = "event",
                          NEW s, s = e.src, NEW mk \in AllOwed(s, b)', After(MarkOf(e), mk)
                   PROVE  Logged(b, i - 1, s, mk)'
        BY DEF LogClosed
    <2>4. mk \in AllOwed(s, b) BY SentFacts
    <2>2. CASE i \in 1..Len(events[b])
        <3>1. Logged(b, i - 1, s, mk)
            BY <2>1, <2>2, <2>4, SentFacts DEF IInv, LogClosed
        <3> QED BY <1>2, <3>1, SentLogged
    <2>3. CASE i \notin 1..Len(events[b])
        <3>1. b = a /\ e = msg /\ i - 1 = Len(events[a])
            BY <2>1, <2>3, SentFacts
        <3>2. Logged(b, i - 1, s, mk)
            BY <2>1, <2>4, <3>1
        <3> QED BY <1>2, <3>2, SentLogged
    <2> QED BY <2>2, <2>3
<1>5. WatermarkTrue'
    <2>1. SUFFICES ASSUME InOrder, NEW b \in Agg, NEW i \in 1..Len(events'[b]),
                          NEW e, e = events'[b][i], e.kind = "watermark", NEW s, s = e.src
                   PROVE  /\ e.pos = 0 \/ \E o \in 1..Len(payments'[s]) : payments'[s][o].pos = e.pos
                          /\ \A mk \in AllOwed(s, b)' :
                               payments'[s][mk.offset].pos <= e.pos => Logged(b, i - 1, s, mk)'
        BY DEF WatermarkTrue
    <2>2. /\ e.pos = 0 \/ \E o \in 1..Len(payments[s]) : payments[s][o].pos = e.pos
          /\ \A mk \in AllOwed(s, b) :
               payments[s][mk.offset].pos <= e.pos => Logged(b, i - 1, s, mk)
        <3>1. CASE i \in 1..Len(events[b])
            <4>1. e = events[b][i] BY <2>1, <3>1, SentFacts
            <4> QED BY <2>1, <3>1, <4>1 DEF IInv, WatermarkTrue
        <3>2. CASE i \notin 1..Len(events[b])
            <4>1. b = a /\ e = msg /\ i - 1 = Len(events[a])
                BY <2>1, <3>2, SentFacts
            <4> QED BY <2>1, <4>1
        <3> QED BY <3>1, <3>2
    <2>3. AllOwed(s, b)' = AllOwed(s, b) BY SentFacts
    <2>4. ASSUME NEW mk \in AllOwed(s, b), payments[s][mk.offset].pos <= e.pos
          PROVE  Logged(b, i - 1, s, mk)'
        <3>1. Logged(b, i - 1, s, mk) BY <2>2, <2>4
        <3> QED BY <1>2, <3>1, SentLogged
    <2>5. payments' = payments BY DEF Sent
    <2> QED BY <2>2, <2>3, <2>4, <2>5
<1>6. CommittedLogged'
    <2>1. SUFFICES ASSUME NEW s \in Source, NEW b \in Agg, NEW mk \in AllOwed(s, b),
                          mk.offset < committed[s]
                   PROVE  Logged(b, Len(events[b]), s, mk)'
        <3>1. \A s \in Source, b \in Agg : AllOwed(s, b)' = AllOwed(s, b)
            BY SentFacts
        <3>2. \A s \in Source : committed'[s] \in 1..(Len(payments'[s]) + 1)
            BY DEF IInv, CommittedLogged, Sent
        <3>3. committed' = committed BY DEF Sent
        <3> QED BY <2>1, <3>1, <3>2, <3>3 DEF CommittedLogged
    <2>2. PICK i \in 1..Len(events[b]) : events[b][i] = EventOf(s, mk)
        BY <2>1 DEF IInv, CommittedLogged, Logged
    <2>3. i \in 1..Len(events'[b]) /\ events'[b][i] = EventOf(s, mk)'
        BY <2>2, SentFacts
    <2> QED BY <2>3 DEF Logged
<1>7. MergerOK'
    <2>1. SUFFICES ASSUME NEW b \in Agg, NEW me, me = agg[b], GoodMerger(me, events[b])
                   PROVE  GoodMerger(me, events'[b])
        <3>1. agg' = agg BY DEF Sent
        <3> QED BY <2>1, <3>1 DEF IInv, MergerOK
    <2>2. /\ Len(events[b]) \in Nat /\ Len(events'[b]) \in Nat
          /\ Len(events[b]) <= Len(events'[b])
          /\ me.next \in 1..(Len(events[b]) + 1)
        BY <2>1, SentFacts DEF GoodMerger
    <2>3. \A i \in 1..(me.next - 1) : events'[b][i] = events[b][i]
        BY <2>2, SentFacts
    <2>4. me.next \in 1..(Len(events'[b]) + 1) BY <2>2
    <2> QED BY <2>1, <2>3, <2>4, GoodMergerPrefix
<1>8. FrontierOK' /\ AppliedOnce' /\ NoLateEvent' /\ AppliedInOrder'
    BY DEF Sent, IInv, FrontierOK, AppliedOnce, AppliedTo, NoLateEvent, AppliedInOrder
<1> QED BY <1>1, <1>3, <1>4, <1>5, <1>6, <1>7, <1>8

LEMMA SendEventInv ==
    ASSUME IInv, NEW r \in Router, NEW a \in Agg, SendEvent(r, a)
    PROVE  IInv'
<1>1. TypeOK /\ TypeOK' BY SendEventType DEF IInv
<1>2. PICK old : old = router[r] OBVIOUS
<1>3. old.phase = "send" /\ old \in RouterState
    BY <1>1, <1>2 DEF SendEvent, TypeOK
<1>4. old.src # None /\ GoodRouter(old)
    BY <1>2, <1>3 DEF IInv, RouterOK
<1>5. PICK q : q = old.src OBVIOUS
<1>6. q \in Source BY <1>3, <1>4, <1>5 DEF RouterState
<1>7. PICK mk \in router[r].unsent[a] :
          /\ \A other \in router[r].unsent[a] \ {mk} : After(other, mk)
          /\ events' = [events EXCEPT ![a] = Append(@, EventOf(router[r].src, mk))]
          /\ router' = [router EXCEPT ![r].unsent[a] = @ \ {mk}]
    BY DEF SendEvent
<1> DEFINE me == [old EXCEPT !.unsent = [old.unsent EXCEPT ![a] = @ \ {mk}]]
<1>8. router' = [router EXCEPT ![r] = me]
    BY <1>2, <1>7
<1>9. /\ me.src = q /\ me.next = old.next /\ me.last = old.last /\ me.phase = "send"
      /\ \A b \in Agg : me.unsent[b] = IF b = a THEN old.unsent[a] \ {mk} ELSE old.unsent[b]
    BY <1>3, <1>5 DEF RouterState
<1> HIDE DEF me
<1>10. PICK msg : msg = EventOf(q, mk) OBVIOUS
<1>11. Sent(a, msg)
    BY <1>2, <1>5, <1>7, <1>10 DEF Sent, SendEvent
<1>12. mk \in Owed(q, a, 1, old.next - 1) /\ old.next \in 1..(Len(payments[q]) + 1) /\ Len(payments[q]) \in Nat
    <2>1. old.unsent[a] \subseteq Owed(q, a, 1, old.next - 1) /\ old.next \in 1..(Len(payments[q]) + 1)
        BY <1>4, <1>5 DEF GoodRouter
    <2> QED BY <1>1, <1>2, <1>6, <1>7, <2>1 DEF TypeOK
<1>13. mk \in AllOwed(q, a) /\ mk.offset < old.next /\ mk.offset \in Nat /\ mk.entity \in Entity
       /\ mk = [offset |-> mk.offset, entity |-> mk.entity]
    BY <1>12 DEF AllOwed, Owed
<1>14. msg.src = q /\ msg.kind = "event" /\ MarkOf(msg) = mk
    BY <1>10, <1>13 DEF EventOf, MarkOf
<1>15. ASSUME NEW m2 \in AllOwed(q, a), After(mk, m2)
       PROVE  Logged(a, Len(events[a]), q, m2)
    <2>1. m2.offset \in Nat /\ m2.entity \in Entity BY <1>12 DEF AllOwed, Owed
    <2>2. m2.offset < old.next
        BY <1>12, <1>13, <1>15, <2>1 DEF After
    <2>3. m2 \notin old.unsent[a]
        <3>1. SUFFICES ASSUME m2 \in old.unsent[a] PROVE FALSE OBVIOUS
        <3>2. m2 # mk BY <1>13, <1>15, NumAssumption DEF After, Entity
        <3>3. After(m2, mk) BY <1>2, <1>7, <3>1, <3>2
        <3> QED BY <1>13, <1>15, <2>1, <3>3, NumAssumption DEF After, Entity
    <2> QED BY <1>4, <1>5, <2>2, <2>3 DEF GoodRouter
<1>16. /\ RecordsOK' /\ PaymentsOrdered' /\ LogGenuine' /\ LogClosed' /\ WatermarkTrue'
       /\ CommittedLogged' /\ MergerOK' /\ FrontierOK'
       /\ AppliedOnce' /\ NoLateEvent' /\ AppliedInOrder'
    BY <1>6, <1>10, <1>11, <1>13, <1>14, <1>15, SentInv
<1>17. Logged(a, Len(events[a]), q, mk)'
    <2>1. events'[a][Len(events[a]) + 1] = msg /\ Len(events[a]) + 1 \in 1..Len(events'[a])
        BY <1>11, SentFacts
    <2>2. msg = EventOf(q, mk)'
        BY <1>10, <1>11, SentFacts
    <2> QED BY <2>1, <2>2 DEF Logged
<1>18. GoodRouter(me)'
    <2>1. GoodRouter(old)' BY <1>4, <1>11, SentRouter
    <2> QED BY <1>5, <1>9, <1>17, <2>1 DEF GoodRouter
<1>19. RouterOK'
    <2>1. SUFFICES ASSUME NEW p \in Router, NEW it, it = router'[p]
                   PROVE  IF it.src = None THEN it.phase = "poll" ELSE GoodRouter(it)'
        BY DEF RouterOK
    <2>2. CASE p = r
        BY <1>1, <1>8, <1>9, <1>4, <1>5, <1>18, <2>1, <2>2 DEF TypeOK
    <2>3. CASE p # r
        <3>1. it = router[p] BY <1>1, <1>8, <2>1, <2>3 DEF TypeOK
        <3> QED BY <3>1, <1>11, SentRouter DEF IInv, RouterOK
    <2> QED BY <2>2, <2>3
<1> QED BY <1>1, <1>16, <1>19 DEF IInv

LEMMA SendWatermarkInv ==
    ASSUME IInv, NEW r \in Router, NEW a \in Agg, SendWatermark(r, a)
    PROVE  IInv'
<1>1. TypeOK /\ TypeOK' BY SendWatermarkType DEF IInv
<1>2. PICK old : old = router[r] OBVIOUS
<1>3. old.phase = "tail" /\ old \in RouterState
    BY <1>1, <1>2 DEF SendWatermark, TypeOK
<1>4. old.src # None /\ GoodRouter(old)
    BY <1>2, <1>3 DEF IInv, RouterOK
<1>5. PICK q : q = old.src OBVIOUS
<1>6. q \in Source BY <1>3, <1>4, <1>5 DEF RouterState
<1> DEFINE me == [old EXCEPT !.tail = @ \ {a}]
<1>7. router' = [router EXCEPT ![r] = me]
    BY <1>2 DEF SendWatermark
<1>8. /\ me.src = q /\ me.next = old.next /\ me.last = old.last /\ me.sent = old.sent
      /\ me.phase = "tail" /\ me.unsent = old.unsent
    BY <1>3, <1>5 DEF RouterState
<1> HIDE DEF me
<1>9. PICK msg : msg = [kind |-> "watermark", src |-> q, pos |-> old.sent] OBVIOUS
<1>10. Sent(a, msg)
    BY <1>2, <1>5, <1>9 DEF Sent, SendWatermark
<1>11. msg.src = q /\ msg.kind = "watermark" /\ msg.pos = old.last
    BY <1>3, <1>4, <1>9 DEF GoodRouter
<1>12. old.next \in 1..(Len(payments[q]) + 1) /\ Len(payments[q]) \in Nat /\ old.last \in Nat
    BY <1>1, <1>3, <1>4, <1>5, <1>6 DEF GoodRouter, TypeOK, RouterState, Pos
<1>13. msg.pos = 0 \/ \E o \in 1..Len(payments[q]) : payments[q][o].pos = msg.pos
    <2>1. CASE old.last # 0
        <3>1. PICK o \in 1..(old.next - 1) : payments[q][o].pos = old.last
            BY <1>4, <1>5, <2>1 DEF GoodRouter
        <3>2. o \in 1..Len(payments[q]) BY <1>12
        <3> QED BY <1>11, <3>1, <3>2
    <2> QED BY <1>11, <2>1
<1>14. ASSUME InOrder, NEW mk \in AllOwed(q, a), payments[q][mk.offset].pos <= msg.pos
       PROVE  Logged(a, Len(events[a]), q, mk)
    <2>1. mk.offset \in 1..Len(payments[q]) /\ mk.entity \in Entity
          /\ payments[q][mk.offset].to[mk.entity] = a
        BY DEF AllOwed, Owed
    <2>2. payments[q][mk.offset].kind = "payment" /\ payments[q][mk.offset].pos > 0
        BY <1>6, <2>1, AggAssumption DEF IInv, RecordsOK
    <2>3. payments[q][mk.offset] \in Record
        BY <1>1, <1>6, <2>1 DEF TypeOK
    <2>4. mk.offset < old.next
        <3>1. SUFFICES ASSUME mk.offset >= old.next PROVE FALSE
            BY <1>12, <2>1
        <3>2. CASE old.last = 0
            BY <1>11, <1>14, <2>2, <2>3, <3>2 DEF Record, Pos
        <3>3. CASE old.last # 0
            <4>1. PICK o \in 1..(old.next - 1) : payments[q][o].pos = old.last
                BY <1>4, <1>5, <3>3 DEF GoodRouter
            <4>2. o \in 1..Len(payments[q]) /\ o < mk.offset
                BY <1>12, <2>1, <3>1
            <4>3. payments[q][o].pos < payments[q][mk.offset].pos
                BY <1>6, <1>14, <2>1, <2>2, <4>2 DEF IInv, PaymentsOrdered
            <4> QED BY <1>11, <1>12, <1>14, <2>3, <4>1, <4>3 DEF Record, Pos
        <3> QED BY <3>2, <3>3
    <2>5. old.unsent[a] = {} BY <1>3, <1>4 DEF GoodRouter
    <2> QED BY <1>4, <1>5, <2>4, <2>5 DEF GoodRouter
<1>15. /\ RecordsOK' /\ PaymentsOrdered' /\ LogGenuine' /\ LogClosed' /\ WatermarkTrue'
       /\ CommittedLogged' /\ MergerOK' /\ FrontierOK'
       /\ AppliedOnce' /\ NoLateEvent' /\ AppliedInOrder'
    BY <1>6, <1>10, <1>11, <1>13, <1>14, SentInv
<1>16. GoodRouter(me)'
    <2>1. GoodRouter(old)' BY <1>4, <1>10, SentRouter
    <2> QED BY <1>3, <1>5, <1>8, <2>1 DEF GoodRouter
<1>17. RouterOK'
    <2>1. SUFFICES ASSUME NEW p \in Router, NEW it, it = router'[p]
                   PROVE  IF it.src = None THEN it.phase = "poll" ELSE GoodRouter(it)'
        BY DEF RouterOK
    <2>2. CASE p = r
        BY <1>1, <1>7, <1>8, <1>4, <1>5, <1>16, <2>1, <2>2 DEF TypeOK
    <2>3. CASE p # r
        <3>1. it = router[p] BY <1>1, <1>7, <2>1, <2>3 DEF TypeOK
        <3> QED BY <3>1, <1>10, SentRouter DEF IInv, RouterOK
    <2> QED BY <2>2, <2>3
<1> QED BY <1>1, <1>15, <1>17 DEF IInv

-----------------------------------------------------------------------------
(* The two orders. *)

LEMMA AfterProps ==
    ASSUME NEW x \in Mark, NEW y \in Mark, NEW z \in Mark
    PROVE  /\ ~After(x, x)
           /\ ~After(x, y) /\ After(z, y) => ~After(x, z)
           /\ ~After(x, y) /\ x # y => After(y, x)
BY DEF After, Mark

LEMMA LessProps ==
    ASSUME NEW x \in ReleaseKey, NEW y \in ReleaseKey, NEW z \in ReleaseKey
    PROVE  /\ ~Less(x, x)
           /\ Less(x, y) => ~Less(y, x)
           /\ ~Less(y, x) /\ Less(y, z) => Less(x, z)
           /\ x.pos < y.pos => Less(x, y)
BY DEF Less, ReleaseKey, Pos

LEMMA KeyType ==
    ASSUME NEW ev \in Event
    PROVE  KeyOf(ev) \in ReleaseKey /\ KeyOf(ev).pos = ev.pos /\ MarkOf(ev) \in Mark
BY NumAssumption DEF KeyOf, MarkOf, Event, ReleaseKey, Mark, Source, Entity

-----------------------------------------------------------------------------
(* What the merger's invariants mean for the events owed to it. *)

LEMMA AggTypes ==
    ASSUME TypeOK, NEW a \in Agg
    PROVE  /\ agg[a].m \in MergerState /\ agg[a].applied \in Seq(Event)
           /\ agg[a].next \in Nat \ {0} /\ Len(events[a]) \in Nat
           /\ agg[a].m.buf \subseteq Event /\ AppliedBy(agg[a]) \subseteq Event
           /\ \A i \in 1..Len(events[a]) : events[a][i] \in Event \cup Watermark
           /\ agg[a] = [m |-> agg[a].m, next |-> agg[a].next, applied |-> agg[a].applied]
<1>1. agg[a] \in AggState /\ events[a] \in Seq(Event \cup Watermark) BY DEF TypeOK
<1>2. agg[a].m \in MergerState /\ agg[a].applied \in Seq(Event) /\ agg[a].next \in Nat \ {0}
    BY <1>1 DEF AggState
<1>3. agg[a].m.buf \subseteq Event BY <1>2 DEF MergerState
<1>4. AppliedBy(agg[a]) \subseteq Event BY <1>2 DEF AppliedBy
<1> QED BY <1>1, <1>2, <1>3, <1>4 DEF AggState

(* Every event owed at or below the high-water mark is applied or held. *)
LEMMA BelowMark ==
    ASSUME IInv, NEW a \in Agg, NEW s \in Source, NEW mk \in AllOwed(s, a),
           ~After(mk, agg[a].m.recv[s])
    PROVE  EventOf(s, mk) \in AppliedBy(agg[a]) \cup agg[a].m.buf
<1> DEFINE me == agg[a]
           log == events[a]
<1>1. TypeOK /\ GoodMerger(me, log) BY DEF IInv, MergerOK
<1>2. Len(payments[s]) \in Nat BY <1>1 DEF TypeOK
<1>3. mk.offset \in 1..Len(payments[s]) /\ mk \in Mark /\ mk.entity \in Nat
    BY <1>2, NumAssumption DEF AllOwed, Owed, Mark, Entity
<1>4. me.m.recv[s] # [offset |-> 0, entity |-> 0]
    BY <1>2, <1>3 DEF After
<1>5. PICK i \in 1..(me.next - 1) :
          log[i].kind = "event" /\ log[i].src = s /\ MarkOf(log[i]) = me.m.recv[s]
    BY <1>1, <1>4 DEF GoodMerger
<1>6. me.next \in 1..(Len(log) + 1) /\ Len(log) \in Nat
    BY <1>1, AggTypes DEF GoodMerger
<1>7. i \in 1..Len(log) BY <1>6
<1>8. IsEventOf(a, i) BY <1>5, <1>7 DEF IInv, LogGenuine
<1>9. CASE mk = MarkOf(log[i])
    <2>1. log[i] = EventOf(s, mk) BY <1>5, <1>8, <1>9 DEF IsEventOf
    <2> QED BY <1>1, <1>5, <2>1 DEF GoodMerger
<1>10. CASE mk # MarkOf(log[i])
    <2>1. me.m.recv[s] \in Mark BY <1>1, AggTypes DEF MergerState
    <2>2. After(MarkOf(log[i]), mk) BY <1>3, <1>5, <1>10, <2>1, AfterProps
    <2>3. Logged(a, i - 1, s, mk) BY <1>5, <1>7, <2>2 DEF IInv, LogClosed
    <2>4. PICK j \in 1..(i - 1) : log[j] = EventOf(s, mk) BY <2>3 DEF Logged
    <2>5. j \in 1..(me.next - 1) BY <1>6
    <2>6. log[j].kind = "event" BY <2>4 DEF EventOf
    <2> QED BY <1>1, <2>4, <2>5, <2>6 DEF GoodMerger
<1> QED BY <1>9, <1>10

(* Every event owed at or before the minimum watermark is applied or held: *)
(* its source's watermark came after it.                                   *)
LEMMA BelowLow ==
    ASSUME IInv, InOrder, NEW a \in Agg, NEW s \in Source, NEW mk \in AllOwed(s, a),
           AtOrBeforeLow(agg[a].m, payments[s][mk.offset].pos)
    PROVE  /\ EventOf(s, mk) \in AppliedBy(agg[a]) \cup agg[a].m.buf
           /\ ~After(mk, agg[a].m.recv[s])
<1> DEFINE me == agg[a]
           log == events[a]
           p == payments[s][mk.offset].pos
<1>1. TypeOK /\ GoodMerger(me, log) BY DEF IInv, MergerOK
<1>2. Len(payments[s]) \in Nat /\ payments[s] \in Seq(Record) BY <1>1 DEF TypeOK
<1>3. mk.offset \in 1..Len(payments[s]) /\ mk.entity \in Entity /\ payments[s][mk.offset].to[mk.entity] = a
    BY DEF AllOwed, Owed
<1>4. p \in Nat /\ p > 0
    <2>1. payments[s][mk.offset] \in Record BY <1>2, <1>3
    <2>2. p > 0 BY <1>3, AggAssumption DEF IInv, RecordsOK
    <2> QED BY <2>1, <2>2 DEF Record, Pos
<1>5. me.m.wm[s] \in Nat /\ p <= me.m.wm[s]
    BY <1>1, AggTypes DEF AtOrBeforeLow, MergerState, Pos
<1>6. PICK i \in 1..(me.next - 1) :
          log[i] = [kind |-> "watermark", src |-> s, pos |-> me.m.wm[s]]
    BY <1>1, <1>4, <1>5 DEF GoodMerger
<1>7. me.next \in 1..(Len(log) + 1) /\ Len(log) \in Nat
    BY <1>1, AggTypes DEF GoodMerger
<1>8. i \in 1..Len(log) BY <1>7
<1>9. Logged(a, i - 1, s, mk)
    BY <1>5, <1>6, <1>8 DEF IInv, WatermarkTrue
<1>10. PICK j \in 1..(i - 1) : log[j] = EventOf(s, mk) BY <1>9 DEF Logged
<1>11. j \in 1..(me.next - 1) BY <1>7
<1>12. log[j].kind = "event" /\ log[j].src = s /\ MarkOf(log[j]) = mk
    <2>1. mk = [offset |-> mk.offset, entity |-> mk.entity] BY DEF AllOwed, Owed
    <2> QED BY <1>10, <2>1 DEF EventOf, MarkOf
<1> QED BY <1>1, <1>10, <1>11, <1>12 DEF GoodMerger

-----------------------------------------------------------------------------
(* Aggregators: one of them moves. *)

Sorted(ap) == \A i, j \in DOMAIN ap : i < j => Less(KeyOf(ap[i]), KeyOf(ap[j]))
Injective(ap) == \A i, j \in DOMAIN ap : ap[i] = ap[j] => i = j

GoodAgg(me, log) ==
    /\ GoodMerger(me, log)
    /\ InOrder => GoodFrontier(me) /\ me.m.late = 0 /\ Sorted(me.applied)
    /\ Injective(me.applied)
    /\ AppliedBy(me) \cap me.m.buf = {}

LEMMA AggChange ==
    ASSUME IInv, TypeOK', NEW a \in Agg, NEW me, agg' = [agg EXCEPT ![a] = me],
           UNCHANGED <<payments, events, committed, owner, router>>,
           GoodAgg(me, events[a])
    PROVE  IInv'
<1>1. \A b \in Agg : agg'[b] = IF b = a THEN me ELSE agg[b]
    BY DEF IInv, TypeOK
<1>2. RecordsOK' /\ PaymentsOrdered' /\ LogGenuine' /\ LogClosed' /\ WatermarkTrue'
    BY LogPartStable
<1>3. CommittedLogged' BY CommittedStable DEF IInv
<1>4. RouterOK'
    <2>1. SUFFICES ASSUME NEW r \in Router, NEW it, it = router[r]
                   PROVE  IF it.src = None THEN it.phase = "poll" ELSE GoodRouter(it)'
        BY DEF RouterOK
    <2> QED BY <2>1, GoodRouterStable DEF IInv, RouterOK
<1>5. MergerOK' BY <1>1 DEF IInv, MergerOK, GoodAgg
<1>6. FrontierOK' BY <1>1 DEF IInv, FrontierOK, GoodAgg
<1>7. NoLateEvent' BY <1>1 DEF IInv, NoLateEvent, GoodAgg
<1>8. AppliedInOrder' BY <1>1 DEF IInv, AppliedInOrder, GoodAgg, Sorted
<1>9. AppliedOnce'
    <2>1. SUFFICES ASSUME NEW b \in Agg
                   PROVE  Injective(agg'[b].applied) /\ AppliedBy(agg'[b]) \cap agg'[b].m.buf = {}
        BY DEF AppliedOnce, AppliedTo, Injective
    <2> QED BY <1>1 DEF IInv, AppliedOnce, AppliedTo, Injective, GoodAgg
<1> QED BY <1>2, <1>3, <1>4, <1>5, <1>6, <1>7, <1>8, <1>9 DEF IInv

LEMMA IInvGoodAgg ==
    ASSUME IInv, NEW a \in Agg
    PROVE  GoodAgg(agg[a], events[a])
BY DEF IInv, GoodAgg, MergerOK, FrontierOK, NoLateEvent, AppliedInOrder, AppliedOnce,
       AppliedTo, Sorted, Injective

(* Applying one more event. *)
LEMMA AppendApplied ==
    ASSUME NEW ap \in Seq(Event), NEW ev \in Event, Injective(ap),
           ev \notin {ap[i] : i \in DOMAIN ap}
    PROVE  /\ Injective(Append(ap, ev))
           /\ {Append(ap, ev)[i] : i \in DOMAIN Append(ap, ev)} = {ap[i] : i \in DOMAIN ap} \cup {ev}
           /\ Sorted(ap) /\ (\A i \in DOMAIN ap : Less(KeyOf(ap[i]), KeyOf(ev))) => Sorted(Append(ap, ev))
<1> DEFINE bp == Append(ap, ev)
<1>1. /\ Len(ap) \in Nat /\ DOMAIN ap = 1..Len(ap) /\ DOMAIN bp = 1..(Len(ap) + 1)
      /\ \A i \in 1..Len(ap) : bp[i] = ap[i]
      /\ bp[Len(ap) + 1] = ev
    OBVIOUS
<1> HIDE DEF bp
<1>2. \A i \in DOMAIN bp : i \in DOMAIN ap \/ i = Len(ap) + 1
    BY <1>1
<1>3. Injective(bp)
    BY <1>1, <1>2 DEF Injective
<1>4. {bp[i] : i \in DOMAIN bp} = {ap[i] : i \in DOMAIN ap} \cup {ev}
    BY <1>1, <1>2
<1>5. ASSUME Sorted(ap), \A i \in DOMAIN ap : Less(KeyOf(ap[i]), KeyOf(ev))
      PROVE  Sorted(bp)
    BY <1>1, <1>2, <1>5 DEF Sorted
<1> QED BY <1>3, <1>4, <1>5 DEF bp

LEMMA ReleaseInv ==
    ASSUME IInv, NEW a \in Agg, Release(a)
    PROVE  IInv'
<1>1. TypeOK /\ TypeOK' BY AggType DEF IInv, AggWork
<1>2. PICK old : old = agg[a] OBVIOUS
<1>3. PICK log : log = events[a] OBVIOUS
<1>4. PICK ev \in agg[a].m.buf :
          /\ Releasable(agg[a].m, ev)
          /\ agg' = [agg EXCEPT ![a] = [m |-> Pop(agg[a].m, ev), next |-> agg[a].next,
                                        applied |-> Append(agg[a].applied, ev)]]
    BY DEF Release
<1>5. /\ old.m \in MergerState /\ old.applied \in Seq(Event) /\ old.m.buf \subseteq Event
      /\ AppliedBy(old) \subseteq Event /\ ev \in Event /\ ev \in old.m.buf /\ Releasable(old.m, ev)
    BY <1>1, <1>2, <1>4, AggTypes
<1> DEFINE me == [m |-> Pop(old.m, ev), next |-> old.next, applied |-> Append(old.applied, ev)]
<1>6. /\ me.next = old.next /\ me.applied = Append(old.applied, ev)
      /\ me.m.wm = old.m.wm /\ me.m.recv = old.m.recv /\ me.m.late = old.m.late
      /\ me.m.buf = old.m.buf \ {ev} /\ me.m.last = KeyOf(ev)
    BY <1>5 DEF Pop, MergerState
<1>7. agg' = [agg EXCEPT ![a] = me] BY <1>2, <1>4
<1> HIDE DEF me
<1>8. GoodAgg(old, log) BY <1>2, <1>3, IInvGoodAgg
<1>9. ev \notin AppliedBy(old) BY <1>5, <1>8 DEF GoodAgg
<1>10. AppliedBy(me) = AppliedBy(old) \cup {ev} /\ Injective(me.applied)
    BY <1>5, <1>6, <1>8, <1>9, AppendApplied DEF AppliedBy, GoodAgg
<1>11. AppliedBy(me) \cup me.m.buf = AppliedBy(old) \cup old.m.buf
    BY <1>5, <1>6, <1>10
<1>12. GoodMerger(me, log)
    BY <1>6, <1>8, <1>11 DEF GoodAgg, GoodMerger
<1>13. AppliedBy(me) \cap me.m.buf = {}
    BY <1>6, <1>8, <1>10 DEF GoodAgg
<1>14. ASSUME InOrder
       PROVE  GoodFrontier(me) /\ me.m.late = 0 /\ Sorted(me.applied)
    <2>1. GoodFrontier(old) /\ old.m.late = 0 /\ Sorted(old.applied)
        BY <1>8, <1>14 DEF GoodAgg
    <2>2. Less(old.m.last, KeyOf(ev)) BY <1>5, <2>1 DEF GoodFrontier
    <2>3. old.m.last \in ReleaseKey /\ KeyOf(ev) \in ReleaseKey
        BY <1>5, KeyType DEF MergerState
    <2>4. ASSUME NEW x \in AppliedBy(old)
          PROVE  Less(KeyOf(x), KeyOf(ev))
        <3>1. ~Less(old.m.last, KeyOf(x)) BY <2>1 DEF GoodFrontier
        <3>2. KeyOf(x) \in ReleaseKey BY <1>5, KeyType
        <3> QED BY <2>2, <2>3, <3>1, <3>2, LessProps
    <2>5. Sorted(me.applied)
        <3>1. \A i \in DOMAIN old.applied : old.applied[i] \in AppliedBy(old) BY DEF AppliedBy
        <3>2. ev \notin {old.applied[i] : i \in DOMAIN old.applied} BY <1>9 DEF AppliedBy
        <3>3. Injective(old.applied) BY <1>8 DEF GoodAgg
        <3> QED BY <1>5, <1>6, <2>1, <2>4, <3>1, <3>2, <3>3, AppendApplied
    <2>6. \A x \in AppliedBy(me) : ~Less(KeyOf(ev), KeyOf(x))
        <3>1. SUFFICES ASSUME NEW x \in AppliedBy(me) PROVE ~Less(KeyOf(ev), KeyOf(x)) OBVIOUS
        <3>2. x \in Event BY <1>5, <1>10
        <3>3. KeyOf(x) \in ReleaseKey BY <3>2, KeyType
        <3> QED BY <1>10, <2>3, <2>4, <3>3, LessProps
    <2>7. \A x \in me.m.buf : Less(KeyOf(ev), KeyOf(x))
        BY <1>5, <1>6 DEF Releasable, IsNext
    <2>8. AtOrBeforeLow(me.m, me.m.last.pos)
        BY <1>5, <1>6, KeyType DEF Releasable, AtOrBeforeLow
    <2> QED BY <1>6, <2>1, <2>5, <2>6, <2>7, <2>8 DEF GoodFrontier
<1>15. GoodAgg(me, events[a])
    BY <1>3, <1>10, <1>12, <1>13, <1>14 DEF GoodAgg
<1> QED BY <1>1, <1>7, <1>15, AggChange DEF Release

-----------------------------------------------------------------------------
(* Aggregators: a record is handled. *)

(* Aggregator a, in state old with log log, is about to handle record rec. *)
Handling(a, old, log, rec) ==
    /\ old = agg[a]
    /\ log = events[a]
    /\ old.next <= Len(log)
    /\ rec = log[old.next]

LEMMA HandlingFacts ==
    ASSUME IInv, NEW a \in Agg, NEW old, NEW log, NEW rec, Handling(a, old, log, rec)
    PROVE  /\ GoodAgg(old, log)
           /\ old.m \in MergerState /\ old.applied \in Seq(Event) /\ old.m.buf \subseteq Event
           /\ AppliedBy(old) \subseteq Event
           /\ old.next \in 1..Len(log) /\ Len(log) \in Nat
           /\ rec \in Event \cup Watermark
           /\ \A i \in 1..Len(log) : log[i] \in Event \cup Watermark
<1>1. TypeOK BY DEF IInv
<1>2. GoodAgg(old, log) BY IInvGoodAgg DEF Handling
<1>3. old.next \in Nat \ {0} /\ Len(log) \in Nat /\ old.next <= Len(log)
    BY <1>1, AggTypes DEF Handling
<1>4. old.next \in 1..Len(log) BY <1>3
<1> QED BY <1>1, <1>2, <1>3, <1>4, AggTypes DEF Handling

(* An event in the log that is being handled is owed. *)
LEMMA HandledIsOwed ==
    ASSUME IInv, NEW a \in Agg, NEW old, NEW log, NEW rec, Handling(a, old, log, rec),
           rec.kind = "event"
    PROVE  /\ rec \in Event
           /\ MarkOf(rec) \in AllOwed(rec.src, a) /\ rec = EventOf(rec.src, MarkOf(rec))
           /\ rec.pos = payments[rec.src][MarkOf(rec).offset].pos
<1>1. rec \in Event \cup Watermark /\ old.next \in 1..Len(log) BY HandlingFacts
<1>2. rec \in Event BY <1>1 DEF Event, Watermark
<1>3. IsEventOf(a, old.next) BY <1>1 DEF IInv, LogGenuine, Handling
<1>4. MarkOf(rec) \in AllOwed(rec.src, a) /\ rec = EventOf(rec.src, MarkOf(rec))
    BY <1>3 DEF IsEventOf, Handling
<1>5. EventOf(rec.src, MarkOf(rec)).pos = payments[rec.src][MarkOf(rec).offset].pos
    BY DEF EventOf
<1> QED BY <1>2, <1>4, <1>5

(* A watermark changes nothing but the watermark of its source. *)
LEMMA WatermarkGood ==
    ASSUME IInv, NEW a \in Agg, NEW old, NEW log, NEW rec, Handling(a, old, log, rec),
           rec.kind = "watermark",
           NEW me, me.m = AdvanceWatermark(old.m, rec), me.next = old.next + 1,
           me.applied = old.applied
    PROVE  GoodAgg(me, log)
<1>1. /\ GoodAgg(old, log) /\ old.m \in MergerState
      /\ old.next \in 1..Len(log) /\ Len(log) \in Nat
    BY HandlingFacts
<1>2. rec \in Watermark
    <2>1. rec \in Event \cup Watermark BY HandlingFacts
    <2> QED BY <2>1 DEF Event, Watermark
<1>3. rec.src \in Source /\ rec.pos \in Nat
      /\ rec = [kind |-> "watermark", src |-> rec.src, pos |-> rec.pos]
    BY <1>2 DEF Watermark, Pos
<1>4. old.m.wm \in [Source -> Nat] BY <1>1 DEF MergerState, Pos
<1>5. /\ me.m.recv = old.m.recv /\ me.m.buf = old.m.buf /\ me.m.late = old.m.late
      /\ me.m.last = old.m.last
      /\ \A s \in Source : me.m.wm[s] = IF s = rec.src /\ old.m.wm[s] < rec.pos
                                        THEN rec.pos ELSE old.m.wm[s]
    BY <1>1, <1>3, <1>4 DEF AdvanceWatermark, MergerState
<1>6. AppliedBy(me) = AppliedBy(old) BY DEF AppliedBy
<1>7. GoodMerger(me, log)
    <2>1. me.next \in 1..(Len(log) + 1) BY <1>1
    <2>2. \A i \in 1..(me.next - 1) : i \in 1..(old.next - 1) \/ (i = old.next /\ log[i] = rec)
        BY <1>1 DEF Handling
    <2>3. \A i \in 1..(old.next - 1) : i \in 1..(me.next - 1)
        BY <1>1
    <2>4. ASSUME NEW i \in 1..(me.next - 1), log[i].kind = "event"
          PROVE  /\ ~After(MarkOf(log[i]), me.m.recv[log[i].src])
                 /\ log[i] \in AppliedBy(me) \cup me.m.buf
        BY <1>1, <1>5, <1>6, <2>2, <2>4 DEF GoodAgg, GoodMerger
    <2>5. \A ev \in AppliedBy(me) \cup me.m.buf : \E i \in 1..(me.next - 1) : log[i] = ev
        BY <1>1, <1>5, <1>6, <2>3 DEF GoodAgg, GoodMerger
    <2>6. ASSUME NEW s \in Source
          PROVE  \/ me.m.recv[s] = [offset |-> 0, entity |-> 0]
                 \/ \E i \in 1..(me.next - 1) :
                       log[i].kind = "event" /\ log[i].src = s /\ MarkOf(log[i]) = me.m.recv[s]
        <3>1. CASE old.m.recv[s] # [offset |-> 0, entity |-> 0]
            <4>1. PICK i \in 1..(old.next - 1) :
                      log[i].kind = "event" /\ log[i].src = s /\ MarkOf(log[i]) = old.m.recv[s]
                BY <1>1, <3>1 DEF GoodAgg, GoodMerger
            <4> QED BY <4>1, <1>1, <1>5, <2>3
        <3> QED BY <3>1, <1>5, <2>3
    <2>7. ASSUME NEW s \in Source
          PROVE  \/ me.m.wm[s] = 0
                 \/ \E i \in 1..(me.next - 1) :
                       log[i] = [kind |-> "watermark", src |-> s, pos |-> me.m.wm[s]]
        <3>1. CASE s = rec.src /\ old.m.wm[s] < rec.pos
            <4>1. old.next \in 1..(me.next - 1) /\ log[old.next] = rec BY <1>1 DEF Handling
            <4> QED BY <1>3, <1>5, <3>1, <4>1
        <3>2. CASE ~(s = rec.src /\ old.m.wm[s] < rec.pos)
            BY <1>1, <1>5, <2>3, <3>2 DEF GoodAgg, GoodMerger
        <3> QED BY <3>1, <3>2
    <2> QED BY <2>1, <2>4, <2>5, <2>6, <2>7 DEF GoodMerger
<1>8. ASSUME InOrder PROVE GoodFrontier(me)
    <2>1. GoodFrontier(old) BY <1>1, <1>8 DEF GoodAgg
    <2>2. old.m.last.pos \in Nat BY <1>1 DEF MergerState, ReleaseKey, Pos
    <2>3. AtOrBeforeLow(me.m, me.m.last.pos)
        BY <1>3, <1>4, <1>5, <2>1, <2>2 DEF GoodFrontier, AtOrBeforeLow
    <2> QED BY <1>5, <1>6, <2>1, <2>3 DEF GoodFrontier
<1> QED BY <1>1, <1>5, <1>6, <1>7, <1>8 DEF GoodAgg

(* A duplicate changes nothing but a counter. *)
LEMMA DuplicateGood ==
    ASSUME IInv, NEW a \in Agg, NEW old, NEW log, NEW rec, Handling(a, old, log, rec),
           rec.kind = "event", IsDuplicate(old.m, rec),
           NEW me, me.m = Add(old.m, rec), me.next = old.next + 1, me.applied = old.applied
    PROVE  GoodAgg(me, log)
<1>1. /\ GoodAgg(old, log) /\ old.m \in MergerState
      /\ old.next \in 1..Len(log) /\ Len(log) \in Nat
    BY HandlingFacts
<1>2. rec \in Event /\ MarkOf(rec) \in AllOwed(rec.src, a) /\ rec = EventOf(rec.src, MarkOf(rec))
    BY HandledIsOwed
<1>3. rec \in AppliedBy(old) \cup old.m.buf
    BY <1>2, BelowMark DEF IsDuplicate, Handling, Event
<1>4. /\ me.m.recv = old.m.recv /\ me.m.buf = old.m.buf /\ me.m.late = old.m.late
      /\ me.m.last = old.m.last /\ me.m.wm = old.m.wm
    BY <1>1 DEF Add, MergerState
<1>5. AppliedBy(me) = AppliedBy(old) BY DEF AppliedBy
<1>6. GoodMerger(me, log)
    <2>1. me.next \in 1..(Len(log) + 1) BY <1>1
    <2>2. \A i \in 1..(me.next - 1) : i \in 1..(old.next - 1) \/ (i = old.next /\ log[i] = rec)
        BY <1>1 DEF Handling
    <2>3. \A i \in 1..(old.next - 1) : i \in 1..(me.next - 1)
        BY <1>1
    <2>4. ASSUME NEW i \in 1..(me.next - 1), log[i].kind = "event"
          PROVE  /\ ~After(MarkOf(log[i]), me.m.recv[log[i].src])
                 /\ log[i] \in AppliedBy(me) \cup me.m.buf
        BY <1>1, <1>3, <1>4, <1>5, <2>2, <2>4 DEF GoodAgg, GoodMerger, IsDuplicate
    <2>5. \A ev \in AppliedBy(me) \cup me.m.buf : \E i \in 1..(me.next - 1) : log[i] = ev
        BY <1>1, <1>4, <1>5, <2>3 DEF GoodAgg, GoodMerger
    <2>6. ASSUME NEW s \in Source
          PROVE  \/ me.m.recv[s] = [offset |-> 0, entity |-> 0]
                 \/ \E i \in 1..(me.next - 1) :
                       log[i].kind = "event" /\ log[i].src = s /\ MarkOf(log[i]) = me.m.recv[s]
        <3>1. CASE old.m.recv[s] # [offset |-> 0, entity |-> 0]
            <4>1. PICK i \in 1..(old.next - 1) :
                      log[i].kind = "event" /\ log[i].src = s /\ MarkOf(log[i]) = old.m.recv[s]
                BY <1>1, <3>1 DEF GoodAgg, GoodMerger
            <4> QED BY <4>1, <1>1, <1>4, <2>3
        <3> QED BY <3>1, <1>4, <2>3
    <2>7. ASSUME NEW s \in Source
          PROVE  \/ me.m.wm[s] = 0
                 \/ \E i \in 1..(me.next - 1) :
                       log[i] = [kind |-> "watermark", src |-> s, pos |-> me.m.wm[s]]
        BY <1>1, <1>4, <2>3 DEF GoodAgg, GoodMerger
    <2> QED BY <2>1, <2>4, <2>5, <2>6, <2>7 DEF GoodMerger
<1>7. ASSUME InOrder PROVE GoodFrontier(me)
    BY <1>1, <1>4, <1>5, <1>7 DEF GoodAgg, GoodFrontier, AtOrBeforeLow
<1> QED BY <1>1, <1>4, <1>5, <1>6, <1>7 DEF GoodAgg

(* An event that is no duplicate is new to the merger. *)
LEMMA FreshIsNew ==
    ASSUME IInv, NEW a \in Agg, NEW old, NEW log, NEW rec, Handling(a, old, log, rec),
           rec.kind = "event", ~IsDuplicate(old.m, rec)
    PROVE  rec \notin AppliedBy(old) \cup old.m.buf
<1>1. SUFFICES ASSUME rec \in AppliedBy(old) \cup old.m.buf PROVE FALSE
    OBVIOUS
<1>2. GoodMerger(old, log) BY HandlingFacts DEF GoodAgg
<1>3. PICK i \in 1..(old.next - 1) : log[i] = rec BY <1>1, <1>2 DEF GoodMerger
<1>4. ~After(MarkOf(rec), old.m.recv[rec.src]) BY <1>2, <1>3 DEF GoodMerger
<1> QED BY <1>4 DEF IsDuplicate

(* What receiving such an event, late or in time, does to the merger. *)
LEMMA FreshMerger ==
    ASSUME IInv, NEW a \in Agg, NEW old, NEW log, NEW rec, Handling(a, old, log, rec),
           rec.kind = "event", ~IsDuplicate(old.m, rec),
           NEW me, me.next = old.next + 1, me.m.wm = old.m.wm,
           me.m.recv = [old.m.recv EXCEPT ![rec.src] = MarkOf(rec)],
           AppliedBy(me) \cup me.m.buf = AppliedBy(old) \cup old.m.buf \cup {rec}
    PROVE  GoodMerger(me, log)
<1>1. /\ GoodMerger(old, log) /\ old.m \in MergerState
      /\ old.next \in 1..Len(log) /\ Len(log) \in Nat
      /\ \A i \in 1..Len(log) : log[i] \in Event \cup Watermark
    BY HandlingFacts DEF GoodAgg
<1>2. rec \in Event BY HandledIsOwed
<1>3. rec.src \in Source /\ MarkOf(rec) \in Mark /\ old.m.recv \in [Source -> Mark]
    BY <1>1, <1>2, KeyType DEF Event, MergerState
<1>4. After(MarkOf(rec), old.m.recv[rec.src]) BY DEF IsDuplicate
<1>5. \A s \in Source : me.m.recv[s] = IF s = rec.src THEN MarkOf(rec) ELSE old.m.recv[s]
    BY <1>3
<1>6. me.next \in 1..(Len(log) + 1) BY <1>1
<1>7. \A i \in 1..(me.next - 1) : i \in 1..(old.next - 1) \/ (i = old.next /\ log[i] = rec)
    BY <1>1 DEF Handling
<1>8. \A i \in 1..(old.next - 1) : i \in 1..(me.next - 1)
    BY <1>1
<1>9. old.next \in 1..(me.next - 1) /\ log[old.next] = rec
    BY <1>1 DEF Handling
<1>10. ASSUME NEW i \in 1..(me.next - 1), log[i].kind = "event"
       PROVE  /\ ~After(MarkOf(log[i]), me.m.recv[log[i].src])
              /\ log[i] \in AppliedBy(me) \cup me.m.buf
    <2>1. CASE i = old.next /\ log[i] = rec
        BY <1>3, <1>5, <2>1, AfterProps
    <2>2. CASE i \in 1..(old.next - 1)
        <3>1. /\ ~After(MarkOf(log[i]), old.m.recv[log[i].src])
              /\ log[i] \in AppliedBy(old) \cup old.m.buf
            BY <1>1, <1>10, <2>2 DEF GoodMerger
        <3>2. log[i] \in Event
            <4>1. i \in 1..Len(log) BY <1>1, <1>6
            <4> QED BY <1>1, <1>10, <4>1 DEF Event, Watermark
        <3>3. log[i].src \in Source /\ MarkOf(log[i]) \in Mark BY <3>2, KeyType DEF Event
        <3>4. CASE log[i].src = rec.src
            BY <1>3, <1>4, <1>5, <3>1, <3>3, <3>4, AfterProps
        <3>5. CASE log[i].src # rec.src
            BY <1>5, <3>1, <3>3, <3>5
        <3> QED BY <3>1, <3>4, <3>5
    <2> QED BY <1>7, <2>1, <2>2
<1>11. ASSUME NEW ev \in AppliedBy(me) \cup me.m.buf
       PROVE  \E i \in 1..(me.next - 1) : log[i] = ev
    <2>1. CASE ev = rec BY <1>9, <2>1
    <2>2. CASE ev \in AppliedBy(old) \cup old.m.buf
        BY <1>1, <1>8, <2>2 DEF GoodMerger
    <2> QED BY <2>1, <2>2
<1>12. ASSUME NEW s \in Source
       PROVE  \/ me.m.recv[s] = [offset |-> 0, entity |-> 0]
              \/ \E i \in 1..(me.next - 1) :
                    log[i].kind = "event" /\ log[i].src = s /\ MarkOf(log[i]) = me.m.recv[s]
    <2>1. CASE s = rec.src BY <1>5, <1>9, <2>1
    <2>2. CASE s # rec.src /\ old.m.recv[s] # [offset |-> 0, entity |-> 0]
        <3>1. PICK i \in 1..(old.next - 1) :
                  log[i].kind = "event" /\ log[i].src = s /\ MarkOf(log[i]) = old.m.recv[s]
            BY <1>1, <2>2 DEF GoodMerger
        <3> QED BY <3>1, <1>5, <1>8, <2>2
    <2> QED BY <1>5, <2>1, <2>2
<1>13. ASSUME NEW s \in Source
       PROVE  \/ me.m.wm[s] = 0
              \/ \E i \in 1..(me.next - 1) :
                    log[i] = [kind |-> "watermark", src |-> s, pos |-> me.m.wm[s]]
    BY <1>1, <1>8 DEF GoodMerger
<1> QED BY <1>6, <1>10, <1>11, <1>12, <1>13 DEF GoodMerger

(* A late event is applied at once; in order, there is none. *)
LEMMA LateGood ==
    ASSUME IInv, NEW a \in Agg, NEW old, NEW log, NEW rec, Handling(a, old, log, rec),
           rec.kind = "event", IsLate(old.m, rec),
           NEW me, me.m = Add(old.m, rec), me.next = old.next + 1,
           me.applied = Append(old.applied, rec)
    PROVE  GoodAgg(me, log)
<1>1. /\ GoodAgg(old, log) /\ old.m \in MergerState
      /\ old.applied \in Seq(Event) /\ AppliedBy(old) \subseteq Event
    BY HandlingFacts
<1>2. rec \in Event /\ MarkOf(rec) \in AllOwed(rec.src, a) /\ rec = EventOf(rec.src, MarkOf(rec))
      /\ rec.pos = payments[rec.src][MarkOf(rec).offset].pos
    BY HandledIsOwed
<1>3. ~IsDuplicate(old.m, rec) BY DEF IsLate
<1>4. rec \notin AppliedBy(old) \cup old.m.buf BY <1>3, FreshIsNew
<1>5. /\ me.m.recv = [old.m.recv EXCEPT ![rec.src] = MarkOf(rec)] /\ me.m.buf = old.m.buf
      /\ me.m.last = old.m.last /\ me.m.wm = old.m.wm
    BY <1>1, <1>3 DEF Add, Receive, MergerState
<1>6. Injective(me.applied) /\ AppliedBy(me) = AppliedBy(old) \cup {rec}
    BY <1>1, <1>2, <1>4, AppendApplied DEF GoodAgg, AppliedBy
<1>7. GoodMerger(me, log) BY <1>3, <1>5, <1>6, FreshMerger
<1>8. AppliedBy(me) \cap me.m.buf = {}
    BY <1>1, <1>4, <1>5, <1>6 DEF GoodAgg
<1>9. ~InOrder
    <2>1. SUFFICES ASSUME InOrder PROVE FALSE OBVIOUS
    <2>2. GoodFrontier(old) BY <1>1, <2>1 DEF GoodAgg
    <2>3. ~AtOrBeforeLow(old.m, rec.pos)
        BY <1>2, <1>3, <2>1, BelowLow DEF IsDuplicate, Handling, Event
    <2>4. ~Less(old.m.last, KeyOf(rec)) BY <2>3 DEF IsLate
    <2>5. old.m.last \in ReleaseKey /\ KeyOf(rec) \in ReleaseKey /\ KeyOf(rec).pos = rec.pos
        BY <1>1, <1>2, KeyType DEF MergerState
    <2>6. ~(old.m.last.pos < rec.pos) BY <2>4, <2>5, LessProps
    <2>7. old.m.last.pos \in Nat /\ rec.pos \in Nat /\ old.m.wm \in [Source -> Nat]
        BY <1>1, <1>2, <2>5 DEF ReleaseKey, Event, Pos, MergerState
    <2> QED BY <2>2, <2>3, <2>6, <2>7 DEF GoodFrontier, AtOrBeforeLow
<1> QED BY <1>6, <1>7, <1>8, <1>9 DEF GoodAgg

(* An event in time is held, ahead of the release frontier. *)
LEMMA HeldGood ==
    ASSUME IInv, NEW a \in Agg, NEW old, NEW log, NEW rec, Handling(a, old, log, rec),
           rec.kind = "event", ~IsDuplicate(old.m, rec), ~IsLate(old.m, rec),
           NEW me, me.m = Add(old.m, rec), me.next = old.next + 1, me.applied = old.applied
    PROVE  GoodAgg(me, log)
<1>1. GoodAgg(old, log) /\ old.m \in MergerState
    BY HandlingFacts
<1>2. rec \notin AppliedBy(old) \cup old.m.buf BY FreshIsNew
<1>3. /\ me.m.recv = [old.m.recv EXCEPT ![rec.src] = MarkOf(rec)]
      /\ me.m.buf = old.m.buf \cup {rec} /\ me.m.late = old.m.late
      /\ me.m.last = old.m.last /\ me.m.wm = old.m.wm
    BY <1>1 DEF Add, Receive, MergerState
<1>4. AppliedBy(me) = AppliedBy(old) BY DEF AppliedBy
<1>5. GoodMerger(me, log) BY <1>3, <1>4, FreshMerger
<1>6. Less(old.m.last, KeyOf(rec)) BY DEF IsLate
<1>7. ASSUME InOrder PROVE GoodFrontier(me)
    BY <1>1, <1>3, <1>4, <1>6, <1>7 DEF GoodAgg, GoodFrontier, AtOrBeforeLow
<1> QED BY <1>1, <1>2, <1>3, <1>4, <1>5, <1>7 DEF GoodAgg

LEMMA HandleInv ==
    ASSUME IInv, NEW a \in Agg, HandleRecord(a)
    PROVE  IInv'
<1>1. TypeOK /\ TypeOK' BY AggType DEF IInv, AggWork
<1>2. PICK old : old = agg[a] OBVIOUS
<1>3. PICK log : log = events[a] OBVIOUS
<1>4. PICK rec : rec = log[old.next] OBVIOUS
<1> DEFINE me == [m |-> IF rec.kind = "watermark" THEN AdvanceWatermark(old.m, rec)
                        ELSE Add(old.m, rec),
                  next |-> old.next + 1,
                  applied |-> IF rec.kind = "event" /\ IsLate(old.m, rec)
                              THEN Append(old.applied, rec) ELSE old.applied]
<1>5. Handling(a, old, log, rec) /\ agg' = [agg EXCEPT ![a] = me]
    BY <1>2, <1>3, <1>4 DEF HandleRecord, Handling
<1>6. /\ me.m = IF rec.kind = "watermark" THEN AdvanceWatermark(old.m, rec) ELSE Add(old.m, rec)
      /\ me.next = old.next + 1
      /\ me.applied = IF rec.kind = "event" /\ IsLate(old.m, rec)
                      THEN Append(old.applied, rec) ELSE old.applied
    OBVIOUS
<1> HIDE DEF me
<1>7. rec.kind = "event" \/ rec.kind = "watermark"
    BY <1>5, HandlingFacts DEF Event, Watermark
<1>8. GoodAgg(me, log)
    <2>1. CASE rec.kind = "watermark"
        BY <1>5, <1>6, <2>1, WatermarkGood
    <2>2. CASE rec.kind = "event" /\ IsDuplicate(old.m, rec)
        <3>1. ~IsLate(old.m, rec) BY <2>2 DEF IsLate
        <3> QED BY <1>5, <1>6, <2>2, <3>1, DuplicateGood
    <2>3. CASE rec.kind = "event" /\ IsLate(old.m, rec)
        BY <1>5, <1>6, <2>3, LateGood
    <2>4. CASE rec.kind = "event" /\ ~IsDuplicate(old.m, rec) /\ ~IsLate(old.m, rec)
        BY <1>5, <1>6, <2>4, HeldGood
    <2> QED BY <1>7, <2>1, <2>2, <2>3, <2>4
<1> QED BY <1>1, <1>3, <1>5, <1>8, AggChange DEF HandleRecord

-----------------------------------------------------------------------------
(* The inductive invariant. *)

LEMMA InitInv ==
    ASSUME Init
    PROVE  IInv
<1>1. /\ \A s \in Source : payments[s] = << >> /\ committed[s] = 1 /\ Len(payments[s]) = 0
      /\ \A a \in Agg : events[a] = << >> /\ Len(events[a]) = 0
      /\ \A r \in Router : router[r] = NewRouter(None, 1)
      /\ \A a \in Agg : agg[a] = [m |-> NewMerger, next |-> 1, applied |-> << >>]
    BY DEF Init
<1>2. 1..0 = {} /\ DOMAIN << >> = {} OBVIOUS
<1>3. TypeOK
    <2>1. payments \in [Source -> Seq(Record)] BY DEF Init
    <2>2. events \in [Agg -> Seq(Event \cup Watermark)] BY DEF Init
    <2>3. router \in [Router -> RouterState] BY FreeRouterType DEF Init
    <2>4. agg \in [Agg -> AggState] BY NewMergerType DEF Init, AggState
    <2> QED BY <2>1, <2>2, <2>3, <2>4 DEF Init, TypeOK
<1>4. RecordsOK /\ PaymentsOrdered BY <1>1, <1>2 DEF RecordsOK, PaymentsOrdered
<1>5. LogGenuine /\ LogClosed /\ WatermarkTrue
    BY <1>1, <1>2 DEF LogGenuine, LogClosed, WatermarkTrue
<1>6. CommittedLogged
    <2>1. \A s \in Source, a \in Agg : AllOwed(s, a) = {}
        BY <1>1, <1>2 DEF AllOwed, Owed
    <2> QED BY <1>1, <2>1 DEF CommittedLogged
<1>7. RouterOK BY <1>1 DEF RouterOK, NewRouter
<1>8. ASSUME NEW a \in Agg
      PROVE  GoodAgg(agg[a], events[a])
    <2> DEFINE me == agg[a]
    <2>1. me.next = 1 /\ me.applied = << >> /\ me.m = NewMerger BY <1>1
    <2>2. /\ NewMerger.buf = {} /\ NewMerger.late = 0 /\ NewMerger.last.pos = 0
           /\ \A s \in Source : NewMerger.wm[s] = 0
                                /\ NewMerger.recv[s] = [offset |-> 0, entity |-> 0]
        BY DEF NewMerger, MinPos
    <2>3. /\ me.next = 1 /\ me.applied = << >> /\ me.m = NewMerger
          /\ me.m.buf = {} /\ me.m.late = 0 /\ me.m.last.pos = 0
          /\ \A s \in Source : me.m.wm[s] = 0 /\ me.m.recv[s] = [offset |-> 0, entity |-> 0]
        BY <2>1, <2>2
    <2>4. AppliedBy(me) = {} BY <1>2, <2>3 DEF AppliedBy
    <2>5. GoodMerger(me, events[a])
        BY <1>1, <1>2, <2>3, <2>4 DEF GoodMerger
    <2>6. GoodFrontier(me)
        BY <2>3, <2>4 DEF GoodFrontier, AtOrBeforeLow
    <2>7. Sorted(me.applied) /\ Injective(me.applied)
        BY <1>2, <2>3 DEF Sorted, Injective
    <2> QED BY <2>3, <2>4, <2>5, <2>6, <2>7 DEF GoodAgg
<1>9. MergerOK /\ FrontierOK /\ NoLateEvent
    BY <1>8 DEF MergerOK, FrontierOK, NoLateEvent, GoodAgg
<1>10. AppliedOnce
    BY <1>8 DEF AppliedOnce, AppliedTo, GoodAgg, Injective
<1>11. AppliedInOrder
    BY <1>8 DEF AppliedInOrder, GoodAgg, Sorted
<1> QED BY <1>3, <1>4, <1>5, <1>6, <1>7, <1>9, <1>10, <1>11 DEF IInv

LEMMA StutterInv ==
    ASSUME IInv, UNCHANGED vars
    PROVE  IInv'
<1>1. TypeOK' BY DEF IInv, TypeOK, vars
<1>2. RecordsOK' /\ PaymentsOrdered' /\ LogGenuine' /\ LogClosed' /\ WatermarkTrue'
    BY LogPartStable DEF vars
<1>3. CommittedLogged' BY CommittedStable DEF IInv, vars
<1>4. RouterOK'
    <2>1. SUFFICES ASSUME NEW r \in Router, NEW it, it = router[r]
                   PROVE  IF it.src = None THEN it.phase = "poll" ELSE GoodRouter(it)'
        BY DEF RouterOK, vars
    <2> QED BY <2>1, GoodRouterStable DEF IInv, RouterOK, vars
<1> QED BY <1>1, <1>2, <1>3, <1>4, MergerPartStable DEF IInv, vars

LEMMA NextInv ==
    ASSUME IInv, [Next]_vars
    PROVE  IInv'
<1>1. CASE ProduceNext BY <1>1, ProduceInv
<1>2. CASE RouterNext BY <1>2, RouterInv
<1>3. CASE SendNext BY <1>3, SendEventInv, SendWatermarkInv DEF SendNext
<1>4. CASE AggNext BY <1>4, HandleInv, ReleaseInv DEF AggNext, AggWork
<1>5. CASE UNCHANGED vars BY <1>5, StutterInv
<1> QED BY <1>1, <1>2, <1>3, <1>4, <1>5, NextCases

-----------------------------------------------------------------------------
(* The theorems. *)

(* The inductive invariant holds in every reachable state. *)
THEOREM Invariance == Spec => []IInv
BY InitInv, NextInv, PTL DEF Spec

(* Type correctness: offsets stay within the logs, whatever crashes. *)
THEOREM TypeCorrect == Spec => []TypeOK
<1>1. IInv => TypeOK BY DEF IInv
<1> QED BY <1>1, Invariance, PTL

(* However routers crash, resend and overlap, no event reaches a merger    *)
(* late while the producers keep event-time order.                         *)
THEOREM NeverLate == Spec => []NoLateEvent
<1>1. IInv => NoLateEvent BY DEF IInv
<1> QED BY <1>1, Invariance, PTL

(* The velocity state is fed in strictly increasing release order. *)
THEOREM OrderRestored == Spec => []AppliedInOrder
<1>1. IInv => AppliedInOrder BY DEF IInv
<1> QED BY <1>1, Invariance, PTL

(* Resends are absorbed: no event counts twice, in order or not. *)
THEOREM ExactlyOnce == Spec => []AppliedOnce
<1>1. IInv => AppliedOnce BY DEF IInv
<1> QED BY <1>1, Invariance, PTL

(* The high-water mark is no hole: nothing at or below it is missing. *)
THEOREM NoGap == Spec => []NothingSkipped
<1>1. IInv => NothingSkipped BY BelowMark DEF NothingSkipped, AppliedTo
<1> QED BY <1>1, Invariance, PTL

(* A drained merger has applied everything its watermarks have passed. *)
THEOREM LowHolds == Spec => []LowIsComplete
<1>1. IInv => LowIsComplete
    <2>1. SUFFICES ASSUME IInv, InOrder, NEW a \in Agg, Drained(agg[a].m),
                          NEW s \in Source, NEW mk \in AllOwed(s, a),
                          AtOrBeforeLow(agg[a].m, payments[s][mk.offset].pos)
                   PROVE  EventOf(s, mk) \in AppliedTo(a)
        BY DEF LowIsComplete
    <2>2. EventOf(s, mk) \in AppliedBy(agg[a]) \cup agg[a].m.buf
        BY <2>1, BelowLow
    <2>3. EventOf(s, mk).pos = payments[s][mk.offset].pos BY DEF EventOf
    <2> QED BY <2>1, <2>2, <2>3 DEF Drained, AppliedTo
<1> QED BY <1>1, Invariance, PTL

(* Watermarks and the applied history never go back, although a restarted  *)
(* router repeats older watermarks.                                        *)
THEOREM WatermarksMonotone == Spec => WatermarksAdvance
<1> DEFINE Forward(old, me) == /\ \A s \in Source : old.m.wm[s] <= me.m.wm[s]
                               /\ Len(old.applied) <= Len(me.applied)
<1>1. ASSUME TypeOK, [Next]_vars, NEW b \in Agg
      PROVE  Forward(agg[b], agg'[b])
    <2>1. agg[b].applied \in Seq(Event) /\ agg[b].m \in MergerState
        BY <1>1, AggTypes
    <2>2. /\ agg[b].m.wm \in [Source -> Nat] /\ Len(agg[b].applied) \in Nat
          /\ agg[b].applied \in Seq(Event) /\ agg[b].m \in MergerState
        BY <2>1 DEF MergerState, Pos
    <2>3. CASE agg'[b] = agg[b] BY <2>2, <2>3
    <2>4. CASE HandleRecord(b)
        <3>1. PICK old : old = agg[b] OBVIOUS
        <3>2. PICK rec : rec = events[b][old.next] OBVIOUS
        <3>3. rec \in Event \cup Watermark
            <4>1. old.next \in Nat \ {0} /\ Len(events[b]) \in Nat /\ old.next <= Len(events[b])
                BY <1>1, <2>4, <3>1, AggTypes DEF HandleRecord
            <4>2. old.next \in 1..Len(events[b]) BY <4>1
            <4> QED BY <1>1, <3>2, <4>2, AggTypes
        <3>4. /\ agg'[b].m = IF rec.kind = "watermark" THEN AdvanceWatermark(old.m, rec)
                             ELSE Add(old.m, rec)
              /\ agg'[b].applied = IF rec.kind = "event" /\ IsLate(old.m, rec)
                                   THEN Append(old.applied, rec) ELSE old.applied
            BY <1>1, <2>4, <3>1, <3>2 DEF HandleRecord, TypeOK
        <3>5. rec.pos \in Nat /\ rec.src \in Source BY <3>3 DEF Event, Watermark, Pos
        <3>6. \A s \in Source : old.m.wm[s] <= agg'[b].m.wm[s]
            BY <2>2, <3>1, <3>4, <3>5 DEF AdvanceWatermark, Add, Receive, MergerState
        <3>7. Len(old.applied) <= Len(agg'[b].applied)
            <4>1. CASE rec.kind = "event" /\ IsLate(old.m, rec)
                <5>1. rec \in Event BY <3>3, <4>1 DEF Event, Watermark
                <5> QED BY <2>2, <3>1, <3>4, <4>1, <5>1
            <4>2. CASE ~(rec.kind = "event" /\ IsLate(old.m, rec))
                BY <2>2, <3>1, <3>4, <4>2
            <4> QED BY <4>1, <4>2
        <3> QED BY <3>1, <3>6, <3>7
    <2>5. CASE Release(b)
        <3>1. PICK ev \in agg[b].m.buf :
                  /\ agg'[b].m = Pop(agg[b].m, ev)
                  /\ agg'[b].applied = Append(agg[b].applied, ev)
            BY <1>1, <2>5 DEF Release, TypeOK
        <3>2. ev \in Event BY <2>2, <3>1 DEF MergerState
        <3>3. agg'[b].m.wm = agg[b].m.wm BY <2>2, <3>1 DEF Pop, MergerState
        <3>4. Len(agg'[b].applied) = Len(agg[b].applied) + 1 BY <2>2, <3>1, <3>2
        <3> QED BY <2>2, <3>3, <3>4
    <2>6. agg'[b] = agg[b] \/ HandleRecord(b) \/ Release(b)
        <3>1. CASE AggNext
            <4>1. PICK a \in Agg : HandleRecord(a) \/ Release(a) BY <3>1 DEF AggNext, AggWork
            <4> QED BY <1>1, <4>1 DEF HandleRecord, Release, TypeOK
        <3>2. CASE ProduceNext \/ RouterNext \/ SendNext \/ UNCHANGED vars
            <4>1. agg' = agg
                BY <3>2 DEF ProduceNext, Produce, ProducePayment, ProduceHeartbeat,
                    ProduceUndecodable, Write, RouterNext, Assign, RouteBatch, Flushed, Commit,
                    Crash, Revoked, Lost, SendNext, SendEvent, SendWatermark, vars
            <4> QED BY <4>1
        <3> QED BY <1>1, <3>1, <3>2, NextCases
    <2> QED BY <2>3, <2>4, <2>5, <2>6
<1>2. TypeOK /\ [Next]_vars =>
        [\A a \in Agg : /\ \A s \in Source : agg[a].m.wm[s] <= agg'[a].m.wm[s]
                        /\ Len(agg[a].applied) <= Len(agg'[a].applied)]_vars
    BY <1>1
<1> QED BY <1>2, TypeCorrect, PTL DEF Spec, WatermarksAdvance
=============================================================================
