----------------------------- MODULE RouteMerge -----------------------------
(***************************************************************************)
(* From the payments topic to the velocity state: producers write payments *)
(* and heartbeats, one router task per payments partition fans each batch  *)
(* out to the aggregator partitions, and each aggregator's merger puts the *)
(* events of all sources back into event-time order                        *)
(* (internal/stream: produce.go, route.go, the stateless half of           *)
(* runner.go, merge.go, aggregate.go).                                     *)
(*                                                                         *)
(* Router processes crash, are restarted from the committed offset, and    *)
(* lose their partition without noticing: a router instance that the group *)
(* has replaced keeps sending until its commit is refused.  Aggregators    *)
(* do not crash here: Checkpoint is about the stages that keep state.      *)
(***************************************************************************)
EXTENDS Merger, Sequences, FiniteSets

CONSTANTS Agg,            \* aggregator (entity-events) partitions
          Router,         \* router task instances, a fresh process included
          None,           \* no router, no source, no aggregator
          Routes,         \* where the keys of one payment can hash to
          InOrder,        \* producers write each partition in event-time order
          PosBound,       \* positions are 1..PosBound
          RecordBound,    \* records of the payments topic
          DisruptionBound \* crashes, revocations and takeovers from a live member

ASSUME AggAssumption == None \notin Agg
ASSUME RouterAssumption == None \notin Router
ASSUME NoneAssumption == None \notin Source
ASSUME RoutesAssumption == Routes \subseteq [Entity -> Agg \cup {None}]
ASSUME InOrderAssumption == InOrder \in BOOLEAN
ASSUME BoundAssumption == PosBound \in Nat /\ RecordBound \in Nat /\ DisruptionBound \in Nat

VARIABLES payments,    \* the payments partitions: append-only logs
          events,      \* the entity-events partitions: append-only logs
          committed,   \* per payments partition, the group's committed offset
          owner,       \* per payments partition, the group's current member
          router,      \* the router instances
          agg,         \* the aggregators
          violations,  \* order violations the routers have counted
          disruptions  \* so far

vars == <<payments, events, committed, owner, router, agg, violations, disruptions>>

NoRoute == [e \in Entity |-> None]

(* A payments record.  to gives, for each entity, the aggregator partition *)
(* its key hashes to, None when the payment has no such key.  A record     *)
(* that does not decode has no position and no keys.                       *)
Record == [kind : {"payment", "heartbeat", "undecodable"}, pos : Pos,
           to : [Entity -> Agg \cup {None}]]

(* The marks of the events that records lo..hi of partition s owe to a. *)
Owed(s, a, lo, hi) ==
    {mk \in [offset : lo..hi, entity : Entity] : payments[s][mk.offset].to[mk.entity] = a}

EventOf(s, mk) ==
    [kind |-> "event", src |-> s, offset |-> mk.offset, entity |-> mk.entity,
     pos |-> payments[s][mk.offset].pos]

(* A router instance: next is the offset of its next input record, last    *)
(* and sent the latest position seen and the latest watermark sent, unsent *)
(* what its batch has still to get acknowledged by each aggregator         *)
(* partition, tail the partitions its watermark has still to reach.        *)
RouterState ==
    [src : Source \cup {None}, next : Nat \ {0}, last : Pos, sent : Pos,
     phase : {"poll", "send", "tail"},
     unsent : [Agg -> SUBSET Mark], tail : SUBSET Agg]

NewRouter(s, next) ==
    [src |-> s, next |-> next, last |-> MinPos, sent |-> MinPos, phase |-> "poll",
     unsent |-> [a \in Agg |-> {}], tail |-> {}]

(* An aggregator: its merger, the offset of its next entity-events record, *)
(* and the events its velocity state has applied, in order.                *)
AggState == [m : MergerState, next : Nat \ {0}, applied : Seq(Event)]

Init ==
    /\ payments = [s \in Source |-> << >>]
    /\ events = [a \in Agg |-> << >>]
    /\ committed = [s \in Source |-> 1]
    /\ owner = [s \in Source |-> None]
    /\ router = [r \in Router |-> NewRouter(None, 1)]
    /\ agg = [a \in Agg |-> [m |-> NewMerger, next |-> 1, applied |-> << >>]]
    /\ violations = 0
    /\ disruptions = 0

-----------------------------------------------------------------------------
(* Producers *)

Written == {w \in Source \X (1..RecordBound) : w[2] <= Len(payments[w[1]])}

Write(s, rec) ==
    /\ Cardinality(Written) < RecordBound
    /\ payments' = [payments EXCEPT ![s] = Append(@, rec)]
    /\ UNCHANGED <<events, committed, owner, router, agg, violations, disruptions>>

(* A payment, later than everything its partition promised or carries. *)
ProducePayment(s) ==
    \E p \in 1..PosBound, to \in Routes :
        /\ InOrder => \A i \in 1..Len(payments[s]) : payments[s][i].pos < p
        /\ Write(s, [kind |-> "payment", pos |-> p, to |-> to])

(* A promise that the partition will carry nothing at or before p. *)
ProduceHeartbeat(s) ==
    \E p \in 1..PosBound :
        /\ InOrder => \A i \in 1..Len(payments[s]) : payments[s][i].pos <= p
        /\ Write(s, [kind |-> "heartbeat", pos |-> p, to |-> NoRoute])

(* A record the router cannot decode: it becomes a dead letter. *)
ProduceUndecodable(s) == Write(s, [kind |-> "undecodable", pos |-> MinPos, to |-> NoRoute])

-----------------------------------------------------------------------------
(* Routers *)

Disrupt ==
    /\ disruptions < DisruptionBound
    /\ disruptions' = disruptions + 1

Unattended(s) == \A r \in Router : owner[s] = r => router[r].src # s

(* The group gives partition s to the free instance r, which starts at the *)
(* committed offset.  A live member that is not told goes on as before.    *)
Assign(r, s) ==
    /\ router[r].src = None
    /\ \/ Unattended(s) /\ UNCHANGED disruptions
       \/ ~Unattended(s) /\ Disrupt
    /\ owner' = [owner EXCEPT ![s] = r]
    /\ router' = [router EXCEPT ![r] = NewRouter(s, committed[s])]
    /\ UNCHANGED <<payments, events, committed, agg, violations>>

(* The payments of records lo..hi that do not move position last forward. *)
OutOfOrder(s, last, lo, hi) ==
    {i \in lo..hi :
        /\ payments[s][i].kind = "payment"
        /\ \/ payments[s][i].pos <= last
           \/ \E j \in lo..(i - 1) : payments[s][i].pos <= payments[s][j].pos}

(* The positions seen after records lo..hi; advance keeps the latest. *)
Seen(s, last, lo, hi) == {last} \cup {payments[s][i].pos : i \in lo..hi}

(* A plausible slip: what is polled is committed, before it is sent. *)
RouteBatchCommitted(r) ==
    LET me == router[r] IN
    /\ me.src # None
    /\ me.phase = "poll"
    /\ \E hi \in me.next..Len(payments[me.src]) :
        /\ \E p \in Seen(me.src, me.last, me.next, hi) :
            /\ \A q \in Seen(me.src, me.last, me.next, hi) : q <= p
            /\ router' = [router EXCEPT ![r] =
                   [@ EXCEPT !.next = hi + 1, !.last = p, !.phase = "send",
                             !.unsent = [a \in Agg |-> Owed(me.src, a, me.next, hi)]]]
        /\ committed' = [committed EXCEPT ![me.src] = hi + 1]
        /\ violations' = violations + Cardinality(OutOfOrder(me.src, me.last, me.next, hi))
    /\ UNCHANGED <<payments, events, owner, agg, disruptions>>

(* One poll: every record up to hi is handled, its events are handed to    *)
(* the producing client.                                                   *)
RouteBatch(r) ==
    LET me == router[r] IN
    /\ me.src # None
    /\ me.phase = "poll"
    /\ \E hi \in me.next..Len(payments[me.src]) :
        /\ \E p \in Seen(me.src, me.last, me.next, hi) :
            /\ \A q \in Seen(me.src, me.last, me.next, hi) : q <= p
            /\ router' = [router EXCEPT ![r] =
                   [@ EXCEPT !.next = hi + 1, !.last = p, !.phase = "send",
                             !.unsent = [a \in Agg |-> Owed(me.src, a, me.next, hi)]]]
        /\ violations' = violations + Cardinality(OutOfOrder(me.src, me.last, me.next, hi))
    /\ UNCHANGED <<payments, events, committed, owner, agg, disruptions>>

(* A plausible slip: a client that sends what it buffered in any order. *)
SendEventAnyOrder(r, a) ==
    LET me == router[r] IN
    /\ me.phase = "send"
    /\ \E mk \in me.unsent[a] :
        /\ events' = [events EXCEPT ![a] = Append(@, EventOf(me.src, mk))]
        /\ router' = [router EXCEPT ![r].unsent[a] = @ \ {mk}]
    /\ UNCHANGED <<payments, committed, owner, agg, violations, disruptions>>

(* Events reach an entity-events partition in the order they were handed   *)
(* over, by offset and then entity.                                        *)
SendEvent(r, a) ==
    LET me == router[r] IN
    /\ me.phase = "send"
    /\ \E mk \in me.unsent[a] :
        /\ \A other \in me.unsent[a] \ {mk} : After(other, mk)
        /\ events' = [events EXCEPT ![a] = Append(@, EventOf(me.src, mk))]
        /\ router' = [router EXCEPT ![r].unsent[a] = @ \ {mk}]
    /\ UNCHANGED <<payments, committed, owner, agg, violations, disruptions>>

(* A plausible slip: the watermarks are due while events are in flight. *)
FlushedEarly(r) ==
    LET me == router[r] IN
    /\ me.phase = "send"
    /\ router' = [router EXCEPT ![r] =
           [@ EXCEPT !.sent = me.last, !.phase = "tail",
                     !.tail = IF me.sent < me.last THEN Agg ELSE {}]]
    /\ UNCHANGED <<payments, events, committed, owner, agg, violations, disruptions>>

(* The flush after the batch: every event is acknowledged.  A watermark is *)
(* due to every aggregator partition if the position moved.                *)
Flushed(r) ==
    LET me == router[r] IN
    /\ me.phase = "send"
    /\ \A a \in Agg : me.unsent[a] = {}
    /\ router' = [router EXCEPT ![r] =
           [@ EXCEPT !.sent = me.last, !.phase = "tail",
                     !.tail = IF me.sent < me.last THEN Agg ELSE {}]]
    /\ UNCHANGED <<payments, events, committed, owner, agg, violations, disruptions>>

SendWatermark(r, a) ==
    LET me == router[r] IN
    /\ me.phase = "tail"
    /\ a \in me.tail
    /\ events' = [events EXCEPT ![a] =
           Append(@, [kind |-> "watermark", src |-> me.src, pos |-> me.sent])]
    /\ router' = [router EXCEPT ![r].tail = @ \ {a}]
    /\ UNCHANGED <<payments, committed, owner, agg, violations, disruptions>>

(* The flush after the watermarks, then the commit of the batch.           *)
(* The group refuses the commit of a member it has replaced, and the error *)
(* stops that process as a crash would.                                    *)
Commit(r) ==
    LET me == router[r] IN
    /\ me.phase = "tail"
    /\ me.tail = {}
    /\ IF owner[me.src] = r
       THEN /\ committed' = [committed EXCEPT ![me.src] = me.next]
            /\ router' = [router EXCEPT ![r].phase = "poll"]
       ELSE /\ router' = [router EXCEPT ![r] = NewRouter(None, 1)]
            /\ UNCHANGED committed
    /\ UNCHANGED <<payments, events, owner, agg, violations, disruptions>>

(* A crash, or an error on the way: whatever was not yet acknowledged is   *)
(* never sent.                                                             *)
Crash(r) ==
    /\ router[r].src # None
    /\ Disrupt
    /\ router' = [router EXCEPT ![r] = NewRouter(None, 1)]
    /\ UNCHANGED <<payments, events, committed, owner, agg, violations>>

(* The group takes the partition back, between two batches: nothing is     *)
(* left to flush or to commit.                                             *)
Revoked(r) ==
    LET me == router[r] IN
    /\ me.src # None
    /\ me.phase = "poll"
    /\ owner[me.src] = r
    /\ Disrupt
    /\ owner' = [owner EXCEPT ![me.src] = None]
    /\ router' = [router EXCEPT ![r] = NewRouter(None, 1)]
    /\ UNCHANGED <<payments, events, committed, agg, violations>>

(* A replaced member learns, between two batches, that it was replaced. *)
Lost(r) ==
    LET me == router[r] IN
    /\ me.src # None
    /\ me.phase = "poll"
    /\ owner[me.src] # r
    /\ router' = [router EXCEPT ![r] = NewRouter(None, 1)]
    /\ UNCHANGED <<payments, events, committed, owner, agg, violations, disruptions>>

-----------------------------------------------------------------------------
(* Aggregators *)

(* One entity-events record.  A late event is applied at once; the release *)
(* loop of the record before it has finished.                              *)
HandleRecord(a) ==
    LET me == agg[a]
        rec == events[a][me.next]
    IN  /\ me.next <= Len(events[a])
        /\ Drained(me.m)
        /\ agg' = [agg EXCEPT ![a] =
               [m |-> IF rec.kind = "watermark" THEN AdvanceWatermark(me.m, rec)
                      ELSE Add(me.m, rec),
                next |-> me.next + 1,
                applied |-> IF rec.kind = "event" /\ IsLate(me.m, rec)
                            THEN Append(me.applied, rec) ELSE me.applied]]
        /\ UNCHANGED <<payments, events, committed, owner, router, violations, disruptions>>

(* One turn of the release loop that ends the handling of every record. *)
Release(a) ==
    LET me == agg[a] IN
    /\ \E ev \in me.m.buf :
        /\ Releasable(me.m, ev)
        /\ agg' = [agg EXCEPT ![a] =
               [m |-> Pop(me.m, ev), next |-> me.next, applied |-> Append(me.applied, ev)]]
    /\ UNCHANGED <<payments, events, committed, owner, router, violations, disruptions>>

-----------------------------------------------------------------------------
Produce(s) == ProducePayment(s) \/ ProduceHeartbeat(s) \/ ProduceUndecodable(s)

RouterWork(r) ==
    \/ RouteBatch(r)
    \/ \E a \in Agg : SendEvent(r, a)
    \/ Flushed(r)
    \/ \E a \in Agg : SendWatermark(r, a)
    \/ Commit(r)

AggWork(a) == HandleRecord(a) \/ Release(a)

Next ==
    \/ \E s \in Source : Produce(s)
    \/ \E r \in Router, s \in Source : Assign(r, s)
    \/ \E r \in Router : RouterWork(r) \/ Crash(r) \/ Revoked(r) \/ Lost(r)
    \/ \E a \in Agg : AggWork(a)

Spec == Init /\ [][Next]_vars

(* Tasks and aggregators keep working, and the group finds a member for a  *)
(* partition nobody attends.  Producers owe nothing, and no crash is fair. *)
Fairness ==
    /\ \A r \in Router : WF_vars(RouterWork(r)) /\ WF_vars(Lost(r))
    /\ \A s \in Source : WF_vars(Unattended(s) /\ \E r \in Router : Assign(r, s))
    /\ \A a \in Agg : WF_vars(AggWork(a))

FairSpec == Spec /\ Fairness

-----------------------------------------------------------------------------
(* Every variable has its type, and the offsets stay within their logs. *)
TypeOK ==
    /\ payments \in [Source -> Seq(Record)]
    /\ events \in [Agg -> Seq(Event \cup Watermark)]
    /\ committed \in [Source -> Nat \ {0}]
    /\ owner \in [Source -> Router \cup {None}]
    /\ router \in [Router -> RouterState]
    /\ agg \in [Agg -> AggState]
    /\ violations \in Nat
    /\ disruptions \in Nat

AppliedBy(me) == {me.applied[i] : i \in DOMAIN me.applied}
AppliedTo(a) == AppliedBy(agg[a])

(* All the marks that partition s owes to a so far. *)
AllOwed(s, a) == Owed(s, a, 1, Len(payments[s]))

(* No event is late while producers keep their order, however routers      *)
(* crash, resend and overlap: merger.add says a correct router never       *)
(* produces one, because a watermark follows the acknowledged events.      *)
NoLateEvent == InOrder => \A a \in Agg : agg[a].m.late = 0

(* The velocity state sees its events in strictly increasing release order *)
(* (event time first): this is what makes streaming features equal to the  *)
(* ones training saw.                                                      *)
AppliedInOrder ==
    InOrder => \A a \in Agg : \A i, j \in DOMAIN agg[a].applied :
        i < j => Less(KeyOf(agg[a].applied[i]), KeyOf(agg[a].applied[j]))

(* A resend is never counted twice, whatever the producers do: no event is *)
(* applied twice or both applied and still held.                           *)
AppliedOnce ==
    \A a \in Agg :
        /\ \A i, j \in DOMAIN agg[a].applied :
               agg[a].applied[i] = agg[a].applied[j] => i = j
        /\ AppliedTo(a) \cap agg[a].m.buf = {}

(* The high-water mark never drops an event as a duplicate that was not    *)
(* received: every event owed at or below it is applied or held.           *)
NothingSkipped ==
    \A a \in Agg, s \in Source : \A mk \in AllOwed(s, a) :
        ~After(mk, agg[a].m.recv[s]) => EventOf(s, mk) \in AppliedTo(a) \cup agg[a].m.buf

(* "Everything at or before low has arrived" (merger.low): when a drained  *)
(* merger's minimum watermark has passed a position, every event at or     *)
(* before it, of any source, is applied.                                   *)
LowIsComplete ==
    InOrder => \A a \in Agg : Drained(agg[a].m) =>
        \A s \in Source : \A mk \in AllOwed(s, a) :
            AtOrBeforeLow(agg[a].m, payments[s][mk.offset].pos) => EventOf(s, mk) \in AppliedTo(a)

(* Watermarks only move forward, although a restarted router repeats older *)
(* ones, and nothing is ever unapplied.                                    *)
WatermarksAdvance ==
    [][\A a \in Agg :
         /\ \A s \in Source : agg[a].m.wm[s] <= agg'[a].m.wm[s]
         /\ Len(agg[a].applied) <= Len(agg'[a].applied)]_vars

(* Once every partition has promised the position of a payment, by a later *)
(* payment or a heartbeat, each of its events is eventually applied.       *)
Promised(p) == \A s \in Source : \E i \in DOMAIN payments[s] : p <= payments[s][i].pos

EventuallyApplied ==
    \A s \in Source, o \in 1..RecordBound, e \in Entity, a \in Agg :
        (/\ o \in DOMAIN payments[s]
         /\ payments[s][o].to[e] = a
         /\ Promised(payments[s][o].pos))
        ~> (\E ev \in AppliedTo(a) : ev.src = s /\ ev.offset = o /\ ev.entity = e)
=============================================================================
