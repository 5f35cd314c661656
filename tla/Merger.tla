------------------------------- MODULE Merger -------------------------------
(***************************************************************************)
(* The merger of one aggregator partition (internal/stream/merge.go): it   *)
(* holds entity events back until every payments partition has promised,   *)
(* with a watermark, to send nothing earlier, and drops the events a       *)
(* restarted router sends again.  This module has no state of its own: a   *)
(* merger is a record, and the operators are the methods of the Go type.   *)
(*                                                                         *)
(* A position (DT, TransactionID) is abstracted to its rank, a natural     *)
(* number: the merger only ever compares positions.  Offsets count from 1, *)
(* so the -1 of the code, "nothing received yet", is 0 here.               *)
(***************************************************************************)
EXTENDS Integers

CONSTANTS NumSources,   \* payments partitions, one router task each
          NumEntities   \* entity kinds: card, email, ...

ASSUME NumAssumption == NumSources \in Nat \ {0} /\ NumEntities \in Nat

Source == 0..(NumSources - 1)
Entity == 0..(NumEntities - 1)

MinPos == 0
Pos == Nat

(* A position in one source's output: payments offset, then entity. *)
Mark == [offset : Nat, entity : Nat]
After(a, b) ==
    \/ a.offset > b.offset
    \/ a.offset = b.offset /\ a.entity > b.entity

(* What a router sends to an aggregator partition. *)
Event == [kind : {"event"}, src : Source, offset : Nat, entity : Entity, pos : Pos]
Watermark == [kind : {"watermark"}, src : Source, pos : Pos]

MarkOf(ev) == [offset |-> ev.offset, entity |-> ev.entity]

(* The order events leave the merger in: event time, then entity, then the *)
(* payments record.                                                        *)
ReleaseKey == [pos : Pos, entity : Nat, src : Int, offset : Nat]
KeyOf(ev) == [pos |-> ev.pos, entity |-> ev.entity, src |-> ev.src, offset |-> ev.offset]
Less(a, b) ==
    IF a.pos # b.pos THEN a.pos < b.pos
    ELSE IF a.entity # b.entity THEN a.entity < b.entity
    ELSE IF a.src # b.src THEN a.src < b.src
    ELSE a.offset < b.offset

-----------------------------------------------------------------------------
(* wm: per source, nothing at or before this is still coming; recv: per    *)
(* source, the highest mark received; buf: received, not yet released (a   *)
(* heap in the code: only its minimum is ever read); last: the last event  *)
(* released.                                                               *)
MergerState ==
    [wm : [Source -> Pos], recv : [Source -> Mark], buf : SUBSET Event,
     last : ReleaseKey, late : Nat, dups : Nat]

NewMerger ==
    [wm   |-> [s \in Source |-> MinPos],
     recv |-> [s \in Source |-> [offset |-> 0, entity |-> 0]],
     buf  |-> {},
     last |-> [pos |-> MinPos, entity |-> 0, src |-> -1, offset |-> 0],
     late |-> 0, dups |-> 0]

(* p is at or before low, the minimum watermark. *)
AtOrBeforeLow(m, p) == \A s \in Source : p <= m.wm[s]

(* add: what becomes of an arriving event. *)
IsDuplicate(m, ev) == ~After(MarkOf(ev), m.recv[ev.src])
IsLate(m, ev) ==
    /\ ~IsDuplicate(m, ev)
    /\ ~Less(m.last, KeyOf(ev)) \/ AtOrBeforeLow(m, ev.pos)

Receive(m, ev) == [m EXCEPT !.recv[ev.src] = MarkOf(ev)]

(* A plausible slip: the high-water mark compares offsets only. *)
AddByOffset(m, ev) ==
    IF ev.offset <= m.recv[ev.src].offset THEN [m EXCEPT !.dups = @ + 1]
    ELSE IF IsLate(m, ev) THEN [Receive(m, ev) EXCEPT !.late = @ + 1]
    ELSE [Receive(m, ev) EXCEPT !.buf = @ \cup {ev}]

(* A plausible slip: no duplicate test. *)
AddUnchecked(m, ev) ==
    IF AtOrBeforeLow(m, ev.pos) THEN [Receive(m, ev) EXCEPT !.late = @ + 1]
    ELSE [Receive(m, ev) EXCEPT !.buf = @ \cup {ev}]

Add(m, ev) ==
    IF IsDuplicate(m, ev) THEN [m EXCEPT !.dups = @ + 1]
    ELSE IF IsLate(m, ev) THEN [Receive(m, ev) EXCEPT !.late = @ + 1]
    ELSE [Receive(m, ev) EXCEPT !.buf = @ \cup {ev}]

(* watermark: a source's progress only moves forward. *)
AdvanceWatermark(m, w) ==
    [m EXCEPT !.wm[w.src] = IF @ < w.pos THEN w.pos ELSE @]

(* release: the buffered event at the top of the heap, if the minimum      *)
(* watermark has passed it.                                                *)
IsNext(m, ev) ==
    /\ ev \in m.buf
    /\ \A other \in m.buf \ {ev} : Less(KeyOf(ev), KeyOf(other))

(* A plausible slip: the watermark of the event's own source suffices. *)
ReleasableOwnSource(m, ev) == IsNext(m, ev) /\ ev.pos <= m.wm[ev.src]

Releasable(m, ev) == IsNext(m, ev) /\ AtOrBeforeLow(m, ev.pos)
Pop(m, ev) == [m EXCEPT !.buf = @ \ {ev}, !.last = KeyOf(ev)]

(* The release loop has nothing left to do: low is before everything held. *)
Drained(m) == \A ev \in m.buf : ~AtOrBeforeLow(m, ev.pos)
=============================================================================
