-------------------------- MODULE CheckpointProofs --------------------------
(***************************************************************************)
(* What a snapshot remembers is delivered, and the downstream logs have no *)
(* holes, whatever crashes, handovers and overlapping owners happen, even  *)
(* when input is trimmed or its topic created again.  While that has not   *)
(* happened, state and offset agree everywhere, and outputs with the same  *)
(* number are the same output, so that the readers downstream see what one *)
(* process that never fails would have sent.                               *)
(*                                                                         *)
(* The argument for the first half: every output of the records a task has *)
(* handled is downstream or, in the order it must arrive, in its client's  *)
(* buffer, and the buffer is empty when the snapshot is put.  For the      *)
(* second: every state is a prefix of the input, and of two prefixes that  *)
(* end in an output the longer has emitted more.  So a log without holes   *)
(* holds the outputs of a prefix, and what a reader has not seen is next.  *)
(***************************************************************************)
EXTENDS Checkpoint, FiniteSetTheorems, SequenceTheorems, WellFoundedInduction, TLAPS

Buffered(r, d) == {proc[r].buffer[d][i] : i \in DOMAIN proc[r].buffer[d]}

(* A task's outputs are downstream or on their way. *)
Accounted ==
    \A r \in Proc, d \in Dest : proc[r].on =>
        OutputsTo(proc[r].handled, d) \subseteq Delivered(d) \cup Buffered(r, d)

(* Nothing is on its way while the snapshot is put and committed. *)
EmptyAtPut ==
    \A r \in Proc : proc[r].phase # "poll" =>
        /\ proc[r].on
        /\ proc[r].phase # "flush" => proc[r].buffer = Empty

(* What is on its way is in an order that leaves no hole. *)
NoHoleInBuffer ==
    \A r \in Proc, d \in Dest : \A i \in DOMAIN proc[r].buffer[d] :
        OutputsTo(proc[r].buffer[d][i].state, d) \subseteq
            Delivered(d) \cup {proc[r].buffer[d][j] : j \in 1..i}

IInv == TypeOK /\ Accounted /\ EmptyAtPut /\ NoHoleInBuffer /\ NoHole /\ SnapshotCovered

-----------------------------------------------------------------------------
(* Types *)

LEMMA IdleType ==
    ASSUME NEW b \in [Dest -> Seq(Output)]
    PROVE  Idle(b) \in ProcState
  BY DEF Idle, ProcState

LEMMA EmptyType == Empty \in [Dest -> Seq(Output)]
  <1>1. << >> \in Seq(Output)
    OBVIOUS
  <1> QED
    BY <1>1 DEF Empty

LEMMA StoppedType == Stopped \in ProcState
  BY IdleType, EmptyType DEF Stopped

LEMMA EmittedFinite ==
    ASSUME NEW h \in Seq(Record)
    PROVE  IsFiniteSet(Emitted(h)) /\ Cardinality(Emitted(h)) \in Nat
  <1>1. IsFiniteSet(1..Len(h))
    BY FS_Interval
  <1>2. IsFiniteSet(Emitted(h))
    BY <1>1, FS_Subset DEF Emitted
  <1> QED
    BY <1>2, FS_CardinalityType

LEMMA OutputType ==
    ASSUME NEW h \in Seq(Record)
    PROVE  OutputOf(h) \in Output
  BY EmittedFinite DEF OutputOf, Output

LEMMA RecordType ==
    ASSUME TypeOK, NEW r \in Proc, Upcoming(r) \in first..Len(input)
    PROVE  /\ input[Upcoming(r)] \in Record
           /\ input[Upcoming(r)].dest \in Dest \cup {None}
           /\ Upcoming(r) \in 1..Len(input)
  <1>1. input \in Seq(Record) /\ first \in 1..(Len(input) + 1)
    BY DEF TypeOK
  <1>2. Len(input) \in Nat
    BY <1>1
  <1>3. Upcoming(r) \in 1..Len(input)
    BY <1>1, <1>2
  <1>4. input[Upcoming(r)] \in Record
    BY <1>1, <1>3
  <1> QED
    BY <1>3, <1>4 DEF Record

LEMMA WithOutputFields ==
    ASSUME NEW b \in [Dest -> Seq(Output)], NEW h \in Seq(Record), NEW d \in Dest \cup {None}
    PROVE  /\ WithOutput(b, h, d) \in [Dest -> Seq(Output)]
           /\ \A e \in Dest : e # d => WithOutput(b, h, d)[e] = b[e]
           /\ d \in Dest => WithOutput(b, h, d)[d] = Append(b[d], OutputOf(h))
  <1>1. OutputOf(h) \in Output
    BY OutputType
  <1>2. CASE d = None
    BY <1>2, NoneAssumption DEF WithOutput
  <1>3. CASE d \in Dest
    BY <1>1, <1>3, NoneAssumption DEF WithOutput
  <1> QED
    BY <1>2, <1>3

(* What process r has handled after its next record, and whom that is for. *)
HandledNext(r) == Append(proc[r].handled, input[Upcoming(r)])
NextDest(r) == input[Upcoming(r)].dest

LEMMA HandledFields ==
    ASSUME TypeOK, NEW r \in Proc, Upcoming(r) \in first..Len(input),
           NEW phase \in {"poll", "flush"}, Becomes(r, AfterRecord(r, phase))
    PROVE  \E h, d :
           /\ h = HandledNext(r) /\ d = NextDest(r)
           /\ proc' \in [Proc -> ProcState]
           /\ h \in Seq(Record) /\ d \in Dest \cup {None}
           /\ \A q \in Proc : q # r => proc'[q] = proc[q]
           /\ proc'[r].on = proc[r].on
           /\ proc'[r].phase = phase
           /\ proc'[r].handled = h
           /\ proc'[r].next = Upcoming(r) + 1
           /\ \A e \in Dest : e # d => proc'[r].buffer[e] = proc[r].buffer[e]
           /\ d \in Dest => proc'[r].buffer[d] = Append(proc[r].buffer[d], OutputOf(h))
  <1> PICK h, d : h = HandledNext(r) /\ d = NextDest(r)
    OBVIOUS
  <1>1. /\ proc[r] \in ProcState /\ proc[r].handled \in Seq(Record)
        /\ proc[r].buffer \in [Dest -> Seq(Output)]
    BY DEF TypeOK, ProcState
  <1>2. h \in Seq(Record) /\ d \in Dest \cup {None} /\ Upcoming(r) + 1 \in Nat
    BY <1>1, RecordType DEF Record, HandledNext, NextDest
  <1> DEFINE b == WithOutput(proc[r].buffer, h, d)
  <1>3. /\ b \in [Dest -> Seq(Output)]
        /\ \A e \in Dest : e # d => b[e] = proc[r].buffer[e]
        /\ d \in Dest => b[d] = Append(proc[r].buffer[d], OutputOf(h))
    BY <1>1, <1>2, WithOutputFields
  <1>4. AfterRecord(r, phase) = [proc[r] EXCEPT !.next = Upcoming(r) + 1, !.handled = h,
                                    !.dirty = TRUE, !.phase = phase, !.buffer = b]
    BY DEF AfterRecord, HandledNext, NextDest
  <1> HIDE DEF b
  <1>5. /\ AfterRecord(r, phase) \in ProcState
        /\ AfterRecord(r, phase).on = proc[r].on
        /\ AfterRecord(r, phase).phase = phase
        /\ AfterRecord(r, phase).handled = h
        /\ AfterRecord(r, phase).next = Upcoming(r) + 1
        /\ AfterRecord(r, phase).buffer = b
    BY <1>1, <1>2, <1>3, <1>4 DEF ProcState
  <1>6. /\ proc' \in [Proc -> ProcState]
        /\ proc'[r] = AfterRecord(r, phase)
        /\ \A q \in Proc : q # r => proc'[q] = proc[q]
    BY <1>5 DEF Becomes, TypeOK
  <1> QED
    BY <1>2, <1>3, <1>5, <1>6

-----------------------------------------------------------------------------
(* Outputs *)

LEMMA PrefixOfAppend ==
    ASSUME NEW h \in Seq(Record), NEW x \in Record, NEW i \in 0..Len(h)
    PROVE  SubSeq(Append(h, x), 1, i) = SubSeq(h, 1, i)
  OBVIOUS

LEMMA WholeOfAppend ==
    ASSUME NEW h \in Seq(Record), NEW x \in Record
    PROVE  SubSeq(Append(h, x), 1, Len(h) + 1) = Append(h, x)
  OBVIOUS

(* One more record adds one output, to its destination. *)
LEMMA OutputsAppend ==
    ASSUME NEW h \in Seq(Record), NEW x \in Record, NEW d \in Dest
    PROVE  OutputsTo(Append(h, x), d) = IF x.dest = d
                                        THEN OutputsTo(h, d) \cup {OutputOf(Append(h, x))}
                                        ELSE OutputsTo(h, d)
  <1> PICK g : g = Append(h, x)
    OBVIOUS
  <1>1. Len(h) \in Nat /\ DOMAIN h = 1..Len(h)
    OBVIOUS
  <1>2. /\ Len(g) = Len(h) + 1 /\ DOMAIN g = 1..(Len(h) + 1)
        /\ g[Len(h) + 1] = x
        /\ \A i \in 1..Len(h) : g[i] = h[i]
    OBVIOUS
  <1>3. \A i \in 1..Len(h) : SubSeq(g, 1, i) = SubSeq(h, 1, i)
    BY PrefixOfAppend
  <1>4. SubSeq(g, 1, Len(h) + 1) = g
    BY WholeOfAppend
  <1>5. DOMAIN g = DOMAIN h \cup {Len(h) + 1}
    BY <1>1, <1>2
  <1>6. \A i \in DOMAIN h : OutputOf(SubSeq(g, 1, i)) = OutputOf(SubSeq(h, 1, i)) /\ g[i] = h[i]
    BY <1>1, <1>2, <1>3
  <1>7. OutputOf(SubSeq(g, 1, Len(h) + 1)) = OutputOf(g)
    BY <1>4
  <1> HIDE <1>3, <1>4
  <1> QED
    BY <1>2, <1>5, <1>6, <1>7 DEF OutputsTo

-----------------------------------------------------------------------------
(* Steps *)

LEMMA InitInv == Init => IInv
  <1> SUFFICES ASSUME Init PROVE IInv
    OBVIOUS
  <1>1. \A r \in Proc : /\ proc[r] = Stopped /\ ~proc[r].on /\ proc[r].phase = "poll"
                        /\ \A d \in Dest : proc[r].buffer[d] = << >>
    BY DEF Init, Stopped, Idle, Empty
  <1>2. proc \in [Proc -> ProcState]
    BY StoppedType DEF Init
  <1>3. input = << >> /\ input \in Seq(Record) /\ Len(input) = 0
    BY DEF Init
  <1>4. snap \in Snapshot /\ snap.handled = << >>
    BY DEF Init, Snapshot, NoSnapshot
  <1>5. out \in [Dest -> Seq(Output)] /\ \A d \in Dest : out[d] = << >>
    BY EmptyType DEF Init, Empty
  <1>6. TypeOK
    BY <1>2, <1>3, <1>4, <1>5 DEF Init, TypeOK
  <1>7. Accounted /\ EmptyAtPut /\ NoHoleInBuffer
    BY <1>1 DEF Accounted, EmptyAtPut, NoHoleInBuffer
  <1>8. NoHole
    BY <1>5 DEF NoHole
  <1>9. SnapshotCovered
    BY <1>4 DEF SnapshotCovered, OutputsTo
  <1> QED
    BY <1>6, <1>7, <1>8, <1>9 DEF IInv

LEMMA OutputsSame ==
    ASSUME NoHole, SnapshotCovered, UNCHANGED <<out, snap>>
    PROVE  NoHole' /\ SnapshotCovered'
  <1>1. NoHole'
    BY DEF NoHole, OutputsTo
  <1>2. SnapshotCovered'
    BY DEF SnapshotCovered, OutputsTo, Delivered
  <1> QED
    BY <1>1, <1>2

(* Steps of the input topic, and no step. *)
LEMMA FrameStep ==
    ASSUME IInv, TypeOK', UNCHANGED <<out, snap, proc>>
    PROVE  IInv'
  <1>1. NoHole' /\ SnapshotCovered'
    BY OutputsSame DEF IInv
  <1>2. Accounted'
    BY DEF IInv, Accounted, OutputsTo, Delivered, Buffered
  <1>3. EmptyAtPut'
    BY DEF IInv, EmptyAtPut
  <1>4. NoHoleInBuffer'
    BY DEF IInv, NoHoleInBuffer, OutputsTo, Delivered
  <1> QED
    BY <1>1, <1>2, <1>3, <1>4 DEF IInv

(* Steps of a process that neither handle a record, nor send, nor put: it  *)
(* keeps what it has, or starts from the snapshot, or lets go.             *)
LEMMA ProcStep ==
    ASSUME IInv, TypeOK', NEW r \in Proc, UNCHANGED <<out, snap>>,
           \A q \in Proc : q # r => proc'[q] = proc[q],
           proc'[r].buffer \in {proc[r].buffer, Empty},
           proc'[r].on =>
               /\ proc'[r].buffer = proc[r].buffer
               /\ \/ proc'[r].handled = snap.handled
                  \/ proc[r].on /\ proc'[r].handled = proc[r].handled,
           proc'[r].phase # "poll" =>
               /\ proc'[r].on
               /\ proc'[r].phase # "flush" => proc'[r].buffer = Empty
    PROVE  IInv'
  <1>1. NoHole' /\ SnapshotCovered'
    BY OutputsSame DEF IInv
  <1>2. EmptyAtPut'
    BY DEF IInv, EmptyAtPut
  <1>3. Accounted'
    <2> SUFFICES ASSUME NEW q \in Proc, NEW d \in Dest, proc'[q].on
                 PROVE  OutputsTo(proc[q].handled, d)' \subseteq (Delivered(d) \cup Buffered(q, d))'
      BY DEF Accounted
    <2>1. Delivered(d)' = Delivered(d)
      BY DEF Delivered
    <2>2. CASE q # r
      <3>1. proc'[q] = proc[q]
        BY <2>2
      <3> QED
        BY <2>1, <3>1 DEF IInv, Accounted, Buffered, OutputsTo
    <2>3. CASE q = r
      <3>1. Buffered(r, d)' = Buffered(r, d)
        BY <2>3 DEF Buffered
      <3>2. \/ proc'[r].handled = snap.handled
            \/ proc[r].on /\ proc'[r].handled = proc[r].handled
        BY <2>3
      <3>3. \/ OutputsTo(proc[r].handled, d)' = OutputsTo(snap.handled, d)
            \/ proc[r].on /\ OutputsTo(proc[r].handled, d)' = OutputsTo(proc[r].handled, d)
        BY <3>2 DEF OutputsTo
      <3>4. OutputsTo(snap.handled, d) \subseteq Delivered(d)
        BY DEF IInv, SnapshotCovered
      <3> QED
        BY <2>1, <2>3, <3>1, <3>3, <3>4 DEF IInv, Accounted
    <2> QED
      BY <2>2, <2>3
  <1>4. NoHoleInBuffer'
    <2> SUFFICES ASSUME NEW q \in Proc, NEW d \in Dest, NEW i \in DOMAIN proc'[q].buffer[d]
                 PROVE  OutputsTo(proc'[q].buffer[d][i].state, d) \subseteq
                            Delivered(d) \cup {proc'[q].buffer[d][j] : j \in 1..i}
      BY DEF NoHoleInBuffer, OutputsTo, Delivered
    <2>1. proc'[q].buffer[d] = proc[q].buffer[d] \/ proc'[q].buffer[d] = << >>
      BY DEF Empty
    <2>2. proc'[q].buffer[d] = proc[q].buffer[d]
      BY <2>1
    <2> QED
      BY <2>2 DEF IInv, NoHoleInBuffer
  <1> QED
    BY <1>1, <1>2, <1>3, <1>4 DEF IInv

(* The record's output, if any, joins what is on its way, behind all that  *)
(* went to its destination before.                                         *)
LEMMA HandleRecordStep ==
    ASSUME IInv, NEW r \in Proc, HandleRecord(r)
    PROVE  IInv'
  <1>1. PICK phase \in {"poll", "flush"} : Becomes(r, AfterRecord(r, phase))
    BY DEF HandleRecord
  <1>2. /\ TypeOK /\ proc[r].on /\ proc[r].handled \in Seq(Record)
        /\ proc[r].buffer \in [Dest -> Seq(Output)]
        /\ Upcoming(r) \in first..Len(input)
        /\ UNCHANGED <<input, first, life, out, snap, committed, owner, disruptions, trims>>
    BY DEF IInv, HandleRecord, Polling, TypeOK, ProcState
  <1>3. PICK h, dest :
        /\ h = HandledNext(r) /\ dest = NextDest(r)
        /\ proc' \in [Proc -> ProcState]
        /\ h \in Seq(Record) /\ dest \in Dest \cup {None}
        /\ \A q \in Proc : q # r => proc'[q] = proc[q]
        /\ proc'[r].on = proc[r].on
        /\ proc'[r].phase = phase
        /\ proc'[r].handled = h
        /\ proc'[r].next = Upcoming(r) + 1
        /\ \A e \in Dest : e # dest => proc'[r].buffer[e] = proc[r].buffer[e]
        /\ dest \in Dest => proc'[r].buffer[dest] = Append(proc[r].buffer[dest], OutputOf(h))
    BY <1>1, <1>2, HandledFields
  <1>4. TypeOK'
    BY <1>2, <1>3 DEF TypeOK
  <1>5. input[Upcoming(r)] \in Record
    BY <1>2, RecordType
  <1>6. \A d \in Dest :
            OutputsTo(h, d) = IF dest = d THEN OutputsTo(proc[r].handled, d) \cup {OutputOf(h)}
                              ELSE OutputsTo(proc[r].handled, d)
    <2>1. PICK g, x : g = proc[r].handled /\ x = input[Upcoming(r)]
      OBVIOUS
    <2>2. g \in Seq(Record) /\ x \in Record /\ h = Append(g, x) /\ dest = x.dest
      BY <1>2, <1>3, <1>5, <2>1 DEF HandledNext, NextDest
    <2>3. \A d \in Dest : OutputsTo(Append(g, x), d) = IF x.dest = d
                                            THEN OutputsTo(g, d) \cup {OutputOf(Append(g, x))}
                                            ELSE OutputsTo(g, d)
      BY <2>2, OutputsAppend
    <2> QED
      BY <2>1, <2>2, <2>3
  <1>7. OutputOf(h) \in Output /\ OutputOf(h).state = h
    BY <1>3, OutputType DEF OutputOf
  <1>8. \A d \in Dest : Delivered(d)' = Delivered(d)
    BY <1>2 DEF Delivered
  <1>9. \A d \in Dest : OutputsTo(proc[r].handled, d) \subseteq Delivered(d) \cup Buffered(r, d)
    BY <1>2 DEF IInv, Accounted
  <1>10. \A d \in Dest :
            /\ d # dest => Buffered(r, d)' = Buffered(r, d)
            /\ d = dest => Buffered(r, d)' = Buffered(r, d) \cup {OutputOf(h)}
    <2> SUFFICES ASSUME NEW d \in Dest
                 PROVE  /\ d # dest => Buffered(r, d)' = Buffered(r, d)
                        /\ d = dest => Buffered(r, d)' = Buffered(r, d) \cup {OutputOf(h)}
      OBVIOUS
    <2>1. CASE d # dest
      BY <1>3, <2>1 DEF Buffered
    <2>2. CASE d = dest
      <3> DEFINE b == proc[r].buffer[d]  c == proc'[r].buffer[d]
      <3>1. b \in Seq(Output) /\ c = Append(b, OutputOf(h))
        BY <1>2, <1>3, <2>2
      <3>2. /\ Len(b) \in Nat /\ DOMAIN b = 1..Len(b) /\ DOMAIN c = 1..(Len(b) + 1)
            /\ c[Len(b) + 1] = OutputOf(h)
            /\ \A i \in 1..Len(b) : c[i] = b[i]
        BY <3>1, <1>7
      <3>3. {c[i] : i \in DOMAIN c} = {b[i] : i \in DOMAIN b} \cup {OutputOf(h)}
        <4> HIDE DEF b, c
        <4>1. DOMAIN c = DOMAIN b \cup {Len(b) + 1}
          BY <3>2
        <4> QED
          BY <3>2, <4>1
      <3> QED
        BY <2>2, <3>3 DEF Buffered
    <2> QED
      BY <2>1, <2>2
  <1>11. Accounted'
    <2> SUFFICES ASSUME NEW q \in Proc, NEW d \in Dest, proc'[q].on
                 PROVE  OutputsTo(proc'[q].handled, d) \subseteq Delivered(d)' \cup Buffered(q, d)'
      BY DEF Accounted, OutputsTo
    <2>1. CASE q # r
      <3>1. proc'[q] = proc[q]
        BY <1>3, <2>1
      <3> QED
        BY <1>8, <3>1 DEF IInv, Accounted, Buffered
    <2>2. CASE q = r
      BY <1>3, <1>6, <1>8, <1>9, <1>10, <2>2
    <2> QED
      BY <2>1, <2>2
  <1>12. NoHoleInBuffer'
    <2> SUFFICES ASSUME NEW q \in Proc, NEW d \in Dest, NEW i \in DOMAIN proc'[q].buffer[d]
                 PROVE  OutputsTo(proc'[q].buffer[d][i].state, d) \subseteq
                            Delivered(d) \cup {proc'[q].buffer[d][j] : j \in 1..i}
      BY <1>8 DEF NoHoleInBuffer, OutputsTo
    <2>1. CASE q # r \/ d # dest
      <3>1. proc'[q].buffer[d] = proc[q].buffer[d]
        BY <1>3, <2>1
      <3> QED
        BY <3>1 DEF IInv, NoHoleInBuffer
    <2>2. CASE q = r /\ d = dest
      <3> DEFINE b == proc[r].buffer[d]  c == proc'[r].buffer[d]
      <3>1. b \in Seq(Output) /\ c = Append(b, OutputOf(h))
        BY <1>2, <1>3, <2>2
      <3>2. /\ Len(b) \in Nat /\ DOMAIN b = 1..Len(b) /\ DOMAIN c = 1..(Len(b) + 1)
            /\ c[Len(b) + 1] = OutputOf(h)
            /\ \A j \in 1..Len(b) : c[j] = b[j]
        BY <3>1, <1>7
      <3>3. \A k \in DOMAIN b : OutputsTo(b[k].state, d) \subseteq Delivered(d) \cup {b[j] : j \in 1..k}
        BY DEF IInv, NoHoleInBuffer
      <3>4. Buffered(r, d) = {b[j] : j \in DOMAIN b}
        BY DEF Buffered
      <3>5. OutputsTo(h, d) = OutputsTo(proc[r].handled, d) \cup {OutputOf(h)}
        BY <1>6, <2>2
      <3>6. i \in DOMAIN c
        BY <2>2
      <3> HIDE DEF b, c
      <3>7. OutputsTo(c[i].state, d) \subseteq Delivered(d) \cup {c[j] : j \in 1..i}
        <4>1. CASE i \in 1..Len(b)
          <5>1. \A j \in 1..i : j \in 1..Len(b)
            BY <3>2, <4>1
          <5>2. {c[j] : j \in 1..i} = {b[j] : j \in 1..i} /\ c[i] = b[i] /\ i \in DOMAIN b
            BY <3>2, <4>1, <5>1
          <5> QED
            BY <3>3, <5>2
        <4>2. CASE i = Len(b) + 1
          <5>1. c[i].state = h
            BY <1>7, <3>2, <4>2
          <5>2. 1..i = DOMAIN b \cup {i}
            BY <3>2, <4>2
          <5>3. {c[j] : j \in 1..i} = {b[j] : j \in DOMAIN b} \cup {OutputOf(h)}
            BY <3>2, <4>2, <5>2
          <5> QED
            BY <1>9, <3>4, <3>5, <5>1, <5>3
        <4> QED
          BY <3>2, <3>6, <4>1, <4>2
      <3> QED
        BY <2>2, <3>7 DEF b, c
    <2> QED
      BY <2>1, <2>2
  <1>13. EmptyAtPut'
    BY <1>2, <1>3 DEF IInv, EmptyAtPut
  <1>14. NoHole' /\ SnapshotCovered'
    BY <1>2, OutputsSame DEF IInv
  <1> QED
    BY <1>4, <1>11, <1>12, <1>13, <1>14 DEF IInv

(* The first output on its way arrives; those before it arrived earlier.   *)
LEMMA SendOutputStep ==
    ASSUME IInv, NEW r \in Proc, NEW d \in Dest, SendOutput(r, d)
    PROVE  IInv'
  <1>1. /\ TypeOK /\ proc[r] \in ProcState /\ proc[r].buffer \in [Dest -> Seq(Output)]
        /\ proc[r].buffer[d] \in Seq(Output) /\ proc[r].buffer[d] # << >>
        /\ out[d] \in Seq(Output)
        /\ UNCHANGED <<input, first, life, snap, committed, owner, disruptions, trims>>
    BY DEF IInv, SendOutput, TypeOK, ProcState
  <1>2. PICK b, c, o, p :
           /\ b = proc[r].buffer[d] /\ c = Tail(b)
           /\ o = out[d] /\ p = Append(o, Head(b))
    OBVIOUS
  <1>3. /\ b \in Seq(Output) /\ c \in Seq(Output) /\ Head(b) \in Output
        /\ Len(b) \in Nat \ {0} /\ Len(c) = Len(b) - 1
        /\ DOMAIN b = 1..Len(b) /\ DOMAIN c = 1..(Len(b) - 1)
        /\ b[1] = Head(b)
        /\ \A i \in 1..(Len(b) - 1) : c[i] = b[i + 1]
    BY <1>1, <1>2
  <1>4. /\ p \in Seq(Output) /\ Len(o) \in Nat
        /\ DOMAIN o = 1..Len(o) /\ DOMAIN p = 1..(Len(o) + 1)
        /\ p[Len(o) + 1] = b[1]
        /\ \A i \in 1..Len(o) : p[i] = o[i]
    BY <1>1, <1>2, <1>3
  <1>5. /\ out' \in [Dest -> Seq(Output)]
        /\ out'[d] = p
        /\ \A e \in Dest : e # d => out'[e] = out[e]
    BY <1>1, <1>2, <1>4 DEF SendOutput, TypeOK
  <1> DEFINE buf == [proc[r].buffer EXCEPT ![d] = c]
  <1>6. /\ buf \in [Dest -> Seq(Output)]
        /\ buf[d] = c
        /\ \A e \in Dest : e # d => buf[e] = proc[r].buffer[e]
    BY <1>1, <1>3
  <1>7. Becomes(r, [proc[r] EXCEPT !.buffer = buf])
    BY <1>2 DEF SendOutput
  <1> HIDE DEF buf
  <1>8. /\ [proc[r] EXCEPT !.buffer = buf] \in ProcState
        /\ [proc[r] EXCEPT !.buffer = buf].buffer = buf
        /\ [proc[r] EXCEPT !.buffer = buf].on = proc[r].on
        /\ [proc[r] EXCEPT !.buffer = buf].phase = proc[r].phase
        /\ [proc[r] EXCEPT !.buffer = buf].handled = proc[r].handled
    BY <1>1, <1>6 DEF ProcState
  <1>9. /\ proc' \in [Proc -> ProcState]
        /\ \A q \in Proc : q # r => proc'[q] = proc[q]
        /\ proc'[r].on = proc[r].on /\ proc'[r].phase = proc[r].phase
        /\ proc'[r].handled = proc[r].handled
        /\ proc'[r].buffer[d] = c
        /\ \A e \in Dest : e # d => proc'[r].buffer[e] = proc[r].buffer[e]
    BY <1>6, <1>7, <1>8 DEF Becomes, IInv, TypeOK
  <1>10. TypeOK'
    BY <1>1, <1>5, <1>9 DEF TypeOK
  <1>11. {p[i] : i \in DOMAIN p} = {o[i] : i \in DOMAIN o} \cup {b[1]}
    <2>1. DOMAIN p = DOMAIN o \cup {Len(o) + 1}
      BY <1>4
    <2> QED
      BY <1>4, <2>1
  <1>12. {b[i] : i \in DOMAIN b} \subseteq {c[i] : i \in DOMAIN c} \cup {b[1]}
    <2> SUFFICES ASSUME NEW i \in DOMAIN b, i # 1
                 PROVE  \E j \in DOMAIN c : c[j] = b[i]
      OBVIOUS
    <2>1. i - 1 \in DOMAIN c /\ c[i - 1] = b[i]
      BY <1>3
    <2> QED
      BY <2>1
  <1>13. /\ Delivered(d)' = Delivered(d) \cup {b[1]}
         /\ \A e \in Dest : e # d => Delivered(e)' = Delivered(e)
    <2>1. Delivered(d) = {o[i] : i \in DOMAIN o}
      BY <1>2 DEF Delivered
    <2>2. Delivered(d)' = {p[i] : i \in DOMAIN p}
      BY <1>5 DEF Delivered
    <2>3. \A e \in Dest : e # d => Delivered(e)' = Delivered(e)
      BY <1>5 DEF Delivered
    <2> QED
      BY <1>11, <2>1, <2>2, <2>3
  <1>14. /\ Buffered(r, d) \subseteq Buffered(r, d)' \cup {b[1]}
         /\ \A e \in Dest : e # d => Buffered(r, e)' = Buffered(r, e)
    <2>1. Buffered(r, d) = {b[i] : i \in DOMAIN b}
      BY <1>2 DEF Buffered
    <2>2. Buffered(r, d)' = {c[i] : i \in DOMAIN c}
      BY <1>9 DEF Buffered
    <2>3. \A e \in Dest : e # d => Buffered(r, e)' = Buffered(r, e)
      BY <1>9 DEF Buffered
    <2> QED
      BY <1>12, <2>1, <2>2, <2>3
  <1>15. \A q \in Proc, e \in Dest : q # r => Buffered(q, e)' = Buffered(q, e)
    <2> SUFFICES ASSUME NEW q \in Proc, NEW e \in Dest, q # r PROVE Buffered(q, e)' = Buffered(q, e)
      OBVIOUS
    <2>1. proc'[q] = proc[q]
      BY <1>9
    <2> QED
      BY <2>1 DEF Buffered
  <1>16. Accounted'
    <2> SUFFICES ASSUME NEW q \in Proc, NEW e \in Dest, proc'[q].on
                 PROVE  OutputsTo(proc'[q].handled, e) \subseteq Delivered(e)' \cup Buffered(q, e)'
      BY DEF Accounted, OutputsTo
    <2>1. proc'[q].handled = proc[q].handled /\ proc[q].on
      BY <1>9
    <2>2. OutputsTo(proc[q].handled, e) \subseteq Delivered(e) \cup Buffered(q, e)
      BY <2>1 DEF IInv, Accounted
    <2> QED
      BY <1>13, <1>14, <1>15, <2>1, <2>2
  <1>17. EmptyAtPut'
    <2> SUFFICES ASSUME NEW q \in Proc, proc'[q].phase # "poll"
                 PROVE  /\ proc'[q].on
                        /\ proc'[q].phase # "flush" => proc'[q].buffer = Empty
      BY DEF EmptyAtPut, Empty
    <2>1. CASE q = r
      <3>1. proc[r].on /\ (proc[r].phase # "flush" => proc[r].buffer = Empty)
        BY <1>9, <2>1 DEF IInv, EmptyAtPut
      <3>2. proc[r].buffer # Empty
        BY <1>1 DEF Empty
      <3> QED
        BY <1>9, <2>1, <3>1, <3>2
    <2>2. CASE q # r
      <3>1. proc'[q] = proc[q]
        BY <1>9, <2>2
      <3> QED
        BY <3>1 DEF IInv, EmptyAtPut
    <2> QED
      BY <2>1, <2>2
  <1>18. \A i \in DOMAIN b : OutputsTo(b[i].state, d) \subseteq Delivered(d) \cup {b[j] : j \in 1..i}
    BY <1>2 DEF IInv, NoHoleInBuffer
  <1>19. NoHoleInBuffer'
    <2> SUFFICES ASSUME NEW q \in Proc, NEW e \in Dest, NEW i \in DOMAIN proc'[q].buffer[e]
                 PROVE  OutputsTo(proc'[q].buffer[e][i].state, e) \subseteq
                            Delivered(e)' \cup {proc'[q].buffer[e][j] : j \in 1..i}
      BY DEF NoHoleInBuffer, OutputsTo
    <2>1. CASE q # r \/ e # d
      <3>1. proc'[q].buffer[e] = proc[q].buffer[e]
        BY <1>9, <2>1
      <3>2. Delivered(e) \subseteq Delivered(e)'
        BY <1>13
      <3> QED
        BY <3>1, <3>2 DEF IInv, NoHoleInBuffer
    <2>2. CASE q = r /\ e = d
      <3>1. i \in 1..(Len(b) - 1) /\ c[i] = b[i + 1] /\ i + 1 \in DOMAIN b
        BY <1>3, <1>9, <2>2
      <3>2. OutputsTo(c[i].state, d) \subseteq Delivered(d) \cup {b[j] : j \in 1..(i + 1)}
        BY <1>18, <3>1
      <3>3. {b[j] : j \in 1..(i + 1)} \subseteq {b[1]} \cup {c[j] : j \in 1..i}
        <4> SUFFICES ASSUME NEW j \in 1..(i + 1), j # 1
                     PROVE  \E k \in 1..i : c[k] = b[j]
          OBVIOUS
        <4>1. j - 1 \in 1..i /\ j - 1 \in 1..(Len(b) - 1)
          BY <1>3, <3>1
        <4>2. c[j - 1] = b[j]
          BY <1>3, <4>1
        <4> QED
          BY <4>1, <4>2
      <3>4. OutputsTo(c[i].state, d) \subseteq Delivered(d)' \cup {c[j] : j \in 1..i}
        BY <1>13, <3>2, <3>3
      <3> QED
        BY <1>9, <2>2, <3>4
    <2> QED
      BY <2>1, <2>2
  <1>20. NoHole'
    <2> SUFFICES ASSUME NEW e \in Dest, NEW i \in DOMAIN out'[e]
                 PROVE  OutputsTo(out'[e][i].state, e) \subseteq {out'[e][j] : j \in 1..i}
      BY DEF NoHole, OutputsTo
    <2>1. CASE e # d
      <3>1. out'[e] = out[e]
        BY <1>5, <2>1
      <3> QED
        BY <3>1 DEF IInv, NoHole
    <2>2. CASE e = d
      <3>1. \A k \in DOMAIN o : OutputsTo(o[k].state, d) \subseteq {o[j] : j \in 1..k}
        <4>1. o = out[d]
          BY <1>2
        <4>2. \A k \in DOMAIN out[d] : OutputsTo(out[d][k].state, d) \subseteq {out[d][j] : j \in 1..k}
          BY DEF IInv, NoHole
        <4> QED
          BY <4>1, <4>2
      <3>2. i \in 1..(Len(o) + 1)
        BY <1>4, <1>5, <2>2
      <3>3. CASE i \in 1..Len(o)
        <4>1. \A j \in 1..i : p[j] = o[j]
          BY <1>4, <3>3
        <4>2. p[i] = o[i] /\ i \in DOMAIN o /\ {p[j] : j \in 1..i} = {o[j] : j \in 1..i}
          BY <1>4, <3>3, <4>1
        <4>3. OutputsTo(p[i].state, d) \subseteq {p[j] : j \in 1..i}
          BY <3>1, <4>2
        <4> QED
          BY <1>5, <2>2, <4>3
      <3>4. CASE i = Len(o) + 1
        <4>1. 1 \in DOMAIN b /\ 1..1 = {1}
          BY <1>3
        <4>2. OutputsTo(b[1].state, d) \subseteq Delivered(d) \cup {b[1]}
          BY <1>18, <4>1
        <4>3. p[i] = b[1] /\ 1..i = DOMAIN p
          BY <1>4, <3>4
        <4>4. Delivered(d)' = {p[j] : j \in 1..i}
          BY <1>5, <4>3 DEF Delivered
        <4>5. OutputsTo(p[i].state, d) \subseteq {p[j] : j \in 1..i}
          BY <1>13, <4>2, <4>3, <4>4
        <4> QED
          BY <1>5, <2>2, <4>5
      <3> QED
        BY <3>2, <3>3, <3>4
    <2> QED
      BY <2>1, <2>2
  <1>21. SnapshotCovered'
    <2> SUFFICES ASSUME NEW e \in Dest
                 PROVE  OutputsTo(snap.handled, e) \subseteq Delivered(e)'
      BY <1>1 DEF SnapshotCovered, OutputsTo
    <2> QED
      BY <1>13 DEF IInv, SnapshotCovered
  <1> QED
    BY <1>10, <1>16, <1>17, <1>19, <1>20, <1>21 DEF IInv

(* Nothing is on its way, so everything the snapshot remembers is there.   *)
LEMMA PutSnapshotStep ==
    ASSUME IInv, NEW r \in Proc, PutSnapshot(r)
    PROVE  IInv'
  <1>1. /\ TypeOK /\ proc[r] \in ProcState /\ proc[r].phase = "put"
        /\ UNCHANGED <<input, first, life, out, committed, owner, disruptions, trims>>
        /\ snap' = [next |-> proc[r].next, handled |-> proc[r].handled]
    BY DEF IInv, PutSnapshot, TypeOK
  <1>2. proc[r].on /\ proc[r].buffer = Empty
    BY <1>1 DEF IInv, EmptyAtPut
  <1>3. /\ [proc[r] EXCEPT !.dirty = FALSE, !.phase = "commit"] \in ProcState
        /\ [proc[r] EXCEPT !.dirty = FALSE, !.phase = "commit"].on = proc[r].on
        /\ [proc[r] EXCEPT !.dirty = FALSE, !.phase = "commit"].handled = proc[r].handled
        /\ [proc[r] EXCEPT !.dirty = FALSE, !.phase = "commit"].buffer = proc[r].buffer
    BY <1>1 DEF ProcState
  <1>4. /\ proc' \in [Proc -> ProcState]
        /\ \A q \in Proc : q # r => proc'[q] = proc[q]
        /\ proc'[r].on = proc[r].on
        /\ proc'[r].handled = proc[r].handled
        /\ proc'[r].buffer = proc[r].buffer
    BY <1>1, <1>3 DEF PutSnapshot, Becomes, TypeOK
  <1>5. TypeOK'
    BY <1>1, <1>4 DEF TypeOK, ProcState, Snapshot
  <1>6. \A q \in Proc : /\ proc'[q].on = proc[q].on
                        /\ proc'[q].handled = proc[q].handled
                        /\ proc'[q].buffer = proc[q].buffer
    BY <1>4
  <1>7. Accounted'
    BY <1>1, <1>6 DEF IInv, Accounted, Buffered, Delivered, OutputsTo
  <1>8. EmptyAtPut'
    BY <1>2, <1>4 DEF IInv, EmptyAtPut
  <1>9. NoHoleInBuffer'
    BY <1>1, <1>6 DEF IInv, NoHoleInBuffer, Delivered, OutputsTo
  <1>10. NoHole'
    BY <1>1 DEF IInv, NoHole, OutputsTo
  <1>11. SnapshotCovered'
    <2> SUFFICES ASSUME NEW d \in Dest
                 PROVE  OutputsTo(snap'.handled, d) \subseteq Delivered(d)'
      BY DEF SnapshotCovered, OutputsTo
    <2>1. Buffered(r, d) = {}
      BY <1>2 DEF Buffered, Empty
    <2>2. OutputsTo(proc[r].handled, d) \subseteq Delivered(d)
      BY <1>2, <2>1 DEF IInv, Accounted
    <2> QED
      BY <1>1, <2>2 DEF Delivered
  <1> QED
    BY <1>5, <1>7, <1>8, <1>9, <1>10, <1>11 DEF IInv

LEMMA BecomesFields ==
    ASSUME TypeOK, NEW r \in Proc, NEW p \in ProcState, Becomes(r, p)
    PROVE  /\ proc' \in [Proc -> ProcState]
           /\ proc'[r] = p
           /\ \A q \in Proc : q # r => proc'[q] = proc[q]
  BY DEF Becomes, TypeOK

LEMMA IdleFields ==
    ASSUME NEW b
    PROVE  ~Idle(b).on /\ Idle(b).phase = "poll" /\ Idle(b).buffer = b
  BY DEF Idle

(* A process lets its task go, keeping what it has to send or losing it.   *)
LEMMA LetGoStep ==
    ASSUME IInv, NEW r \in Proc, NEW b \in {proc[r].buffer, Empty}, Becomes(r, Idle(b)),
           UNCHANGED <<input, first, life, out, snap, trims>>,
           committed' \in Nat, owner' \in Proc \cup {None}, disruptions' \in Nat
    PROVE  IInv'
  <1>1. TypeOK /\ proc[r] \in ProcState
    BY DEF IInv, TypeOK
  <1>2. b \in [Dest -> Seq(Output)]
    BY <1>1, EmptyType DEF ProcState
  <1>3. Idle(b) \in ProcState
    BY <1>2, IdleType
  <1>4. /\ proc' \in [Proc -> ProcState]
        /\ proc'[r] = Idle(b)
        /\ \A q \in Proc : q # r => proc'[q] = proc[q]
    BY <1>1, <1>3, BecomesFields
  <1>5. TypeOK'
    BY <1>1, <1>4 DEF TypeOK
  <1>6. ~proc'[r].on /\ proc'[r].phase = "poll" /\ proc'[r].buffer \in {proc[r].buffer, Empty}
    BY <1>4, IdleFields
  <1> QED
    BY <1>4, <1>5, <1>6, ProcStep

(* A process keeps its task and what it has to send.                       *)
LEMMA KeepStep ==
    ASSUME IInv, NEW r \in Proc, NEW p \in ProcState, Becomes(r, p), p.on,
           p.buffer = proc[r].buffer,
           proc[r].on /\ p.handled = proc[r].handled,
           p.phase \in {"put", "commit"} => p.buffer = Empty,
           UNCHANGED <<input, first, life, out, snap, trims>>,
           committed' \in Nat, owner' \in Proc \cup {None}, disruptions' \in Nat
    PROVE  IInv'
  <1>1. TypeOK
    BY DEF IInv
  <1>2. /\ proc' \in [Proc -> ProcState]
        /\ proc'[r] = p
        /\ \A q \in Proc : q # r => proc'[q] = proc[q]
    BY <1>1, BecomesFields
  <1>3. TypeOK'
    BY <1>1, <1>2 DEF TypeOK
  <1>4. p.phase \in {"poll", "flush", "put", "commit"}
    BY DEF ProcState
  <1>5. /\ proc'[r].buffer \in {proc[r].buffer, Empty}
        /\ proc'[r].on /\ proc'[r].buffer = proc[r].buffer
        /\ proc[r].on /\ proc'[r].handled = proc[r].handled
        /\ proc'[r].phase # "poll" /\ proc'[r].phase # "flush" => proc'[r].buffer = Empty
    BY <1>2, <1>4
  <1> QED
    BY <1>2, <1>3, <1>5, ProcStep

LEMMA AssignStep ==
    ASSUME IInv, NEW r \in Proc, Assign(r)
    PROVE  IInv'
  <1>1. PICK p : p = [proc[r] EXCEPT !.on = TRUE, !.next = snap.next, !.handled = snap.handled]
    OBVIOUS
  <1>2. TypeOK /\ proc[r] \in ProcState /\ snap \in Snapshot
    BY DEF IInv, TypeOK
  <1>3. /\ p \in ProcState /\ p.on /\ p.buffer = proc[r].buffer
        /\ p.handled = snap.handled /\ p.phase = proc[r].phase
    BY <1>1, <1>2 DEF ProcState, Snapshot
  <1>4. p.phase = "poll"
    BY <1>3 DEF IInv, EmptyAtPut, Assign
  <1>5. Becomes(r, p)
    BY <1>1 DEF Assign
  <1>6. UNCHANGED <<input, first, life, out, snap, trims>>
    BY DEF Assign
  <1>7. committed' \in Nat /\ owner' \in Proc \cup {None} /\ disruptions' \in Nat
    BY <1>2 DEF Assign, Disrupt, TypeOK
  <1>8. /\ proc' \in [Proc -> ProcState]
        /\ proc'[r] = p
        /\ \A q \in Proc : q # r => proc'[q] = proc[q]
    BY <1>2, <1>3, <1>5, BecomesFields
  <1>9. TypeOK'
    BY <1>2, <1>6, <1>7, <1>8 DEF TypeOK
  <1> QED
    BY <1>3, <1>4, <1>6, <1>8, <1>9, ProcStep

LEMMA FlushedStep ==
    ASSUME IInv, NEW r \in Proc, Flushed(r)
    PROVE  IInv'
  <1> DEFINE p == [proc[r] EXCEPT !.phase = "put"]
  <1>1. TypeOK /\ proc[r] \in ProcState
    BY DEF IInv, TypeOK
  <1>2. proc[r].phase = "flush" /\ proc[r].buffer = Empty /\ proc[r].on
    BY DEF Flushed, IInv, EmptyAtPut
  <1>3. UNCHANGED <<input, first, life, out, snap, trims>>
    BY DEF Flushed
  <1>4. committed' \in Nat /\ owner' \in Proc \cup {None} /\ disruptions' \in Nat
    BY <1>1 DEF Flushed, TypeOK
  <1>5. CASE proc[r].next = 0
    <2>1. Becomes(r, Idle(proc[r].buffer))
      BY <1>5 DEF Flushed
    <2> QED
      BY <1>3, <1>4, <2>1, LetGoStep
  <1>6. CASE proc[r].next # 0
    <2>1. Becomes(r, p)
      BY <1>6 DEF Flushed
    <2>2. /\ p \in ProcState /\ p.on /\ p.buffer = proc[r].buffer
          /\ p.handled = proc[r].handled /\ p.phase = "put"
      BY <1>1, <1>2 DEF ProcState
    <2> HIDE DEF p
    <2> QED
      BY <1>2, <1>3, <1>4, <2>1, <2>2, KeepStep
  <1> QED
    BY <1>5, <1>6

LEMMA CommitStep ==
    ASSUME IInv, NEW r \in Proc, Commit(r)
    PROVE  IInv'
  <1> DEFINE p == [proc[r] EXCEPT !.phase = "poll"]
  <1>1. TypeOK /\ proc[r] \in ProcState
    BY DEF IInv, TypeOK
  <1>2. proc[r].phase = "commit" /\ proc[r].on
    BY DEF Commit, IInv, EmptyAtPut
  <1>3. UNCHANGED <<input, first, life, out, snap, trims>>
    BY DEF Commit
  <1>4. committed' \in Nat /\ owner' \in Proc \cup {None} /\ disruptions' \in Nat
    BY <1>1 DEF Commit, TypeOK, ProcState
  <1>5. CASE proc[r].leaving
    <2>1. Becomes(r, Idle(proc[r].buffer))
      BY <1>5 DEF Commit
    <2> QED
      BY <1>3, <1>4, <2>1, LetGoStep
  <1>6. CASE ~proc[r].leaving /\ owner # r
    <2>1. Becomes(r, Idle(Empty))
      BY <1>6 DEF Commit, Stopped
    <2> QED
      BY <1>3, <1>4, <2>1, LetGoStep
  <1>7. CASE ~proc[r].leaving /\ owner = r
    <2>1. Becomes(r, p)
      BY <1>7 DEF Commit
    <2>2. /\ p \in ProcState /\ p.on /\ p.buffer = proc[r].buffer
          /\ p.handled = proc[r].handled /\ p.phase = "poll"
      BY <1>1, <1>2 DEF ProcState
    <2> HIDE DEF p
    <2> QED
      BY <1>2, <1>3, <1>4, <2>1, <2>2, KeepStep
  <1> QED
    BY <1>5, <1>6, <1>7

LEMMA LeaveStep ==
    ASSUME IInv, NEW r \in Proc, Leave(r)
    PROVE  IInv'
  <1> DEFINE p == [proc[r] EXCEPT !.phase = "flush", !.leaving = TRUE]
  <1>1. TypeOK /\ proc[r] \in ProcState /\ proc[r].on
    BY DEF IInv, TypeOK, Leave, Polling
  <1>2. /\ p \in ProcState /\ p.on /\ p.buffer = proc[r].buffer
        /\ p.handled = proc[r].handled /\ p.phase = "flush"
    BY <1>1 DEF ProcState
  <1>3. Becomes(r, p) /\ UNCHANGED <<input, first, life, out, snap, trims>>
    BY DEF Leave
  <1>4. committed' \in Nat /\ owner' \in Proc \cup {None} /\ disruptions' \in Nat
    BY <1>1 DEF Leave, Disrupt, TypeOK
  <1> HIDE DEF p
  <1> QED
    BY <1>1, <1>2, <1>3, <1>4, KeepStep

LEMMA LosingStep ==
    ASSUME IInv, NEW r \in Proc, HandoverFails(r) \/ Lost(r) \/ GapStop(r) \/ Crash(r)
    PROVE  IInv'
  <1>1. TypeOK
    BY DEF IInv
  <1>2. UNCHANGED <<input, first, life, out, snap, trims>>
    BY DEF HandoverFails, Lost, GapStop, Crash
  <1>3. \E b \in {proc[r].buffer, Empty} : Becomes(r, Idle(b))
    BY DEF HandoverFails, Lost, GapStop, Crash, Stopped
  <1>4. committed' \in Nat /\ owner' \in Proc \cup {None} /\ disruptions' \in Nat
    BY <1>1 DEF HandoverFails, Lost, GapStop, Crash, Disrupt, TypeOK
  <1> QED
    BY <1>2, <1>3, <1>4, LetGoStep

LEMMA InputStep ==
    ASSUME IInv, (\E d \in Dest \cup {None} : Produce(d)) \/ Trim \/ Recreate
    PROVE  IInv'
  <1>1. TypeOK
    BY DEF IInv
  <1>2. UNCHANGED <<out, snap, proc>>
    BY DEF Produce, Trim, Recreate
  <1>3. ASSUME NEW d \in Dest \cup {None}, Produce(d)
        PROVE  TypeOK'
    <2> PICK x : x = [life |-> life, offset |-> Len(input) + 1, dest |-> d]
      OBVIOUS
    <2>1. input \in Seq(Record) /\ Len(input) \in Nat
      BY <1>1 DEF TypeOK
    <2>2. x \in Record
      BY <1>1, <2>1 DEF TypeOK, Record
    <2>3. input' = Append(input, x) /\ input' \in Seq(Record) /\ Len(input') = Len(input) + 1
      BY <1>3, <2>1, <2>2 DEF Produce
    <2> QED
      BY <1>1, <1>3, <2>1, <2>3 DEF Produce, TypeOK
  <1>4. ASSUME Trim PROVE TypeOK'
    <2>1. Len(input) \in Nat /\ snap.next \in Nat
      BY <1>1 DEF TypeOK, Snapshot
    <2>2. first' \in 1..(Len(input) + 1)
      BY <1>1, <1>4, <2>1 DEF Trim, TypeOK
    <2> QED
      BY <1>1, <1>4, <2>2 DEF Trim, TypeOK
  <1>5. ASSUME Recreate PROVE TypeOK'
    <2>1. input' = << >> /\ input' \in Seq(Record) /\ Len(input') = 0 /\ first' = 1
      BY <1>5 DEF Recreate
    <2> QED
      BY <1>1, <1>5, <2>1 DEF Recreate, TypeOK
  <1> QED
    BY <1>2, <1>3, <1>4, <1>5, FrameStep

LEMMA NextInv == IInv /\ [Next]_vars => IInv'
  <1> SUFFICES ASSUME IInv, [Next]_vars PROVE IInv'
    OBVIOUS
  <1>1. CASE (\E d \in Dest \cup {None} : Produce(d)) \/ Trim \/ Recreate
    BY <1>1, InputStep
  <1>2. ASSUME NEW r \in Proc, Assign(r) PROVE IInv'
    BY <1>2, AssignStep
  <1>3. ASSUME NEW r \in Proc, TaskWork(r) PROVE IInv'
    BY <1>3, HandleRecordStep, FlushedStep, PutSnapshotStep, CommitStep DEF TaskWork
  <1>4. ASSUME NEW r \in Proc, NEW d \in Dest, SendOutput(r, d) PROVE IInv'
    BY <1>4, SendOutputStep
  <1>5. ASSUME NEW r \in Proc, Leave(r) PROVE IInv'
    BY <1>5, LeaveStep
  <1>6. ASSUME NEW r \in Proc, HandoverFails(r) \/ Lost(r) \/ GapStop(r) \/ Crash(r) PROVE IInv'
    BY <1>6, LosingStep
  <1>7. CASE UNCHANGED vars
    <2>1. TypeOK'
      BY <1>7 DEF IInv, TypeOK, vars
    <2> QED
      BY <1>7, <2>1, FrameStep DEF vars
  <1> QED
    BY <1>1, <1>2, <1>3, <1>4, <1>5, <1>6, <1>7 DEF Next

-----------------------------------------------------------------------------
(* The inductive invariant holds: types, and where every output is.        *)
THEOREM Invariance == Spec => []IInv
  <1> QED
    BY InitInv, NextInv, PTL DEF Spec

(* A stage restored from its snapshot has lost no output: what the         *)
(* snapshot remembers having emitted is in the downstream partitions       *)
(* (runner.go checkpoint: flush, then put, then commit).                   *)
THEOREM NothingForgotten == Spec => []SnapshotCovered
  <1>1. IInv => SnapshotCovered
    BY DEF IInv
  <1> QED
    BY <1>1, Invariance, PTL

(* A reader that drops what lies under its high-water mark drops nothing   *)
(* it has not seen: the outputs to a partition arrive without holes        *)
(* (runner.go produce, flush and batch).                                   *)
THEOREM ArrivesInOrder == Spec => []NoHole
  <1>1. IInv => NoHole
    BY DEF IInv
  <1> QED
    BY <1>1, Invariance, PTL

(* Every variable keeps its type. *)
THEOREM Types == Spec => []TypeOK
  <1>1. IInv => TypeOK
    BY DEF IInv
  <1> QED
    BY <1>1, Invariance, PTL

-----------------------------------------------------------------------------
(* State and offset, while no input was deleted. *)

(* h is a prefix of the input, and n the offset after it. *)
Covers(h) == Len(h) <= Len(input) /\ \A i \in 1..Len(h) : h[i] = input[i]
Agrees(h, n) == Covers(h) /\ (n = 0 => Len(h) = 0) /\ (n # 0 => Len(h) = n - 1)

(* o is the output for d of the input up to some record. *)
Genuine(o, d) ==
    /\ o.state \in Seq(Record) /\ o.state # << >>
    /\ Covers(o.state)
    /\ o = OutputOf(o.state)
    /\ o.state[Len(o.state)].dest = d

SnapAgrees == Agrees(snap.handled, snap.next)
TasksAgree == \A r \in Proc : Agrees(proc[r].handled, proc[r].next)
BufferGenuine ==
    \A r \in Proc, d \in Dest : \A i \in DOMAIN proc[r].buffer[d] : Genuine(proc[r].buffer[d][i], d)
OutGenuine == \A d \in Dest : \A i \in DOMAIN out[d] : Genuine(out[d][i], d)

PrefixInv == first = 1 /\ SnapAgrees /\ TasksAgree /\ BufferGenuine /\ OutGenuine

StateInv == Lossless => PrefixInv

LEMMA InitPrefix == Init => PrefixInv
  <1> SUFFICES ASSUME Init PROVE PrefixInv
    OBVIOUS
  <1>1. input = << >> /\ Len(input) = 0 /\ first = 1
    BY DEF Init
  <1>2. \A r \in Proc : proc[r].handled = << >> /\ proc[r].next = 0
                        /\ \A d \in Dest : proc[r].buffer[d] = << >>
    BY DEF Init, Stopped, Idle, Empty
  <1>3. snap.handled = << >> /\ snap.next = 0
    BY DEF Init, NoSnapshot
  <1>4. \A d \in Dest : out[d] = << >>
    BY DEF Init, Empty
  <1>5. Agrees(<< >>, 0)
    BY <1>1 DEF Agrees, Covers
  <1>6. SnapAgrees /\ TasksAgree
    BY <1>2, <1>3, <1>5 DEF SnapAgrees, TasksAgree
  <1>7. BufferGenuine
    BY <1>2 DEF BufferGenuine
  <1>8. OutGenuine
    BY <1>4 DEF OutGenuine
  <1> QED
    BY <1>1, <1>6, <1>7, <1>8 DEF PrefixInv

(* A longer input has the same prefixes. *)
LEMMA CoversGrows ==
    ASSUME input \in Seq(Record), NEW x \in Record, input' = Append(input, x),
           NEW h \in Seq(Record), Covers(h)
    PROVE  Covers(h)'
  <1>1. Len(input) \in Nat /\ Len(h) \in Nat /\ Len(input') = Len(input) + 1
    OBVIOUS
  <1>2. \A i \in 1..Len(input) : input'[i] = input[i]
    OBVIOUS
  <1> QED
    BY <1>1, <1>2 DEF Covers

LEMMA ProducePrefix ==
    ASSUME TypeOK, PrefixInv, NEW d \in Dest \cup {None}, Produce(d)
    PROVE  PrefixInv'
  <1> PICK x : x = [life |-> life, offset |-> Len(input) + 1, dest |-> d]
    OBVIOUS
  <1>1. input \in Seq(Record) /\ x \in Record /\ input' = Append(input, x)
    <2>1. input \in Seq(Record) /\ Len(input) \in Nat /\ life \in Nat
      BY DEF TypeOK
    <2>2. x \in Record
      BY <2>1 DEF Record
    <2> QED
      BY <2>1, <2>2 DEF Produce
  <1>2. UNCHANGED <<first, out, snap, proc>>
    BY DEF Produce
  <1>3. \A h \in Seq(Record) : Covers(h) => Covers(h)'
    BY <1>1, CoversGrows
  <1>4. \A h \in Seq(Record), n \in Nat : Agrees(h, n) => Agrees(h, n)'
    BY <1>3 DEF Agrees
  <1>5. \A o, e : Genuine(o, e) => Genuine(o, e)'
    BY <1>3 DEF Genuine
  <1>6. SnapAgrees'
    BY <1>2, <1>4 DEF PrefixInv, SnapAgrees, TypeOK, Snapshot
  <1>7. TasksAgree'
    BY <1>2, <1>4 DEF PrefixInv, TasksAgree, TypeOK, ProcState
  <1>8. BufferGenuine'
    BY <1>2, <1>5 DEF PrefixInv, BufferGenuine
  <1>9. OutGenuine'
    BY <1>2, <1>5 DEF PrefixInv, OutGenuine
  <1> QED
    BY <1>2, <1>6, <1>7, <1>8, <1>9 DEF PrefixInv

(* Steps of a process that neither handle a record nor send. *)
LEMMA ProcPrefix ==
    ASSUME PrefixInv, NEW r \in Proc, UNCHANGED <<input, first, out>>,
           \A q \in Proc : q # r => proc'[q] = proc[q],
           proc'[r].buffer \in {proc[r].buffer, Empty},
           Agrees(proc'[r].handled, proc'[r].next),
           Agrees(snap'.handled, snap'.next)
    PROVE  PrefixInv'
  <1>1. \A o, e : Genuine(o, e)' <=> Genuine(o, e)
    BY DEF Genuine, Covers
  <1>2. \A h, n : Agrees(h, n)' <=> Agrees(h, n)
    BY DEF Agrees, Covers
  <1>3. SnapAgrees'
    BY <1>2 DEF SnapAgrees
  <1>4. TasksAgree'
    <2> SUFFICES ASSUME NEW q \in Proc PROVE Agrees(proc'[q].handled, proc'[q].next)
      BY <1>2 DEF TasksAgree
    <2>1. CASE q = r
      BY <2>1
    <2>2. CASE q # r
      BY <2>2 DEF PrefixInv, TasksAgree
    <2> QED
      BY <2>1, <2>2
  <1>5. BufferGenuine'
    <2> SUFFICES ASSUME NEW q \in Proc, NEW d \in Dest, NEW i \in DOMAIN proc'[q].buffer[d]
                 PROVE  Genuine(proc'[q].buffer[d][i], d)
      BY <1>1 DEF BufferGenuine
    <2>1. proc'[q].buffer[d] = proc[q].buffer[d] \/ proc'[q].buffer[d] = << >>
      BY DEF Empty
    <2>2. proc'[q].buffer[d] = proc[q].buffer[d]
      BY <2>1
    <2> QED
      BY <2>2 DEF PrefixInv, BufferGenuine
  <1>6. OutGenuine'
    BY <1>1 DEF PrefixInv, OutGenuine
  <1> QED
    BY <1>3, <1>4, <1>5, <1>6 DEF PrefixInv

LEMMA HandlePrefix ==
    ASSUME TypeOK, PrefixInv, NEW r \in Proc, HandleRecord(r)
    PROVE  PrefixInv'
  <1>1. PICK phase \in {"poll", "flush"} : Becomes(r, AfterRecord(r, phase))
    BY DEF HandleRecord
  <1>2. Upcoming(r) \in first..Len(input) /\ UNCHANGED <<input, first, out, snap>>
    BY DEF HandleRecord
  <1>3. PICK h, dest :
        /\ h = HandledNext(r) /\ dest = NextDest(r)
        /\ proc' \in [Proc -> ProcState]
        /\ h \in Seq(Record) /\ dest \in Dest \cup {None}
        /\ \A q \in Proc : q # r => proc'[q] = proc[q]
        /\ proc'[r].on = proc[r].on
        /\ proc'[r].phase = phase
        /\ proc'[r].handled = h
        /\ proc'[r].next = Upcoming(r) + 1
        /\ \A e \in Dest : e # dest => proc'[r].buffer[e] = proc[r].buffer[e]
        /\ dest \in Dest => proc'[r].buffer[dest] = Append(proc[r].buffer[dest], OutputOf(h))
    BY <1>1, <1>2, HandledFields
  <1>4. PICK g, n, up, x : g = proc[r].handled /\ n = proc[r].next
                           /\ up = Upcoming(r) /\ x = input[Upcoming(r)]
    OBVIOUS
  <1>5. /\ g \in Seq(Record) /\ n \in Nat /\ x \in Record /\ Len(input) \in Nat
        /\ up \in 1..Len(input) /\ x = input[up]
        /\ h = Append(g, x) /\ dest = x.dest
    BY <1>2, <1>3, <1>4, RecordType DEF TypeOK, ProcState, HandledNext, NextDest
  <1>6. Agrees(g, n)
    BY <1>4 DEF PrefixInv, TasksAgree
  <1>7. up = Len(g) + 1
    <2>1. up = IF n = 0 THEN 1 ELSE n
      BY <1>4 DEF Upcoming, PrefixInv
    <2> QED
      BY <1>5, <1>6, <2>1 DEF Agrees
  <1>8. /\ Len(h) = Len(g) + 1 /\ Len(g) \in Nat /\ h[Len(h)] = x
        /\ \A i \in 1..Len(g) : h[i] = g[i]
    BY <1>5
  <1>9. Covers(h)
    <2> SUFFICES ASSUME NEW i \in 1..Len(h) PROVE h[i] = input[i]
      BY <1>5, <1>7, <1>8 DEF Covers
    <2>1. CASE i \in 1..Len(g)
      BY <1>6, <1>8, <2>1 DEF Agrees, Covers
    <2>2. CASE i = Len(g) + 1
      BY <1>5, <1>7, <1>8, <2>2
    <2> QED
      BY <1>8, <2>1, <2>2
  <1>10. Agrees(h, up + 1)
    BY <1>5, <1>7, <1>8, <1>9 DEF Agrees
  <1>11. dest \in Dest => Genuine(OutputOf(h), dest)
    <2>1. OutputOf(h).state = h
      BY DEF OutputOf
    <2>2. h # << >> /\ h[Len(h)].dest = dest
      BY <1>5, <1>8
    <2> QED
      BY <1>3, <1>9, <2>1, <2>2 DEF Genuine
  <1>12. \A o, e : Genuine(o, e)' <=> Genuine(o, e)
    BY <1>2 DEF Genuine, Covers
  <1>13. \A k, m : Agrees(k, m)' <=> Agrees(k, m)
    BY <1>2 DEF Agrees, Covers
  <1>14. SnapAgrees'
    BY <1>2, <1>13 DEF PrefixInv, SnapAgrees
  <1>15. TasksAgree'
    <2> SUFFICES ASSUME NEW q \in Proc PROVE Agrees(proc'[q].handled, proc'[q].next)
      BY <1>13 DEF TasksAgree
    <2>1. CASE q = r
      BY <1>3, <1>4, <1>10, <2>1
    <2>2. CASE q # r
      BY <1>3, <2>2 DEF PrefixInv, TasksAgree
    <2> QED
      BY <2>1, <2>2
  <1>16. BufferGenuine'
    <2> SUFFICES ASSUME NEW q \in Proc, NEW d \in Dest, NEW i \in DOMAIN proc'[q].buffer[d]
                 PROVE  Genuine(proc'[q].buffer[d][i], d)
      BY <1>12 DEF BufferGenuine
    <2>1. CASE q # r \/ d # dest
      <3>1. proc'[q].buffer[d] = proc[q].buffer[d]
        BY <1>3, <2>1
      <3> QED
        BY <3>1 DEF PrefixInv, BufferGenuine
    <2>2. CASE q = r /\ d = dest
      <3>1. PICK b, c : b = proc[r].buffer[d] /\ c = proc'[r].buffer[d]
        OBVIOUS
      <3>2. b \in Seq(Output) /\ c = Append(b, OutputOf(h))
        BY <1>3, <2>2, <3>1 DEF TypeOK, ProcState
      <3>3. /\ Len(b) \in Nat /\ DOMAIN b = 1..Len(b) /\ DOMAIN c = 1..(Len(b) + 1)
            /\ c[Len(b) + 1] = OutputOf(h)
            /\ \A j \in 1..Len(b) : c[j] = b[j]
        BY <3>2
      <3>4. \A j \in DOMAIN b : Genuine(b[j], d)
        BY <3>1 DEF PrefixInv, BufferGenuine
      <3>5. i \in DOMAIN c
        BY <2>2, <3>1
      <3>6. Genuine(c[i], d)
        <4>1. CASE i \in 1..Len(b)
          BY <3>3, <3>4, <4>1
        <4>2. CASE i = Len(b) + 1
          BY <1>11, <2>2, <3>3, <4>2
        <4> QED
          BY <3>3, <3>5, <4>1, <4>2
      <3> QED
        BY <2>2, <3>1, <3>6
    <2> QED
      BY <2>1, <2>2
  <1>17. OutGenuine'
    BY <1>2, <1>12 DEF PrefixInv, OutGenuine
  <1> QED
    BY <1>2, <1>14, <1>15, <1>16, <1>17 DEF PrefixInv

LEMMA SendPrefix ==
    ASSUME TypeOK, PrefixInv, NEW r \in Proc, NEW d \in Dest, SendOutput(r, d)
    PROVE  PrefixInv'
  <1>1. /\ proc[r] \in ProcState /\ proc[r].buffer \in [Dest -> Seq(Output)]
        /\ proc[r].buffer[d] \in Seq(Output) /\ proc[r].buffer[d] # << >>
        /\ out[d] \in Seq(Output) /\ out \in [Dest -> Seq(Output)]
        /\ UNCHANGED <<input, first, snap>>
    BY DEF SendOutput, TypeOK, ProcState
  <1>2. PICK b, c, o, p, buf :
           /\ b = proc[r].buffer[d] /\ c = Tail(b)
           /\ o = out[d] /\ p = Append(o, Head(b))
           /\ buf = [proc[r].buffer EXCEPT ![d] = c]
    OBVIOUS
  <1>3. /\ b \in Seq(Output) /\ c \in Seq(Output)
        /\ Len(b) \in Nat \ {0} /\ DOMAIN b = 1..Len(b) /\ DOMAIN c = 1..(Len(b) - 1)
        /\ b[1] = Head(b)
        /\ \A i \in 1..(Len(b) - 1) : c[i] = b[i + 1]
    BY <1>1, <1>2
  <1>4. /\ Len(o) \in Nat /\ DOMAIN o = 1..Len(o) /\ DOMAIN p = 1..(Len(o) + 1)
        /\ p[Len(o) + 1] = b[1]
        /\ \A i \in 1..Len(o) : p[i] = o[i]
    BY <1>1, <1>2, <1>3
  <1>5. out'[d] = p /\ \A e \in Dest : e # d => out'[e] = out[e]
    BY <1>1, <1>2 DEF SendOutput
  <1>6. buf[d] = c /\ \A e \in Dest : e # d => buf[e] = proc[r].buffer[e]
    BY <1>1, <1>2
  <1>7. Becomes(r, [proc[r] EXCEPT !.buffer = buf])
    BY <1>2 DEF SendOutput
  <1>8. /\ [proc[r] EXCEPT !.buffer = buf].buffer = buf
        /\ [proc[r] EXCEPT !.buffer = buf].next = proc[r].next
        /\ [proc[r] EXCEPT !.buffer = buf].handled = proc[r].handled
    BY <1>1 DEF ProcState
  <1>9. /\ \A q \in Proc : q # r => proc'[q] = proc[q]
        /\ proc'[r].next = proc[r].next /\ proc'[r].handled = proc[r].handled
        /\ proc'[r].buffer[d] = c
        /\ \A e \in Dest : e # d => proc'[r].buffer[e] = proc[r].buffer[e]
    BY <1>6, <1>7, <1>8 DEF Becomes, TypeOK
  <1>10. \A i \in DOMAIN b : Genuine(b[i], d)
    BY <1>2 DEF PrefixInv, BufferGenuine
  <1>11. \A i \in DOMAIN o : Genuine(o[i], d)
    BY <1>2 DEF PrefixInv, OutGenuine
  <1>12. \A i \in DOMAIN c : Genuine(c[i], d)
    <2> SUFFICES ASSUME NEW i \in DOMAIN c PROVE Genuine(c[i], d)
      OBVIOUS
    <2>1. i + 1 \in DOMAIN b /\ c[i] = b[i + 1]
      BY <1>3
    <2> QED
      BY <1>10, <2>1
  <1>13. \A i \in DOMAIN p : Genuine(p[i], d)
    <2> SUFFICES ASSUME NEW i \in DOMAIN p PROVE Genuine(p[i], d)
      OBVIOUS
    <2>1. CASE i \in 1..Len(o)
      BY <1>4, <1>11, <2>1
    <2>2. CASE i = Len(o) + 1
      <3>1. 1 \in DOMAIN b /\ p[i] = b[1]
        BY <1>3, <1>4, <2>2
      <3> QED
        BY <1>10, <3>1
    <2> QED
      BY <1>4, <2>1, <2>2
  <1>14. \A x, e : Genuine(x, e)' <=> Genuine(x, e)
    BY <1>1 DEF Genuine, Covers
  <1>15. \A k, m : Agrees(k, m)' <=> Agrees(k, m)
    BY <1>1 DEF Agrees, Covers
  <1>16. SnapAgrees'
    BY <1>1, <1>15 DEF PrefixInv, SnapAgrees
  <1>17. TasksAgree'
    <2> SUFFICES ASSUME NEW q \in Proc PROVE Agrees(proc'[q].handled, proc'[q].next)
      BY <1>15 DEF TasksAgree
    <2>1. proc'[q].handled = proc[q].handled /\ proc'[q].next = proc[q].next
      BY <1>9
    <2> QED
      BY <2>1 DEF PrefixInv, TasksAgree
  <1>18. BufferGenuine'
    <2> SUFFICES ASSUME NEW q \in Proc, NEW e \in Dest, NEW i \in DOMAIN proc'[q].buffer[e]
                 PROVE  Genuine(proc'[q].buffer[e][i], e)
      BY <1>14 DEF BufferGenuine
    <2>1. CASE q # r \/ e # d
      <3>1. proc'[q].buffer[e] = proc[q].buffer[e]
        BY <1>9, <2>1
      <3> QED
        BY <3>1 DEF PrefixInv, BufferGenuine
    <2>2. CASE q = r /\ e = d
      <3>1. proc'[q].buffer[e] = c
        BY <1>9, <2>2
      <3> QED
        BY <1>12, <2>2, <3>1
    <2> QED
      BY <2>1, <2>2
  <1>19. OutGenuine'
    <2> SUFFICES ASSUME NEW e \in Dest, NEW i \in DOMAIN out'[e]
                 PROVE  Genuine(out'[e][i], e)
      BY <1>14 DEF OutGenuine
    <2>1. CASE e # d
      <3>1. out'[e] = out[e]
        BY <1>5, <2>1
      <3> QED
        BY <3>1 DEF PrefixInv, OutGenuine
    <2>2. CASE e = d
      BY <1>5, <1>13, <2>2
    <2> QED
      BY <2>1, <2>2
  <1> QED
    BY <1>1, <1>16, <1>17, <1>18, <1>19 DEF PrefixInv

LEMMA LetGoPrefix ==
    ASSUME TypeOK, PrefixInv, NEW r \in Proc, NEW b \in {proc[r].buffer, Empty},
           Becomes(r, Idle(b)), UNCHANGED <<input, first, out, snap>>
    PROVE  PrefixInv'
  <1>1. proc'[r] = Idle(b) /\ \A q \in Proc : q # r => proc'[q] = proc[q]
    BY DEF Becomes, TypeOK
  <1>2. proc'[r].buffer \in {proc[r].buffer, Empty}
        /\ proc'[r].handled = << >> /\ proc'[r].next = 0
    BY <1>1 DEF Idle
  <1>3. Agrees(proc'[r].handled, proc'[r].next)
    <2>1. Len(input) \in Nat
      BY DEF TypeOK
    <2>2. Agrees(<< >>, 0)
      BY <2>1 DEF Agrees, Covers
    <2> QED
      BY <1>2, <2>2
  <1>4. Agrees(snap'.handled, snap'.next)
    BY DEF PrefixInv, SnapAgrees
  <1> QED
    BY <1>1, <1>2, <1>3, <1>4, ProcPrefix

(* A process keeps its state and its buffer. *)
LEMMA KeepPrefix ==
    ASSUME TypeOK, PrefixInv, NEW r \in Proc, NEW p, Becomes(r, p),
           p.buffer = proc[r].buffer, p.handled = proc[r].handled, p.next = proc[r].next,
           UNCHANGED <<input, first, out>>,
           snap' = snap \/ snap' = [next |-> proc[r].next, handled |-> proc[r].handled]
    PROVE  PrefixInv'
  <1>1. proc'[r] = p /\ \A q \in Proc : q # r => proc'[q] = proc[q]
    BY DEF Becomes, TypeOK
  <1>2. Agrees(proc[r].handled, proc[r].next)
    BY DEF PrefixInv, TasksAgree
  <1>3. Agrees(proc'[r].handled, proc'[r].next) /\ proc'[r].buffer \in {proc[r].buffer, Empty}
    BY <1>1, <1>2
  <1>4. Agrees(snap'.handled, snap'.next)
    <2>1. CASE snap' = snap
      BY <2>1 DEF PrefixInv, SnapAgrees
    <2>2. CASE snap' = [next |-> proc[r].next, handled |-> proc[r].handled]
      BY <1>2, <2>2
    <2> QED
      BY <2>1, <2>2
  <1> QED
    BY <1>1, <1>3, <1>4, ProcPrefix

LEMMA AssignPrefix ==
    ASSUME TypeOK, PrefixInv, NEW r \in Proc, Assign(r)
    PROVE  PrefixInv'
  <1>1. PICK p : p = [proc[r] EXCEPT !.on = TRUE, !.next = snap.next, !.handled = snap.handled]
    OBVIOUS
  <1>2. p.buffer = proc[r].buffer /\ p.handled = snap.handled /\ p.next = snap.next
    BY <1>1 DEF TypeOK, ProcState
  <1>3. Becomes(r, p) /\ UNCHANGED <<input, first, out, snap>>
    BY <1>1 DEF Assign
  <1>4. proc'[r] = p /\ \A q \in Proc : q # r => proc'[q] = proc[q]
    BY <1>3 DEF Becomes, TypeOK
  <1>5. Agrees(snap.handled, snap.next)
    BY DEF PrefixInv, SnapAgrees
  <1>6. Agrees(proc'[r].handled, proc'[r].next) /\ proc'[r].buffer \in {proc[r].buffer, Empty}
    BY <1>2, <1>4, <1>5
  <1>7. Agrees(snap'.handled, snap'.next)
    BY <1>3, <1>5
  <1> QED
    BY <1>3, <1>4, <1>6, <1>7, ProcPrefix

LEMMA CheckpointPrefix ==
    ASSUME TypeOK, PrefixInv, NEW r \in Proc,
           Flushed(r) \/ PutSnapshot(r) \/ Commit(r) \/ Leave(r)
    PROVE  PrefixInv'
  <1>1. proc[r] \in ProcState
    BY DEF TypeOK
  <1>2. UNCHANGED <<input, first, out>>
    BY DEF Flushed, PutSnapshot, Commit, Leave
  <1>3. CASE PutSnapshot(r)
    <2>1. PICK p : p = [proc[r] EXCEPT !.dirty = FALSE, !.phase = "commit"]
      OBVIOUS
    <2>2. p.buffer = proc[r].buffer /\ p.handled = proc[r].handled /\ p.next = proc[r].next
      BY <1>1, <2>1 DEF ProcState
    <2>3. Becomes(r, p) /\ snap' = [next |-> proc[r].next, handled |-> proc[r].handled]
      BY <1>3, <2>1 DEF PutSnapshot
    <2> QED
      BY <1>2, <2>2, <2>3, KeepPrefix
  <1>4. CASE Leave(r)
    <2>1. PICK p : p = [proc[r] EXCEPT !.phase = "flush", !.leaving = TRUE]
      OBVIOUS
    <2>2. p.buffer = proc[r].buffer /\ p.handled = proc[r].handled /\ p.next = proc[r].next
      BY <1>1, <2>1 DEF ProcState
    <2>3. Becomes(r, p) /\ snap' = snap
      BY <1>4, <2>1 DEF Leave
    <2> QED
      BY <1>2, <2>2, <2>3, KeepPrefix
  <1>5. CASE Flushed(r) \/ Commit(r)
    <2>1. PICK b, p :
             /\ b \in {proc[r].buffer, Empty}
             /\ p \in {[proc[r] EXCEPT !.phase = "put"], [proc[r] EXCEPT !.phase = "poll"]}
             /\ Becomes(r, Idle(b)) \/ Becomes(r, p)
      BY <1>5 DEF Flushed, Commit, Stopped
    <2>2. p.buffer = proc[r].buffer /\ p.handled = proc[r].handled /\ p.next = proc[r].next
      BY <1>1, <2>1 DEF ProcState
    <2>3. snap' = snap
      BY <1>5 DEF Flushed, Commit
    <2>4. CASE Becomes(r, Idle(b))
      BY <1>2, <2>1, <2>3, <2>4, LetGoPrefix
    <2>5. CASE Becomes(r, p)
      BY <1>2, <2>2, <2>3, <2>5, KeepPrefix
    <2> QED
      BY <2>1, <2>4, <2>5
  <1> QED
    BY <1>3, <1>4, <1>5

LEMMA LosingPrefix ==
    ASSUME TypeOK, PrefixInv, NEW r \in Proc,
           HandoverFails(r) \/ Lost(r) \/ GapStop(r) \/ Crash(r)
    PROVE  PrefixInv'
  <1>1. UNCHANGED <<input, first, out, snap>>
    BY DEF HandoverFails, Lost, GapStop, Crash
  <1>2. \E b \in {proc[r].buffer, Empty} : Becomes(r, Idle(b))
    BY DEF HandoverFails, Lost, GapStop, Crash, Stopped
  <1> QED
    BY <1>1, <1>2, LetGoPrefix

LEMMA NextState == TypeOK /\ StateInv /\ [Next]_vars => StateInv'
  <1> SUFFICES ASSUME TypeOK, StateInv, [Next]_vars, Lossless' PROVE PrefixInv'
    BY DEF StateInv
  <1>1. /\ trims \in Nat /\ life \in Nat
        /\ trims' = trims \/ trims' = trims + 1
        /\ life' = life \/ life' = life + 1
    BY DEF TypeOK, Next, vars, Produce, Trim, Recreate, Assign, TaskWork, HandleRecord, Flushed,
           PutSnapshot, Commit, SendOutput, GapStop, Leave, HandoverFails, Lost, Crash
  <1>2. trims = 0 /\ life = 0 /\ trims' = trims /\ life' = life
    BY <1>1 DEF Lossless
  <1>3. PrefixInv
    BY <1>2 DEF StateInv, Lossless
  <1>4. CASE \E d \in Dest \cup {None} : Produce(d)
    BY <1>3, <1>4, ProducePrefix
  <1>5. CASE Trim \/ Recreate
    BY <1>1, <1>2, <1>5 DEF Trim, Recreate
  <1>6. ASSUME NEW r \in Proc, Assign(r) \/ TaskWork(r) \/ Leave(r) PROVE PrefixInv'
    BY <1>3, <1>6, AssignPrefix, HandlePrefix, CheckpointPrefix DEF TaskWork
  <1>7. ASSUME NEW r \in Proc, NEW d \in Dest, SendOutput(r, d) PROVE PrefixInv'
    BY <1>3, <1>7, SendPrefix
  <1>8. ASSUME NEW r \in Proc, HandoverFails(r) \/ Lost(r) \/ GapStop(r) \/ Crash(r) PROVE PrefixInv'
    BY <1>3, <1>8, LosingPrefix
  <1>9. CASE UNCHANGED vars
    BY <1>3, <1>9 DEF vars, PrefixInv, SnapAgrees, TasksAgree, BufferGenuine, OutGenuine,
                      Agrees, Genuine, Covers
  <1> QED
    BY <1>4, <1>5, <1>6, <1>7, <1>8, <1>9 DEF Next

LEMMA StateInvariance == Spec => [](IInv /\ StateInv)
  <1>1. Init => StateInv
    BY InitPrefix DEF StateInv
  <1>2. IInv /\ StateInv /\ [Next]_vars => StateInv'
    BY NextState DEF IInv
  <1> QED
    BY <1>1, <1>2, Invariance, PTL DEF Spec

LEMMA AgreesIsPrefix ==
    ASSUME NEW h \in Seq(Record), NEW n \in Nat, Agrees(h, n), input \in Seq(Record)
    PROVE  IsPrefix(h, n)
  <1>1. Len(h) \in Nat /\ Len(input) \in Nat /\ DOMAIN h = 1..Len(h)
    OBVIOUS
  <1>2. CASE n = 0
    <2>1. h = << >>
      BY <1>1, <1>2 DEF Agrees
    <2> QED
      BY <2>1 DEF IsPrefix
  <1>3. CASE n # 0
    <2>1. Len(h) = n - 1 /\ Len(h) <= Len(input) /\ \A i \in 1..Len(h) : h[i] = input[i]
      BY <1>3 DEF Agrees, Covers
    <2>2. n \in 1..(Len(input) + 1)
      BY <1>1, <2>1
    <2>3. h = SubSeq(input, 1, Len(h))
      BY <1>1, <2>1
    <2> QED
      BY <2>1, <2>2, <2>3 DEF IsPrefix
  <1> QED
    BY <1>2, <1>3

(* As long as no input was deleted, state and offset agree in every task   *)
(* and in the snapshot, whatever crashes, handovers and overlapping owners *)
(* happen (runner.go batch, checkpoint, assigned and adjust).              *)
THEOREM StateAgrees == Spec => [](Lossless => StateIsPrefix)
  <1>1. IInv /\ StateInv => (Lossless => StateIsPrefix)
    <2> SUFFICES ASSUME TypeOK, PrefixInv PROVE StateIsPrefix
      BY DEF IInv, StateInv
    <2>1. input \in Seq(Record) /\ snap.handled \in Seq(Record) /\ snap.next \in Nat
      BY DEF TypeOK, Snapshot
    <2>2. IsPrefix(snap.handled, snap.next)
      BY <2>1, AgreesIsPrefix DEF PrefixInv, SnapAgrees
    <2>3. ASSUME NEW r \in Proc PROVE IsPrefix(proc[r].handled, proc[r].next)
      <3>1. proc[r].handled \in Seq(Record) /\ proc[r].next \in Nat
        BY DEF TypeOK, ProcState
      <3> QED
        BY <2>1, <3>1, AgreesIsPrefix DEF PrefixInv, TasksAgree
    <2> QED
      BY <2>2, <2>3 DEF StateIsPrefix
  <1> QED
    BY <1>1, StateInvariance, PTL

(* Of two prefixes of the input that end in an output, the longer one has  *)
(* emitted more.                                                           *)
LEMMA LongerEmitsMore ==
    ASSUME NEW g \in Seq(Record), NEW h \in Seq(Record), Len(g) < Len(h),
           \A i \in 1..Len(g) : g[i] = h[i], h[Len(h)].dest # None
    PROVE  Cardinality(Emitted(g)) < Cardinality(Emitted(h))
  <1>1. Len(g) \in Nat /\ Len(h) \in Nat /\ DOMAIN g = 1..Len(g) /\ DOMAIN h = 1..Len(h)
    OBVIOUS
  <1>2. Emitted(g) \subseteq Emitted(h)
    BY <1>1 DEF Emitted
  <1>3. Len(h) \in Emitted(h) /\ Len(h) \notin Emitted(g)
    BY <1>1 DEF Emitted
  <1>4. IsFiniteSet(Emitted(h))
    BY EmittedFinite
  <1>5. /\ IsFiniteSet(Emitted(g))
        /\ Cardinality(Emitted(g)) <= Cardinality(Emitted(h))
        /\ Cardinality(Emitted(g)) = Cardinality(Emitted(h)) => Emitted(g) = Emitted(h)
    BY <1>2, <1>4, FS_Subset
  <1>6. Cardinality(Emitted(g)) \in Nat /\ Cardinality(Emitted(h)) \in Nat
    BY EmittedFinite
  <1> QED
    BY <1>3, <1>5, <1>6

(* Outputs with one sequence number come from one state, so they are the   *)
(* same output to the same partition.                                      *)
LEMMA NumberDetermines ==
    ASSUME input \in Seq(Record),
           NEW d \in Dest, NEW e \in Dest, NEW o, NEW p,
           Genuine(o, d), Genuine(p, e), o.seq = p.seq
    PROVE  o = p /\ d = e
  <1> PICK g, h : g = o.state /\ h = p.state
    OBVIOUS
  <1>1. /\ g \in Seq(Record) /\ h \in Seq(Record)
        /\ Len(g) \in Nat \ {0} /\ Len(h) \in Nat \ {0}
        /\ Covers(g) /\ Covers(h)
        /\ o = OutputOf(g) /\ p = OutputOf(h)
        /\ g[Len(g)].dest = d /\ h[Len(h)].dest = e
    BY DEF Genuine
  <1>2. Cardinality(Emitted(g)) = Cardinality(Emitted(h))
    BY <1>1 DEF OutputOf
  <1>3. d # None /\ e # None
    BY NoneAssumption
  <1>4. \A i \in 1..Len(g) : g[i] = input[i]
    BY <1>1 DEF Covers
  <1>5. \A i \in 1..Len(h) : h[i] = input[i]
    BY <1>1 DEF Covers
  <1>6. /\ g \in Seq(Record) /\ h \in Seq(Record)
        /\ Len(g) \in Nat /\ Len(h) \in Nat
        /\ g[Len(g)].dest # None /\ h[Len(h)].dest # None
    BY <1>1, <1>3
  <1>7. Cardinality(Emitted(g)) \in Nat
    BY <1>6, EmittedFinite
  <1>8. ~(Len(g) < Len(h))
    <2> SUFFICES ASSUME Len(g) < Len(h) PROVE FALSE
      OBVIOUS
    <2>1. \A i \in 1..Len(g) : i \in 1..Len(h)
      BY <1>6
    <2>2. \A i \in 1..Len(g) : g[i] = h[i]
      BY <1>4, <1>5, <2>1
    <2>3. Cardinality(Emitted(g)) < Cardinality(Emitted(h))
      BY <1>6, <2>2, LongerEmitsMore
    <2> QED
      BY <1>2, <1>7, <2>3
  <1>9. ~(Len(h) < Len(g))
    <2> SUFFICES ASSUME Len(h) < Len(g) PROVE FALSE
      OBVIOUS
    <2>1. \A i \in 1..Len(h) : i \in 1..Len(g)
      BY <1>6
    <2>2. \A i \in 1..Len(h) : h[i] = g[i]
      BY <1>4, <1>5, <2>1
    <2>3. Cardinality(Emitted(h)) < Cardinality(Emitted(g))
      BY <1>6, <2>2, LongerEmitsMore
    <2> QED
      BY <1>2, <1>7, <2>3
  <1>10. Len(g) = Len(h)
    BY <1>1, <1>8, <1>9
  <1>11. g = h
    BY <1>1, <1>4, <1>5, <1>10
  <1> QED
    BY <1>1, <1>11

(* As long as no input was deleted, outputs with one number are one output *)
(* to one partition, so that dropping a resend by its number loses nothing *)
(* (aggregate.go apply, join.go handle).                                   *)
THEOREM SameOutput == Spec => [](Lossless => ResendsIdentical)
  <1>1. IInv /\ StateInv => (Lossless => ResendsIdentical)
    <2> SUFFICES ASSUME TypeOK, PrefixInv, NEW d \in Dest, NEW e \in Dest,
                        NEW o \in Delivered(d), NEW p \in Delivered(e), o.seq = p.seq
                 PROVE  o = p /\ d = e
      BY DEF IInv, StateInv, ResendsIdentical
    <2>1. \A c \in Dest : \A x \in Delivered(c) : Genuine(x, c)
      BY DEF Delivered, PrefixInv, OutGenuine
    <2>2. input \in Seq(Record)
      BY DEF TypeOK
    <2>3. Genuine(o, d) /\ Genuine(p, e)
      BY <2>1
    <2> QED
      BY <2>2, <2>3, NumberDetermines
  <1> QED
    BY <1>1, StateInvariance, PTL

-----------------------------------------------------------------------------
(* The refinement: the readers see one process that never fails.           *)

LEMMA LeastNat ==
    ASSUME NEW T, T \subseteq Nat, T # {}
    PROVE  \E x \in T : \A y \in T : x <= y
  <1> DEFINE R == OpToRel(<, Nat)
  <1>1. IsWellFoundedOn(R, Nat)
    BY NatLessThanWellFounded
  <1> HIDE DEF R
  <1>2. PICK x \in T : \A y \in T : <<y, x>> \notin R
    BY <1>1, WFMin
  <1>3. \A y \in T : ~(y < x)
    BY <1>2 DEF OpToRel, R
  <1> QED
    BY <1>3

(* StatefulStage's copy of FiniteSets is the same. *)
LEMMA SameCardinality == \A S : Stage!Cardinality(S) = Cardinality(S)
  BY DEF Stage!Cardinality, Cardinality

(* What is sent is what the process that never fails emits after its i-th  *)
(* record.                                                                 *)
LEMMA GenuineIsOutputAt ==
    ASSUME input \in Seq(Record), NEW d \in Dest, NEW o, Genuine(o, d)
    PROVE  \E i \in DOMAIN input :
             /\ i = Len(o.state) /\ input[i].dest = d
             /\ o = Stage!OutputAt(i)
  <1> PICK h : h = o.state
    OBVIOUS
  <1>1. /\ h \in Seq(Record) /\ Len(h) \in Nat \ {0} /\ Len(input) \in Nat
        /\ DOMAIN h = 1..Len(h) /\ DOMAIN input = 1..Len(input)
        /\ Len(h) <= Len(input) /\ \A i \in 1..Len(h) : h[i] = input[i]
        /\ o = OutputOf(h) /\ h[Len(h)].dest = d
    BY DEF Genuine, Covers
  <1>2. h = SubSeq(input, 1, Len(h))
    BY <1>1
  <1>3. Emitted(h) = Stage!Emitted(Len(h))
    BY <1>1 DEF Emitted, Stage!Emitted
  <1>4. o = Stage!OutputAt(Len(h))
    BY <1>1, <1>2, <1>3, SameCardinality DEF OutputOf, Stage!OutputAt
  <1> QED
    BY <1>1, <1>4

(* An output for d of a longer prefix comes after those of a shorter one.  *)
LEMMA ShorterIsEarlier ==
    ASSUME input \in Seq(Record), NEW d \in Dest, NEW o, NEW p,
           Genuine(o, d), Genuine(p, d), Len(o.state) < Len(p.state)
    PROVE  o \in OutputsTo(p.state, d) /\ o.seq < p.seq
  <1> PICK g, h : g = o.state /\ h = p.state
    OBVIOUS
  <1>1. /\ g \in Seq(Record) /\ Len(g) \in Nat \ {0} /\ Covers(g)
        /\ o = OutputOf(g) /\ g[Len(g)].dest = d
        /\ h \in Seq(Record) /\ Len(h) \in Nat \ {0} /\ Covers(h)
        /\ p = OutputOf(h) /\ h[Len(h)].dest = d
        /\ Len(g) < Len(h) /\ DOMAIN h = 1..Len(h)
    BY DEF Genuine
  <1>2. \A i \in 1..Len(g) : i \in 1..Len(h) /\ g[i] = h[i]
    BY <1>1 DEF Covers
  <1>3. g = SubSeq(h, 1, Len(g))
    BY <1>1, <1>2
  <1>4. Len(g) \in DOMAIN h /\ h[Len(g)].dest = d
    BY <1>1, <1>2
  <1>5. o \in OutputsTo(h, d)
    BY <1>1, <1>3, <1>4 DEF OutputsTo
  <1>6. o.seq = Cardinality(Emitted(g)) /\ p.seq = Cardinality(Emitted(h))
    BY <1>1 DEF OutputOf
  <1>7. h[Len(h)].dest # None
    BY <1>1, NoneAssumption
  <1> QED
    BY <1>1, <1>2, <1>5, <1>6, <1>7, LongerEmitsMore

(* A log without holes is accepted in full, apart from what is resent.     *)
LEMMA AcceptedIsDelivered ==
    ASSUME input \in Seq(Record), NEW d \in Dest, NEW log \in Seq(Output),
           \A i \in DOMAIN log : Genuine(log[i], d),
           \A i \in DOMAIN log : OutputsTo(log[i].state, d) \subseteq {log[j] : j \in 1..i}
    PROVE  Accepted(log) = {log[i] : i \in DOMAIN log}
  <1>1. /\ input \in Seq(Record) /\ log \in Seq(Output) /\ Len(log) \in Nat
        /\ DOMAIN log = 1..Len(log)
    OBVIOUS
  <1>2. \A i \in DOMAIN log : Genuine(log[i], d)
    OBVIOUS
  <1>3. \A i \in DOMAIN log : OutputsTo(log[i].state, d) \subseteq {log[j] : j \in 1..i}
    OBVIOUS
  <1>4. ASSUME NEW x \in {log[i] : i \in DOMAIN log}
        PROVE  x \in Accepted(log)
    <2> DEFINE T == {i \in DOMAIN log : log[i] = x}
    <2>1. T \subseteq Nat /\ T # {}
      BY <1>1
    <2>2. PICK k \in T : \A i \in T : k <= i
      BY <2>1, LeastNat
    <2>3. k \in DOMAIN log /\ log[k] = x /\ \A i \in DOMAIN log : i < k => log[i] # x
      BY <1>1, <2>2
    <2>4. ASSUME NEW j \in 1..(k - 1)
          PROVE  log[j].seq < log[k].seq
      <3>1. j \in DOMAIN log /\ j < k /\ j \in Nat /\ k \in Nat
        BY <1>1, <2>3
      <3>2. Genuine(log[j], d) /\ Genuine(x, d)
        BY <1>2, <2>3, <3>1
      <3>3. Len(log[j].state) \in Nat /\ Len(x.state) \in Nat
        BY <3>2 DEF Genuine
      <3>4. Len(log[j].state) # Len(x.state)
        <4>1. PICK i1 : i1 = Len(log[j].state) /\ log[j] = Stage!OutputAt(i1)
          BY <1>1, <3>2, GenuineIsOutputAt
        <4>2. PICK i2 : i2 = Len(x.state) /\ x = Stage!OutputAt(i2)
          BY <1>1, <3>2, GenuineIsOutputAt
        <4> QED
          BY <2>3, <3>1, <4>1, <4>2
      <3>5. ~(Len(x.state) < Len(log[j].state))
        <4> SUFFICES ASSUME Len(x.state) < Len(log[j].state) PROVE FALSE
          OBVIOUS
        <4>1. x \in OutputsTo(log[j].state, d)
          BY <1>1, <3>2, ShorterIsEarlier
        <4>2. PICK i \in 1..j : log[i] = x
          BY <1>3, <3>1, <4>1
        <4>3. i \in DOMAIN log /\ i < k
          BY <1>1, <3>1
        <4> QED
          BY <2>3, <4>2, <4>3
      <3>6. Len(log[j].state) < Len(x.state)
        BY <3>3, <3>4, <3>5
      <3>7. log[j].seq < x.seq
        BY <1>1, <3>2, <3>6, ShorterIsEarlier
      <3> QED
        BY <2>3, <3>7
    <2> QED
      BY <2>3, <2>4 DEF Accepted
  <1> QED
    BY <1>4 DEF Accepted

(* The first output the reader of d has not seen is the next one for d.    *)
LEMMA NewIsNext ==
    ASSUME input \in Seq(Record), NEW d \in Dest, NEW o, Genuine(o, d),
           NEW S, o \notin S,
           \A x \in S : Genuine(x, d),
           \A x \in S \cup {o} : OutputsTo(x.state, d) \subseteq S \cup {o},
           \A x \in S : o \notin OutputsTo(x.state, d)
    PROVE  \E i \in DOMAIN input :
             /\ input[i].dest = d
             /\ o = Stage!OutputAt(i)
             /\ Cardinality(Stage!Bound(d, i)) = Cardinality(S) + 1
  <1>1. PICK i \in DOMAIN input :
          i = Len(o.state) /\ input[i].dest = d /\ o = Stage!OutputAt(i)
    BY GenuineIsOutputAt
  <1>2. Len(input) \in Nat /\ DOMAIN input = 1..Len(input) /\ i \in Nat /\ 1 <= i
    BY <1>1
  <1> DEFINE B == Stage!Bound(d, i)
             C == B \ {i}
             f == [j \in C |-> Stage!OutputAt(j)]
  <1>3. B = {j \in 1..i : input[j].dest = d}
    BY DEF Stage!Bound
  <1>4. i \in B
    BY <1>1, <1>2, <1>3
  <1>5. IsFiniteSet(B) /\ Cardinality(B) \in Nat
    <2>1. IsFiniteSet(1..i)
      BY <1>2, FS_Interval
    <2>2. IsFiniteSet(B)
      BY <1>3, <2>1, FS_Subset
    <2> QED
      BY <2>2, FS_CardinalityType
  <1>6. \A j \in C : /\ j \in Nat /\ 1 <= j /\ j < i /\ input[j].dest = d
                     /\ j \in DOMAIN input
    BY <1>2, <1>3
  <1>7. ASSUME NEW j \in C
        PROVE  Stage!OutputAt(j) \in S /\ Len(Stage!OutputAt(j).state) = j
    <2>1. o.state \in Seq(Record) /\ o.state = SubSeq(input, 1, i)
      BY <1>1 DEF Stage!OutputAt, Genuine
    <2>2. /\ SubSeq(o.state, 1, j) = SubSeq(input, 1, j)
          /\ o.state[j] = input[j] /\ j \in DOMAIN o.state
          /\ Len(SubSeq(input, 1, j)) = j
      BY <1>2, <1>6, <2>1
    <2> PICK h : h = SubSeq(input, 1, j)
      OBVIOUS
    <2>3. DOMAIN h = 1..j /\ \A k \in 1..j : h[k] = input[k]
      BY <1>2, <1>6
    <2>4. Emitted(h) = Stage!Emitted(j)
      BY <2>3 DEF Emitted, Stage!Emitted
    <2>5. OutputOf(h) = Stage!OutputAt(j)
      BY <2>4, SameCardinality DEF OutputOf, Stage!OutputAt
    <2>6. Stage!OutputAt(j) \in OutputsTo(o.state, d)
      BY <1>6, <2>2, <2>5 DEF OutputsTo
    <2>7. Len(Stage!OutputAt(j).state) = j
      BY <2>2 DEF Stage!OutputAt
    <2>8. Stage!OutputAt(j) # o
      BY <1>1, <1>6, <2>7
    <2> QED
      BY <2>6, <2>7, <2>8
  <1>8. ASSUME NEW x \in S
        PROVE  \E j \in C : x = Stage!OutputAt(j)
    <2>1. Genuine(x, d)
      OBVIOUS
    <2>2. PICK j \in DOMAIN input :
            j = Len(x.state) /\ input[j].dest = d /\ x = Stage!OutputAt(j)
      BY <2>1, GenuineIsOutputAt
    <2>3. j \in Nat /\ 1 <= j
      BY <1>2, <2>2
    <2>4. j # i
      BY <1>1, <2>2
    <2>5. ~(i < j)
      BY <1>1, <2>1, <2>2, ShorterIsEarlier
    <2>6. j \in C
      BY <1>2, <1>3, <2>2, <2>3, <2>4, <2>5
    <2> QED
      BY <2>2, <2>6
  <1> HIDE DEF B
  <1>9. f \in Bijection(C, S)
    <2> HIDE DEF C
    <2>1. f \in [C -> S]
      BY <1>7
    <2>2. f \in Injection(C, S)
      BY <1>7, <2>1 DEF Injection, IsInjective
    <2>3. f \in Surjection(C, S)
      BY <1>8, <2>1 DEF Surjection
    <2> QED
      BY <2>2, <2>3 DEF Bijection
  <1>10. IsFiniteSet(C) /\ Cardinality(C) = Cardinality(B) - 1
    BY <1>4, <1>5, FS_RemoveElement
  <1>11. Cardinality(S) = Cardinality(C)
    BY <1>9, <1>10, FS_Bijection DEF ExistsBijection
  <1>12. Cardinality(B) = Cardinality(S) + 1
    BY <1>5, <1>10, <1>11
  <1> QED
    BY <1>1, <1>12 DEF B

(* A send is a delivery, or a resend the reader drops.                     *)
LEMMA SendDelivers ==
    ASSUME TypeOK, PrefixInv, NoHole, TypeOK', PrefixInv', NoHole',
           NEW r \in Proc, NEW d \in Dest, SendOutput(r, d)
    PROVE  Stage!Deliver(d) \/ UNCHANGED Stage!vars
  <1> PICK o : o = Head(proc[r].buffer[d])
    OBVIOUS
  <1>1. /\ input \in Seq(Record) /\ input' = input
        /\ out \in [Dest -> Seq(Output)] /\ out' \in [Dest -> Seq(Output)]
        /\ out' = [out EXCEPT ![d] = Append(out[d], o)]
    BY DEF TypeOK, SendOutput
  <1>2. /\ out[d] \in Seq(Output) /\ Len(out[d]) \in Nat
        /\ DOMAIN out[d] = 1..Len(out[d])
        /\ DOMAIN out'[d] = 1..(Len(out[d]) + 1)
        /\ out'[d][Len(out[d]) + 1] = o
        /\ \A i \in 1..Len(out[d]) : out'[d][i] = out[d][i]
        /\ \A e \in Dest : e # d => out'[e] = out[e]
    <2>1. out[d] \in Seq(Output) /\ out'[d] \in Seq(Output) /\ out'[d] = Append(out[d], o)
      BY <1>1
    <2>2. /\ Len(out[d]) \in Nat /\ DOMAIN out[d] = 1..Len(out[d])
          /\ Len(out'[d]) = Len(out[d]) + 1
          /\ DOMAIN out'[d] = 1..(Len(out[d]) + 1)
      BY <2>1
    <2>3. /\ out'[d][Len(out[d]) + 1] = o
          /\ \A i \in 1..Len(out[d]) : out'[d][i] = out[d][i]
      BY <2>1, <2>2
    <2> QED
      BY <1>1, <2>1, <2>2, <2>3
  <1>3. Delivered(d)' = Delivered(d) \cup {o}
    <2>1. DOMAIN out'[d] = DOMAIN out[d] \cup {Len(out[d]) + 1}
      BY <1>2
    <2> QED
      BY <1>2, <2>1 DEF Delivered
  <1>4. \A e \in Dest : e # d => Delivered(e)' = Delivered(e)
    BY <1>2 DEF Delivered
  <1>5. ASSUME NEW e \in Dest
        PROVE  Accepted(out[e]) = Delivered(e)
    <2>1. out[e] \in Seq(Output) /\ \A i \in DOMAIN out[e] : Genuine(out[e][i], e)
      BY <1>1 DEF PrefixInv, OutGenuine
    <2>2. \A i \in DOMAIN out[e] :
            OutputsTo(out[e][i].state, e) \subseteq {out[e][j] : j \in 1..i}
      BY DEF NoHole
    <2> QED
      BY <1>1, <2>1, <2>2, AcceptedIsDelivered DEF Delivered
  <1>6. ASSUME NEW e \in Dest
        PROVE  Accepted(out'[e]) = Delivered(e)'
    <2> PICK log : log = out'[e]
      OBVIOUS
    <2>1. log \in Seq(Output)
      BY <1>1
    <2>2. \A i \in DOMAIN log : Genuine(log[i], e)
      <3>1. \A x \in Delivered(e)' : Genuine(x, e)'
        BY DEF Delivered, PrefixInv, OutGenuine
      <3>2. \A x \in Delivered(e)' : Genuine(x, e)
        BY <1>1, <3>1 DEF Genuine, Covers
      <3>3. \A i \in DOMAIN log : log[i] \in Delivered(e)'
        BY DEF Delivered
      <3> QED
        BY <3>2, <3>3
    <2>3. \A i \in DOMAIN log : OutputsTo(log[i].state, e) \subseteq {log[j] : j \in 1..i}
      <3>1. \A i \in DOMAIN out'[e] :
              OutputsTo(out'[e][i].state, e) \subseteq {out'[e][j] : j \in 1..i}
        BY DEF NoHole, OutputsTo, OutputOf, Emitted
      <3> QED
        BY <3>1
    <2>4. Accepted(log) = {log[i] : i \in DOMAIN log}
      BY <1>1, <2>1, <2>2, <2>3, AcceptedIsDelivered
    <2> QED
      BY <2>4 DEF Delivered
  <1> DEFINE seen == [e \in Dest |-> Accepted(out[e])]
  <1>7. seen' = [seen EXCEPT ![d] = @ \cup {o}]
    BY <1>3, <1>4, <1>5, <1>6
  <1>8. CASE o \in Delivered(d)
    <2>1. seen' = seen
      BY <1>3, <1>4, <1>5, <1>6, <1>8
    <2> QED
      BY <1>1, <2>1 DEF Stage!vars
  <1>9. CASE o \notin Delivered(d)
    <2>1. \A x \in Delivered(d)' : Genuine(x, d)
      <3>1. \A x \in Delivered(d)' : Genuine(x, d)'
        BY DEF Delivered, PrefixInv, OutGenuine
      <3> QED
        BY <1>1, <3>1 DEF Genuine, Covers
    <2>2. \A x \in Delivered(d)' : OutputsTo(x.state, d) \subseteq Delivered(d)'
      <3>1. \A i \in DOMAIN out'[d] :
              OutputsTo(out'[d][i].state, d) \subseteq {out'[d][j] : j \in 1..i}
        BY DEF NoHole, OutputsTo, OutputOf, Emitted
      <3>2. \A i \in DOMAIN out'[d] : 1..i \subseteq DOMAIN out'[d]
        BY <1>2
      <3> QED
        BY <3>1, <3>2 DEF Delivered
    <2>3. \A x \in Delivered(d) : OutputsTo(x.state, d) \subseteq Delivered(d)
      <3>1. \A i \in DOMAIN out[d] : 1..i \subseteq DOMAIN out[d]
        BY <1>2
      <3> QED
        BY <3>1 DEF NoHole, Delivered
    <2>4. PICK S : S = Delivered(d)
      OBVIOUS
    <2>5. \E i \in DOMAIN input :
             /\ input[i].dest = d
             /\ o = Stage!OutputAt(i)
             /\ Cardinality(Stage!Bound(d, i)) = Cardinality(S) + 1
      <3>1. /\ Genuine(o, d) /\ o \notin S
            /\ \A x \in S : Genuine(x, d)
            /\ \A x \in S \cup {o} : OutputsTo(x.state, d) \subseteq S \cup {o}
            /\ \A x \in S : o \notin OutputsTo(x.state, d)
        BY <1>3, <1>9, <2>1, <2>2, <2>3, <2>4
      <3>2. input \in Seq(Record)
        BY <1>1
      <3> HIDE <1>1
      <3> QED
        BY <3>1, <3>2, NewIsNext
    <2>6. seen[d] = S
      BY <1>5, <2>4
    <2>7. PICK i \in DOMAIN input :
            /\ input[i].dest = d
            /\ Stage!Cardinality(Stage!Bound(d, i)) = Stage!Cardinality(seen[d]) + 1
            /\ seen' = [seen EXCEPT ![d] = @ \cup {Stage!OutputAt(i)}]
      BY <1>7, <2>5, <2>6, SameCardinality
    <2> QED
      BY <1>1, <2>7 DEF Stage!Deliver
  <1> QED
    BY <1>8, <1>9

LEMMA StageInit == Init => Stage!Init
  <1> SUFFICES ASSUME Init PROVE Stage!Init
    OBVIOUS
  <1>1. \A d \in Dest : out[d] = << >>
    BY DEF Init, Empty
  <1>2. Accepted(<< >>) = {}
    BY DEF Accepted
  <1> QED
    BY <1>1, <1>2 DEF Init, Stage!Init

LEMMA StageStep ==
    ASSUME TypeOK, PrefixInv, NoHole, TypeOK', PrefixInv', NoHole', Lossless, Lossless',
           [Next]_vars
    PROVE  [Stage!Next]_(Stage!vars)
  <1>1. ASSUME NEW d \in Dest \cup {None}, Produce(d)
        PROVE  Stage!Produce(d)
    BY <1>1 DEF Produce, Stage!Produce, Lossless
  <1>2. ~Trim /\ ~Recreate
    BY DEF Trim, Recreate, Lossless
  <1>3. ASSUME UNCHANGED <<input, out>> PROVE UNCHANGED Stage!vars
    BY <1>3 DEF Stage!vars
  <1>4. ASSUME NEW r \in Proc,
               Assign(r) \/ TaskWork(r) \/ GapStop(r) \/ Leave(r) \/ HandoverFails(r)
                 \/ Lost(r) \/ Crash(r)
        PROVE  UNCHANGED <<input, out>>
    BY <1>4 DEF Assign, TaskWork, HandleRecord, Flushed, PutSnapshot, Commit, GapStop, Leave,
                HandoverFails, Lost, Crash
  <1>5. CASE UNCHANGED vars
    BY <1>3, <1>5 DEF vars
  <1>6. ASSUME NEW r \in Proc, NEW d \in Dest, SendOutput(r, d)
        PROVE  Stage!Deliver(d) \/ UNCHANGED Stage!vars
    BY <1>6, SendDelivers
  <1> QED
    BY <1>1, <1>2, <1>3, <1>4, <1>5, <1>6 DEF Next, Stage!Next

(* As long as no input was deleted, the readers downstream see what one    *)
(* process that never fails would have sent, each output once and in       *)
(* order, whatever crashes, handovers and overlapping owners happen        *)
(* (runner.go, and the marks of aggregate.go and join.go).                 *)
THEOREM SeesOneProcess == Spec /\ []Lossless => ReadersSeeOneProcess
  <1>1. /\ IInv /\ StateInv /\ Lossless
        /\ (IInv /\ StateInv /\ Lossless)'
        /\ [Next]_vars
        => [Stage!Next]_(Stage!vars)
    BY StageStep DEF IInv, StateInv
  <1>2. Spec => [](IInv /\ StateInv)
    BY StateInvariance
  <1>3. Init => Stage!Init
    BY StageInit
  <1> QED
    BY <1>1, <1>2, <1>3, PTL DEF Spec, ReadersSeeOneProcess, Stage!Spec
=============================================================================
