----------------------------- MODULE Checkpoint -----------------------------
(***************************************************************************)
(* One partition of a stage that keeps state, aggregate or join            *)
(* (internal/stream/runner.go, store.go): it is polled by whichever        *)
(* process the consumer group names, its state is saved with the offset    *)
(* of its next input record, and its outputs go to downstream partitions   *)
(* whose reader drops what it has seen, by sequence number.                *)
(*                                                                         *)
(* What a task computes is a function of the records it has handled, so    *)
(* its state is abstracted to their sequence.  A record makes the task     *)
(* emit one output, to the downstream partition dest, or nothing.  A poll  *)
(* that returns several records is several polls of one: the callbacks of  *)
(* the group run between polls and a checkpoint may follow any of them.    *)
(* Offsets count from 1, so the -1 of the code, "none yet", is 0 here.     *)
(***************************************************************************)
EXTENDS Integers, Sequences, FiniteSets

CONSTANTS Dest,           \* downstream partitions
          Proc,           \* processes of the stage
          None,           \* no process, no destination
          RecordBound,    \* input records
          DisruptionBound,\* crashes, revocations and takeovers from a live member
          TrimBound,      \* times retention deletes input
          RecreateBound   \* times the input topic is deleted and created again

ASSUME NoneAssumption == None \notin Dest /\ None \notin Proc
ASSUME BoundAssumption ==
    {RecordBound, DisruptionBound, TrimBound, RecreateBound} \subseteq Nat

VARIABLES input,       \* the input partition: an append-only log
          first,       \* the offset of its first record not deleted
          life,        \* how often the topic was created again
          out,         \* the downstream partitions: append-only logs
          snap,        \* the snapshot store's entry: state and next offset
          committed,   \* the group's committed offset
          owner,       \* the group's member for the partition
          proc,        \* the processes
          disruptions, \* so far
          trims        \* so far

vars == <<input, first, life, out, snap, committed, owner, proc, disruptions, trims>>

Record == [life : Nat, offset : Nat \ {0}, dest : Dest \cup {None}]

(* The output for the last record of h: its sequence number counts the     *)
(* outputs before it, its content depends on everything handled.           *)
Emitted(h) == {i \in DOMAIN h : h[i].dest # None}
OutputOf(h) == [seq |-> Cardinality(Emitted(h)), state |-> h]
Output == [seq : Nat, state : Seq(Record)]

(* A process.  on: it has a task for the partition; next, handled and      *)
(* dirty are the task's; buffer is the producing client's, and outlives    *)
(* the task; leaving: the checkpoint under way is the task's last.         *)
ProcState ==
    [on : BOOLEAN, next : Nat, handled : Seq(Record), dirty : BOOLEAN,
     phase : {"poll", "flush", "put", "commit"}, leaving : BOOLEAN,
     buffer : [Dest -> Seq(Output)]]

Snapshot == [next : Nat, handled : Seq(Record)]

NoSnapshot == [next |-> 0, handled |-> << >>]

Empty == [d \in Dest |-> << >>]

(* No task; what the client holds is still sent. *)
Idle(buffer) ==
    [on |-> FALSE, next |-> 0, handled |-> << >>, dirty |-> FALSE, phase |-> "poll",
     leaving |-> FALSE, buffer |-> buffer]

(* A process that has stopped: what it had not sent is lost. *)
Stopped == Idle(Empty)

Init ==
    /\ input = << >>
    /\ first = 1
    /\ life = 0
    /\ out = Empty
    /\ snap = NoSnapshot
    /\ committed = 0
    /\ owner = None
    /\ proc = [r \in Proc |-> Stopped]
    /\ disruptions = 0
    /\ trims = 0

(* r's state becomes p. *)
Becomes(r, p) == proc' = [proc EXCEPT ![r] = p]

-----------------------------------------------------------------------------
(* The input topic *)

Produce(d) ==
    /\ Len(input) < RecordBound
    /\ input' = Append(input, [life |-> life, offset |-> Len(input) + 1, dest |-> d])
    /\ UNCHANGED <<first, life, out, snap, committed, owner, proc, disruptions, trims>>

(* Retention deletes records that the snapshot covers. *)
Trim ==
    /\ trims < TrimBound
    /\ first < snap.next
    /\ first' \in (first + 1)..snap.next
    /\ first' <= Len(input) + 1
    /\ trims' = trims + 1
    /\ UNCHANGED <<input, life, out, snap, committed, owner, proc, disruptions>>

(* The topic is deleted and created again while no task runs; the group's  *)
(* offset goes with it, the snapshots stay.                                *)
Recreate ==
    /\ life < RecreateBound
    /\ \A r \in Proc : ~proc[r].on
    /\ life' = life + 1
    /\ input' = << >>
    /\ first' = 1
    /\ committed' = 0
    /\ UNCHANGED <<out, snap, owner, proc, disruptions, trims>>

-----------------------------------------------------------------------------
(* The group and the processes *)

Disrupt ==
    /\ disruptions < DisruptionBound
    /\ disruptions' = disruptions + 1

Unattended == \A r \in Proc : owner = r => ~proc[r].on

(* A plausible slip: the task resumes where the group left off. *)
AssignAtCommitted(r) ==
    /\ ~proc[r].on
    /\ \/ Unattended /\ UNCHANGED disruptions
       \/ ~Unattended /\ Disrupt
    /\ owner' = r
    /\ Becomes(r, [proc[r] EXCEPT !.on = TRUE, !.next = committed, !.handled = snap.handled])
    /\ UNCHANGED <<input, first, life, out, snap, committed, trims>>

(* The group gives the partition to r, which restores the snapshot and     *)
(* fetches from the snapshot's offset, whatever the group has committed.   *)
(* A live member that is not told goes on as before.                       *)
Assign(r) ==
    /\ ~proc[r].on
    /\ \/ Unattended /\ UNCHANGED disruptions
       \/ ~Unattended /\ Disrupt
    /\ owner' = r
    /\ Becomes(r, [proc[r] EXCEPT !.on = TRUE, !.next = snap.next, !.handled = snap.handled])
    /\ UNCHANGED <<input, first, life, out, snap, committed, trims>>

Polling(r) == proc[r].on /\ proc[r].phase = "poll"

(* The offset of the record the task handles next.  A fetch out of range   *)
(* is reset to the start of the log, and records before next are skipped.  *)
Upcoming(r) == IF proc[r].next = 0 THEN first ELSE proc[r].next

(* The buffer with the output of a task that has handled h, whose last     *)
(* record names the destination d.                                          *)
WithOutput(buffer, h, d) ==
    IF d = None THEN buffer ELSE [buffer EXCEPT ![d] = Append(buffer[d], OutputOf(h))]

AfterRecord(r, phase) ==
    LET h == Append(proc[r].handled, input[Upcoming(r)])
        d == input[Upcoming(r)].dest
    IN  [proc[r] EXCEPT !.next = Upcoming(r) + 1, !.handled = h, !.dirty = TRUE,
                        !.phase = phase, !.buffer = WithOutput(proc[r].buffer, h, d)]

(* One record is handled; its output is handed to the client.  If the      *)
(* checkpoint interval has passed, a checkpoint follows.                   *)
HandleRecord(r) ==
    /\ Polling(r)
    /\ Upcoming(r) \in first..Len(input)
    /\ \E phase \in {"poll", "flush"} : Becomes(r, AfterRecord(r, phase))
    /\ UNCHANGED <<input, first, life, out, snap, committed, owner, disruptions, trims>>

(* The next record is not there, later ones are: the process stops. *)
GapStop(r) ==
    /\ Polling(r)
    /\ proc[r].next # 0
    /\ proc[r].next < first
    /\ first <= Len(input)
    /\ Becomes(r, Stopped)
    /\ UNCHANGED <<input, first, life, out, snap, committed, owner, disruptions, trims>>

(* The client sends what it was handed, in order per partition. *)
SendOutput(r, d) ==
    /\ proc[r].buffer[d] # << >>
    /\ out' = [out EXCEPT ![d] = Append(out[d], Head(proc[r].buffer[d]))]
    /\ Becomes(r, [proc[r] EXCEPT !.buffer = [proc[r].buffer EXCEPT ![d] = Tail(proc[r].buffer[d])]])
    /\ UNCHANGED <<input, first, life, snap, committed, owner, disruptions, trims>>

(* A plausible slip: the snapshot does not wait for the outputs. *)
FlushedEarly(r) ==
    /\ proc[r].phase = "flush"
    /\ Becomes(r, IF proc[r].next = 0 THEN Idle(proc[r].buffer)
                  ELSE [proc[r] EXCEPT !.phase = "put"])
    /\ owner' = IF proc[r].next = 0 /\ owner = r THEN None ELSE owner
    /\ UNCHANGED <<input, first, life, out, snap, committed, disruptions, trims>>

(* Checkpoint, step 1: everything produced is acknowledged.  A task that   *)
(* has handled nothing has nothing to save.                                *)
Flushed(r) ==
    /\ proc[r].phase = "flush"
    /\ proc[r].buffer = Empty
    /\ Becomes(r, IF proc[r].next = 0 THEN Idle(proc[r].buffer)
                  ELSE [proc[r] EXCEPT !.phase = "put"])
    /\ owner' = IF proc[r].next = 0 /\ owner = r THEN None ELSE owner
    /\ UNCHANGED <<input, first, life, out, snap, committed, disruptions, trims>>

(* Step 2: the snapshot is replaced, whoever wrote the last one. *)
PutSnapshot(r) ==
    /\ proc[r].phase = "put"
    /\ snap' = [next |-> proc[r].next, handled |-> proc[r].handled]
    /\ Becomes(r, [proc[r] EXCEPT !.dirty = FALSE, !.phase = "commit"])
    /\ UNCHANGED <<input, first, life, out, committed, owner, disruptions, trims>>

(* Step 3: the offset is committed.  The group refuses a member it has     *)
(* replaced, which stops the process, unless it was leaving anyway.        *)
Commit(r) ==
    LET me == proc[r] IN
    /\ me.phase = "commit"
    /\ committed' = IF owner = r THEN me.next ELSE committed
    /\ owner' = IF owner = r /\ me.leaving THEN None ELSE owner
    /\ Becomes(r, IF me.leaving THEN Idle(me.buffer)
                  ELSE IF owner = r THEN [me EXCEPT !.phase = "poll"] ELSE Stopped)
    /\ UNCHANGED <<input, first, life, out, snap, disruptions, trims>>

(* The group takes the partition back, or the process shuts down: a last   *)
(* checkpoint, of a task that has handled nothing new as well.             *)
Leave(r) ==
    /\ Polling(r)
    /\ owner = r
    /\ Disrupt
    /\ Becomes(r, [proc[r] EXCEPT !.phase = "flush", !.leaving = TRUE])
    /\ UNCHANGED <<input, first, life, out, snap, committed, owner, trims>>

(* The last checkpoint fails before its snapshot: the partition is let go. *)
HandoverFails(r) ==
    /\ proc[r].phase \in {"flush", "put"}
    /\ proc[r].leaving
    /\ Becomes(r, Idle(proc[r].buffer))
    /\ owner' = IF owner = r THEN None ELSE owner
    /\ UNCHANGED <<input, first, life, out, snap, committed, disruptions, trims>>

(* A replaced member learns that it was replaced and drops its task. *)
Lost(r) ==
    /\ Polling(r)
    /\ owner # r
    /\ Becomes(r, Idle(proc[r].buffer))
    /\ UNCHANGED <<input, first, life, out, snap, committed, owner, disruptions, trims>>

(* A crash, or an error that stops the process before a checkpoint ends. *)
Crash(r) ==
    /\ proc[r] # Stopped
    /\ Disrupt
    /\ Becomes(r, Stopped)
    /\ UNCHANGED <<input, first, life, out, snap, committed, owner, trims>>

-----------------------------------------------------------------------------
TaskWork(r) == HandleRecord(r) \/ Flushed(r) \/ PutSnapshot(r) \/ Commit(r)

Next ==
    \/ \E d \in Dest \cup {None} : Produce(d)
    \/ Trim
    \/ Recreate
    \/ \E r \in Proc :
          \/ Assign(r)
          \/ TaskWork(r)
          \/ \E d \in Dest : SendOutput(r, d)
          \/ GapStop(r)
          \/ Leave(r)
          \/ HandoverFails(r)
          \/ Lost(r)
          \/ Crash(r)

Spec == Init /\ [][Next]_vars

(* Tasks poll and checkpoint, clients send, and the group finds a member   *)
(* for a partition nobody attends.  No producer, crash or revocation is    *)
(* fair.                                                                   *)
Fairness ==
    /\ \A r \in Proc : WF_vars(TaskWork(r)) /\ WF_vars(Lost(r))
    /\ \A r \in Proc, d \in Dest : WF_vars(SendOutput(r, d))
    /\ WF_vars(Unattended /\ \E r \in Proc : Assign(r))

FairSpec == Spec /\ Fairness

-----------------------------------------------------------------------------
(* Every variable has its type. *)
TypeOK ==
    /\ input \in Seq(Record)
    /\ first \in 1..(Len(input) + 1)
    /\ life \in Nat
    /\ out \in [Dest -> Seq(Output)]
    /\ snap \in Snapshot
    /\ committed \in Nat
    /\ owner \in Proc \cup {None}
    /\ proc \in [Proc -> ProcState]
    /\ disruptions \in Nat
    /\ trims \in Nat

(* h is the input up to but not including offset next. *)
IsPrefix(h, next) ==
    h = << >> \/ (next \in 1..(Len(input) + 1) /\ h = SubSeq(input, 1, next - 1))

(* State and offset agree, in every task and in the snapshot: no record    *)
(* handled twice, none skipped, across crashes, handovers and overlapping  *)
(* owners.  runner.go: state rebuilt over a gap "would be wrong".          *)
StateIsPrefix ==
    /\ \A r \in Proc : proc[r].on => IsPrefix(proc[r].handled, proc[r].next)
    /\ IsPrefix(snap.handled, snap.next)

(* The outputs to d of a task that has handled h. *)
OutputsTo(h, d) == {OutputOf(SubSeq(h, 1, i)) : i \in {j \in DOMAIN h : h[j].dest = d}}
Delivered(d) == {out[d][i] : i \in DOMAIN out[d]}

(* What the snapshot remembers having done is done: every output of the    *)
(* input it covers is in the downstream logs, so a crash loses none.       *)
SnapshotCovered == \A d \in Dest : OutputsTo(snap.handled, d) \subseteq Delivered(d)

(* A resent output is the same output, which is what lets the reader drop  *)
(* it by its sequence number.                                              *)
ResendsIdentical ==
    \A d, e \in Dest : \A o \in Delivered(d), p \in Delivered(e) :
        o.seq = p.seq => o = p /\ d = e

(* No hole under the reader's high-water mark: before any output in a      *)
(* downstream partition come all earlier outputs to that partition.        *)
NoHole ==
    \A d \in Dest : \A i \in DOMAIN out[d] :
        OutputsTo(out[d][i].state, d) \subseteq {out[d][j] : j \in 1..i}

(* No input was deleted. *)
Lossless == trims = 0 /\ life = 0

(* Every input record is eventually handled, and its output delivered,     *)
(* unless retention or a recreation takes it away first.                   *)
EventuallyDelivered ==
    \A d \in Dest, o \in 1..RecordBound :
        (o \in DOMAIN input /\ input[o].dest = d /\ Lossless)
            ~> (~Lossless \/ \E x \in Delivered(d) : Len(x.state) = o)

-----------------------------------------------------------------------------
(* What a reader with one high-water mark per upstream accepts of a log    *)
(* (join.go: an entity part whose Seq is not above the last is dropped).   *)
Accepted(log) ==
    {log[i] : i \in {k \in DOMAIN log : \A j \in 1..(k - 1) : log[j].seq < log[k].seq}}

Stage == INSTANCE StatefulStage WITH delivered <- [d \in Dest |-> Accepted(out[d])]

(* Crashes, handovers, overlapping owners, resends and stale snapshots are *)
(* invisible to the downstream readers.                                    *)
ReadersSeeOneProcess == Stage!Spec
=============================================================================
