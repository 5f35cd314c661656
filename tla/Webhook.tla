------------------------------ MODULE Webhook ------------------------------
(***************************************************************************)
(* From a webhook delivery to a durable label: the handler, the deduper    *)
(* that turns at-least-once delivery into effectively-once processing      *)
(* (internal/webhook: handler.go, dedupe.go), the label store with its     *)
(* write-ahead log (internal/service/labels.go), the snapshot that copies  *)
(* the deduper and then the labels, Close, crashes and New's replay.       *)
(*                                                                         *)
(* Only deliveries whose signature verifies and whose body parses reach    *)
(* the deduper, so an event is a record of EventInfo.  The sender retries, *)
(* duplicates and reorders: any event may be delivered at any time, also   *)
(* after it was acknowledged.                                              *)
(***************************************************************************)
EXTENDS Integers, Sequences, FiniteSets, SequencesExt

CONSTANTS Events,      \* event ids
          EventInfo,   \* [Events -> [type, created, payment, dispute, status]]
          Deliveries,  \* the deliveries handled at once
          DedupeTTL, MaxEntries,
          Nil,
          MaxTime, MaxDeliveries, MaxHookSnapshots, MaxHookStops, MaxHookFailures, MaxShorts

(* The sender's part: event times are whole seconds, a dispute is not      *)
(* opened after it was closed, and events that close one dispute in the    *)
(* same second agree on its status.                                        *)
ASSUME HookAssumption ==
  /\ Nil \notin Deliveries /\ MaxEntries \in Nat \ {0}
  /\ \A e \in Events : /\ EventInfo[e].type \in {"succeeded", "created", "closed", "other"}
                       /\ EventInfo[e].created \in Nat
  /\ \A e, f \in Events :
       LET i == EventInfo[e]
           j == EventInfo[f]
       IN  i.type = "closed" /\ j.type \in {"created", "closed"}
             /\ i.payment = j.payment /\ i.dispute = j.dispute =>
           /\ j.type = "created" => j.created <= i.created
           /\ j.type = "closed" /\ j.created = i.created => j.status = i.status

VARIABLES
  hasLog,     \* whether a label log is configured (never changes)
  now,
  hookProc,   \* "down", "replay", "up" or "closing": the label store is closed
  pos,        \* the lines of the log a restart has replayed
  seen,       \* the deduper's entries, oldest first
  dl,         \* each delivery's progress
  labelLock,  \* the delivery that holds LabelStore.mu, or Nil
  seq, labels,   \* the label store's memory
  file, frag,    \* the label log: its lines, and whether a fragment follows
  copied,     \* the deduper's records a snapshot in progress has taken, or Nil
  labelSnap,  \* the snapshot file
  acked,      \* events answered 200
  sent, hookSnaps, hookStops, hookFailures, shorts   \* bounded by the constants

store == <<seq, labels>>
hookBounds == <<sent, hookSnaps, hookStops, hookFailures, shorts>>
hookVars == <<hasLog, now, hookProc, pos, seen, dl, labelLock, store, file, frag, copied,
              labelSnap, acked, hookBounds>>

NotHandling == [at |-> "idle", event |-> Nil]
Corrupt == [seq |-> 0, event |-> Nil]   \* a line that is not a record

(***************************************************************************)
(* The deduper.                                                            *)
(***************************************************************************)
Remembered(s, id) == \E i \in DOMAIN s : s[i].id = id
At(s, id) == CHOOSE i \in DOMAIN s : s[i].id = id
Without(s, id) == RemoveAt(s, At(s, id))

(* The entries of s at the indices in D, in their order.                   *)
Kept(s, D) ==
  [k \in 1..Cardinality(D) |-> s[CHOOSE i \in D : Cardinality({j \in D : j <= i}) = k]]

Live(s) == {i \in DOMAIN s : now - s[i].seen < DedupeTTL}

(* expire stops at the first live entry.                                   *)
Expire(s) ==
  IF Live(s) = {} THEN <<>>
  ELSE SubSeq(s, CHOOSE i \in Live(s) : \A j \in Live(s) : i <= j, Len(s))

(* insert: the newest entry; the oldest are evicted past MaxEntries.       *)
Newest(s) == SubSeq(s, 1 + (IF Len(s) > MaxEntries THEN Len(s) - MaxEntries ELSE 0), Len(s))
InsertEntry(s, x) == Newest(Append(s, x))

(* Commit finds the claim, or finds it evicted and records the id anyway.  *)
CommitEntry(s, id) ==
  LET x == [id |-> id, seen |-> now, done |-> TRUE]
  IN  IF Remembered(s, id) THEN Append(Without(s, id), x) ELSE InsertEntry(s, x)

ReleaseEntry(s, id) ==
  IF Remembered(s, id) /\ ~s[At(s, id)].done THEN Without(s, id) ELSE s

(* Restore on an empty deduper: the entries were written oldest first.     *)
RestoreEntries(records) == Newest(Kept(records, Live(records)))

(***************************************************************************)
(* The label store: the payments that succeeded, and the latest known      *)
(* state of each dispute on a payment.                                     *)
(***************************************************************************)
NoLabels == [succeeded |-> {}, disputes |-> [k \in {} |-> Nil]]
Key(i) == <<i.payment, i.dispute>>

(* A dispute event is applied unless it is older than what is stored, or   *)
(* opens, in the same second, a dispute that is closed.                    *)
StaleNever(disputes, i) == FALSE
Stale(disputes, i) ==
  /\ Key(i) \in DOMAIN disputes
  /\ LET d == disputes[Key(i)]
     IN  \/ i.created < d.updated
         \/ d.closed /\ i.type # "closed" /\ i.created = d.updated

Upsert(disputes, i) ==
  [k \in DOMAIN disputes \cup {Key(i)} |->
     IF k # Key(i) THEN disputes[k]
     ELSE [status |-> i.status, updated |-> i.created,
           closed |-> \/ i.type = "closed"
                      \/ k \in DOMAIN disputes /\ disputes[k].closed]]

Apply(ls, i) ==
  IF i.type = "succeeded"
  THEN [succeeded |-> ls.succeeded \cup {i.payment}, disputes |-> ls.disputes]
  ELSE IF Stale(ls.disputes, i) THEN ls
  ELSE [succeeded |-> ls.succeeded, disputes |-> Upsert(ls.disputes, i)]

Serving == hookProc \in {"up", "closing"}

(***************************************************************************)
(* The handler: Begin, Record (append, fsync, apply), Commit.              *)
(***************************************************************************)
Deliver(d, e) ==
  /\ Serving /\ dl[d] = NotHandling /\ sent < MaxDeliveries
  /\ sent' = sent + 1
  /\ LET s == Expire(seen)
     IN  \/ /\ Remembered(s, e) /\ s[At(s, e)].done       \* 200 duplicate
            /\ acked' = acked \cup {e}
            /\ seen' = s
            /\ UNCHANGED dl
         \/ /\ Remembered(s, e) /\ ~s[At(s, e)].done      \* 409 in flight
            /\ seen' = s
            /\ UNCHANGED <<acked, dl>>
         \/ /\ ~Remembered(s, e)
            /\ seen' = InsertEntry(s, [id |-> e, seen |-> now, done |-> FALSE])
            /\ dl' = [dl EXCEPT ![d] = [at |-> "begun", event |-> e]]
            /\ UNCHANGED acked
  /\ UNCHANGED <<hasLog, now, hookProc, pos, labelLock, store, file, frag, copied,
                 labelSnap, hookSnaps, hookStops, hookFailures, shorts>>

Goes(d, at) == dl' = [dl EXCEPT ![d] = [at |-> at, event |-> dl[d].event]]

(* The callback failed: the claim is released and the answer is 500 or 503. *)
Fail(d) ==
  /\ seen' = ReleaseEntry(seen, dl[d].event)
  /\ dl' = [dl EXCEPT ![d] = NotHandling]

(* An event of a type RiskGate does not use needs no label.                *)
Labelled(e) == EventInfo[e].type # "other"

RecordIgnored(d) ==
  /\ dl[d].at = "begun" /\ ~Labelled(dl[d].event)
  /\ Goes(d, "commit")
  /\ UNCHANGED <<hasLog, now, hookProc, pos, seen, labelLock, store, file, frag, copied,
                 labelSnap, acked, hookBounds>>

RecordClosed(d) ==
  /\ dl[d].at = "begun" /\ Labelled(dl[d].event)
  /\ labelLock = Nil /\ hookProc = "closing"
  /\ Fail(d)
  /\ UNCHANGED <<hasLog, now, hookProc, pos, labelLock, store, file, frag, copied,
                 labelSnap, acked, hookBounds>>

(* Record takes the lock and the next sequence number.  The number is      *)
(* spent whatever happens.                                                 *)
Recording(d) ==
  /\ dl[d].at = "begun" /\ Labelled(dl[d].event)
  /\ labelLock = Nil /\ hookProc = "up"
  /\ seq' = seq + 1

RecordInMemory(d) ==
  /\ Recording(d) /\ ~hasLog
  /\ labels' = Apply(labels, EventInfo[dl[d].event])
  /\ Goes(d, "commit")
  /\ UNCHANGED <<hasLog, now, hookProc, pos, seen, labelLock, file, frag, copied,
                 labelSnap, acked, hookBounds>>

(* What is written after a fragment completes the fragment's line.         *)
LineOf(r) == IF frag THEN Corrupt ELSE r

RecordAppend(d) ==
  /\ Recording(d) /\ hasLog
  /\ file' = Append(file, LineOf([seq |-> seq + 1, event |-> dl[d].event]))
  /\ frag' = FALSE
  /\ labelLock' = d
  /\ Goes(d, "sync")
  /\ UNCHANGED <<hasLog, now, hookProc, pos, seen, labels, copied, labelSnap, acked,
                 hookBounds>>

(* Write returns an error, a fragment written or not.                      *)
RecordWriteFails(d) ==
  /\ Recording(d) /\ hasLog
  /\ Fail(d)
  /\ \/ /\ hookFailures < MaxHookFailures /\ hookFailures' = hookFailures + 1
        /\ UNCHANGED <<frag, shorts>>
     \/ /\ shorts < MaxShorts /\ shorts' = shorts + 1
        /\ frag' = TRUE
        /\ UNCHANGED hookFailures
  /\ UNCHANGED <<hasLog, now, hookProc, pos, labelLock, labels, file, copied, labelSnap,
                 acked, sent, hookSnaps, hookStops>>

RecordSync(d) ==
  /\ dl[d].at = "sync"
  /\ labelLock' = Nil
  /\ labels' = Apply(labels, EventInfo[dl[d].event])
  /\ Goes(d, "commit")
  /\ UNCHANGED <<hasLog, now, hookProc, pos, seen, seq, file, frag, copied, labelSnap,
                 acked, hookBounds>>

(* The line stays in the file, its event without a label.                  *)
RecordSyncFails(d) ==
  /\ dl[d].at = "sync" /\ hookFailures < MaxHookFailures
  /\ hookFailures' = hookFailures + 1
  /\ labelLock' = Nil
  /\ Fail(d)
  /\ UNCHANGED <<hasLog, now, hookProc, pos, store, file, frag, copied, labelSnap, acked,
                 sent, hookSnaps, hookStops, shorts>>

Commit(d) ==
  /\ dl[d].at = "commit"
  /\ seen' = CommitEntry(seen, dl[d].event)
  /\ acked' = acked \cup {dl[d].event}
  /\ dl' = [dl EXCEPT ![d] = NotHandling]
  /\ UNCHANGED <<hasLog, now, hookProc, pos, labelLock, store, file, frag, copied,
                 labelSnap, hookBounds>>

(***************************************************************************)
(* writeSnapshot copies the deduper, then the labels.                      *)
(***************************************************************************)
ProcessedOrClaimed(s) == [i \in DOMAIN s |-> [s[i] EXCEPT !.done = TRUE]]
Processed(s) == Kept(s, {i \in DOMAIN s : s[i].done})

SnapshotDedupe ==
  /\ Serving /\ copied = Nil /\ hookSnaps < MaxHookSnapshots
  /\ seen' = Expire(seen)
  /\ copied' = Processed(Expire(seen))
  /\ hookSnaps' = hookSnaps + 1
  /\ UNCHANGED <<hasLog, now, hookProc, pos, dl, labelLock, store, file, frag, labelSnap,
                 acked, sent, hookStops, hookFailures, shorts>>

SnapshotLabels ==
  /\ copied # Nil /\ labelLock = Nil
  /\ labelSnap' = [seen |-> copied, seq |-> seq, labels |-> labels]
  /\ copied' = Nil
  /\ UNCHANGED <<hasLog, now, hookProc, pos, seen, dl, labelLock, store, file, frag, acked,
                 hookBounds>>

(***************************************************************************)
(* Close, the end of the process, and New.                                 *)
(***************************************************************************)
CloseLabels ==
  /\ hookProc = "up" /\ labelLock = Nil /\ copied = Nil
  /\ hookProc' = "closing"
  /\ UNCHANGED <<hasLog, now, pos, seen, dl, labelLock, store, file, frag, copied,
                 labelSnap, acked, hookBounds>>

(* Everything in memory is gone.                                           *)
Memory(entries, number, ls) ==
  /\ seen' = entries /\ seq' = number /\ labels' = ls /\ pos' = 0

(* A line not yet fsynced survives in full, in part or not at all.         *)
Stop ==
  /\ hookProc # "down" /\ hookStops < MaxHookStops
  /\ hookStops' = hookStops + 1
  /\ hookProc' = "down"
  /\ Memory(<<>>, 0, NoLabels)
  /\ dl' = [d \in Deliveries |-> NotHandling] /\ labelLock' = Nil /\ copied' = Nil
  /\ \/ UNCHANGED <<file, frag>>
     \/ /\ labelLock # Nil
        /\ file' = Front(file)
        /\ frag' \in BOOLEAN
  /\ UNCHANGED <<hasLog, now, labelSnap, acked, sent, hookSnaps, hookFailures, shorts>>

(* New restores the snapshot, then replays the log.                        *)
NewLabels ==
  /\ hookProc = "down"
  /\ hookProc' = "replay"
  /\ Memory(RestoreEntries(labelSnap.seen), labelSnap.seq, labelSnap.labels)
  /\ UNCHANGED <<hasLog, now, dl, labelLock, file, frag, copied, labelSnap, acked,
                 hookBounds>>

(* A record is applied unless the snapshot has it.                         *)
ReplayLine ==
  /\ hookProc = "replay" /\ pos < Len(file)
  /\ LET r == file[pos + 1]
     IN  /\ r # Corrupt
         /\ IF r.seq <= seq THEN UNCHANGED store
            ELSE seq' = r.seq /\ labels' = Apply(labels, EventInfo[r.event])
  /\ pos' = pos + 1
  /\ UNCHANGED <<hasLog, now, hookProc, seen, dl, labelLock, file, frag, copied,
                 labelSnap, acked, hookBounds>>

(* A line that is not a record: New returns the error.                     *)
ReplayFails ==
  /\ hookProc = "replay" /\ pos < Len(file) /\ file[pos + 1] = Corrupt
  /\ hookProc' = "down"
  /\ Memory(<<>>, 0, NoLabels)
  /\ UNCHANGED <<hasLog, now, dl, labelLock, file, frag, copied, labelSnap, acked,
                 hookBounds>>

(* A torn end is cut off.                                                  *)
ReplayEnd ==
  /\ hookProc = "replay" /\ pos = Len(file)
  /\ hookProc' = "up"
  /\ frag' = FALSE
  /\ UNCHANGED <<hasLog, now, pos, seen, dl, labelLock, store, file, copied, labelSnap,
                 acked, hookBounds>>

Tick ==
  /\ now < MaxTime
  /\ now' = now + 1
  /\ UNCHANGED <<hasLog, hookProc, pos, seen, dl, labelLock, store, file, frag, copied,
                 labelSnap, acked, hookBounds>>

HookInit ==
  /\ hasLog \in BOOLEAN
  /\ now = 0 /\ hookProc = "up" /\ pos = 0 /\ seen = <<>>
  /\ dl = [d \in Deliveries |-> NotHandling] /\ labelLock = Nil
  /\ seq = 0 /\ labels = NoLabels /\ file = <<>> /\ frag = FALSE /\ copied = Nil
  /\ labelSnap = [seen |-> <<>>, seq |-> 0, labels |-> NoLabels]
  /\ acked = {} /\ sent = 0 /\ hookSnaps = 0 /\ hookStops = 0 /\ hookFailures = 0 /\ shorts = 0

Recorded(d) ==
  \/ RecordIgnored(d) \/ RecordClosed(d) \/ RecordInMemory(d) \/ RecordAppend(d)
  \/ RecordWriteFails(d) \/ RecordSync(d) \/ RecordSyncFails(d)

HookNext ==
  \/ \E d \in Deliveries : (\E e \in Events : Deliver(d, e)) \/ Recorded(d) \/ Commit(d)
  \/ SnapshotDedupe \/ SnapshotLabels \/ CloseLabels
  \/ Stop \/ NewLabels \/ ReplayLine \/ ReplayFails \/ ReplayEnd
  \/ Tick

HookSpec == HookInit /\ [][HookNext]_hookVars

-----------------------------------------------------------------------------
(***************************************************************************)
(* Properties.                                                             *)
(***************************************************************************)
(* The labels reflect event e: a payment that succeeded, a dispute at      *)
(* least as recent as the event, and, once an event closed it, closed,     *)
(* with that event's status unless a later one followed.                   *)
Reflects(ls, e) ==
  LET i == EventInfo[e]
      d == ls.disputes[Key(i)]
  IN  /\ i.type = "succeeded" => i.payment \in ls.succeeded
      /\ i.type \in {"created", "closed"} =>
           Key(i) \in DOMAIN ls.disputes /\ d.updated >= i.created
      /\ i.type = "closed" => d.closed /\ (d.updated = i.created => d.status = i.status)

(* Clearinghouse stops retrying at the first 2xx: a label that was         *)
(* acknowledged is in the store whenever the service serves, also after a  *)
(* restart at any moment, and the log can be replayed, whatever was        *)
(* redelivered, reordered, evicted from the deduper, refused, or lost in a *)
(* crash, as long as no write of the log stopped half way.                 *)
Replayable == \A i \in DOMAIN file : file[i] # Corrupt
Survives(e) == Replayable /\ (Serving => Reflects(labels, e))

AckedSurvive == hasLog /\ shorts = 0 => \A e \in acked : Survives(e)

(* The same without the proviso: labels.go:23 and :30 say an acknowledged  *)
(* label is in the log and startup replays it.                             *)
AckedSurviveShortWrite == hasLog => \A e \in acked : Survives(e)

(* An event is never remembered as processed without its label, also not   *)
(* after a restart without a label log: a redelivery that could still      *)
(* bring the label would be acknowledged and lost.                         *)
SeenHasLabel ==
  Serving => \A i \in DOMAIN seen : seen[i].done => Reflects(labels, seen[i].id)
=============================================================================
