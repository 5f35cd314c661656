---------------------------- MODULE DecisionLog ----------------------------
(***************************************************************************)
(* The decision log of internal/service/decisionlog.go.  A request hands   *)
(* its record to a bounded channel and never waits for the disk: when the  *)
(* channel is full, or the log closed, the record is dropped and counted.  *)
(* One goroutine writes through a bufio.Writer.  Sync sends a barrier      *)
(* through the channel; Close closes the channel and waits for the writer. *)
(* The read-write mutex keeps a send and Close apart: senders share it,    *)
(* and once Close waits for it no new reader gets in.                      *)
(*                                                                         *)
(* A record is <<request, number>>, a barrier <<syncer, 0>>.               *)
(***************************************************************************)
EXTENDS Integers, Sequences, FiniteSets, SequencesExt

CONSTANTS Putters, Syncers,
          Buffer,       \* capacity of the channel
          BufSize,      \* records that fit the write buffer
          MaxPuts,      \* records each request puts
          MaxErrors     \* writes of the file that fail

VARIABLES
  put,          \* [Putters -> [at, n]]: "put" waits for the read lock, "drop" counts
  sync,         \* [Syncers -> [at, due]]: due is what was handed over before the call
  close,        \* "open", "locking", "draining" or "closed"
  closed, ch,   \* l.closed; the channel
  writer,       \* "run" or "done"
  buf, broken,  \* the write buffer; whether an error stuck to it
  logFile,
  handed,       \* the records the channel accepted, in order
  dropped, written, writeErrs, errors

logVars == <<put, sync, close, closed, ch, writer, buf, broken, logFile, handed,
             dropped, written, writeErrs, errors>>

ASSUME LogAssumption == IsFiniteSet(Putters) /\ Putters \cap Syncers = {}

IsBarrier(r) == r[1] \in Syncers

(* RLock: a Close that waits keeps new readers out. *)
CanRead == close # "locking"
Readers == {s \in Syncers : sync[s].at = "sending"}

PutCall(p) ==
  /\ put[p].at = "idle" /\ put[p].n < MaxPuts
  /\ put' = [put EXCEPT ![p] = [at |-> "put", n |-> @.n + 1]]
  /\ UNCHANGED <<sync, close, closed, ch, writer, buf, broken, logFile, handed, dropped,
                 written, writeErrs, errors>>

PutSend(p) ==
  /\ put[p].at = "put" /\ CanRead
  /\ LET r == <<p, put[p].n>>
     IN  IF ~closed /\ Len(ch) < Buffer
         THEN /\ ch' = Append(ch, r)
              /\ handed' = Append(handed, r)
              /\ put' = [put EXCEPT ![p].at = "idle"]
         ELSE /\ put' = [put EXCEPT ![p].at = "drop"]
              /\ UNCHANGED <<ch, handed>>
  /\ UNCHANGED <<sync, close, closed, writer, buf, broken, logFile, dropped, written,
                 writeErrs, errors>>

PutDrop(p) ==
  /\ put[p].at = "drop"
  /\ dropped' = dropped + 1
  /\ put' = [put EXCEPT ![p].at = "idle"]
  /\ UNCHANGED <<sync, close, closed, ch, writer, buf, broken, logFile, handed, written,
                 writeErrs, errors>>

(* Sync returns at once when the log is closed. *)
SyncCall(s) ==
  /\ sync[s].at = "idle" /\ CanRead
  /\ sync' = [sync EXCEPT ![s] = IF closed THEN [at |-> "refused", due |-> {}]
                                 ELSE [at |-> "sending", due |-> Range(handed)]]
  /\ UNCHANGED <<put, close, closed, ch, writer, buf, broken, logFile, handed, dropped,
                 written, writeErrs, errors>>

SyncSend(s) ==
  /\ sync[s].at = "sending" /\ Len(ch) < Buffer
  /\ ch' = Append(ch, <<s, 0>>)
  /\ sync' = [sync EXCEPT ![s].at = "waiting"]
  /\ UNCHANGED <<put, close, closed, writer, buf, broken, logFile, handed, dropped,
                 written, writeErrs, errors>>

(***************************************************************************)
(* Flush writes the whole buffer, or fails after a part of it; the error   *)
(* sticks to the buffer, which writes nothing any more.                    *)
(***************************************************************************)
Flush ==
  \/ /\ ~broken
     /\ logFile' = logFile \o buf /\ buf' = <<>>
     /\ UNCHANGED <<broken, errors, writeErrs>>
  \/ /\ broken
     /\ writeErrs' = writeErrs + 1
     /\ UNCHANGED <<logFile, buf, broken, errors>>
  \/ /\ ~broken /\ buf # <<>> /\ errors < MaxErrors
     /\ \E n \in 0..(Len(buf) - 1) : logFile' = logFile \o SubSeq(buf, 1, n)
     /\ broken' = TRUE /\ errors' = errors + 1 /\ writeErrs' = writeErrs + 1
     /\ UNCHANGED buf

(* A record that does not fit pushes out the buffer first. *)
Write(r) ==
  \/ /\ ~broken
     /\ IF Len(buf) < BufSize THEN buf' = Append(buf, r) /\ UNCHANGED logFile
                              ELSE buf' = <<r>> /\ logFile' = logFile \o buf
     /\ written' = written + 1
     /\ UNCHANGED <<broken, errors, writeErrs>>
  \/ /\ broken \/ (Len(buf) = BufSize /\ errors < MaxErrors)
     /\ broken' = TRUE
     /\ errors' = IF broken THEN errors ELSE errors + 1
     /\ writeErrs' = writeErrs + 1
     /\ UNCHANGED <<buf, logFile, written>>

WriterTake ==
  /\ writer = "run" /\ ch # <<>> /\ ~IsBarrier(Head(ch))
  /\ ch' = Tail(ch)
  /\ Write(Head(ch))
  /\ UNCHANGED <<put, sync, close, closed, writer, handed, dropped>>

(* Whether the barrier flushes before it is closed. *)
FlushSkipped == UNCHANGED <<logFile, buf, broken, errors, writeErrs>>
BarrierFlush == Flush

WriterBarrier ==
  /\ writer = "run" /\ ch # <<>> /\ IsBarrier(Head(ch))
  /\ ch' = Tail(ch)
  /\ BarrierFlush
  /\ sync' = [sync EXCEPT ![Head(ch)[1]].at = "done"]
  /\ UNCHANGED <<put, close, closed, writer, handed, dropped, written>>

WriterTick ==
  /\ writer = "run" /\ buf # <<>> /\ ~broken
  /\ Flush
  /\ UNCHANGED <<put, sync, close, closed, ch, writer, handed, dropped, written>>

(* A receive from the closed channel fails only once it is empty. *)
StopNow == closed
Drained == closed /\ ch = <<>>

WriterExit ==
  /\ writer = "run" /\ Drained
  /\ writer' = "done"
  /\ UNCHANGED <<put, sync, close, closed, ch, buf, broken, logFile, handed, dropped,
                 written, writeErrs, errors>>

CloseCall ==
  /\ close = "open"
  /\ close' = "locking"
  /\ UNCHANGED <<put, sync, closed, ch, writer, buf, broken, logFile, handed, dropped,
                 written, writeErrs, errors>>

CloseLock ==
  /\ close = "locking" /\ Readers = {}
  /\ closed' = TRUE
  /\ close' = "draining"
  /\ UNCHANGED <<put, sync, ch, writer, buf, broken, logFile, handed, dropped, written,
                 writeErrs, errors>>

(* The last flush, then fsync and close; a second Close does nothing. *)
FileUnflushed == logFile
FileAtClose == logFile \o buf

CloseEnd ==
  /\ close = "draining" /\ writer = "done"
  /\ close' = "closed"
  /\ \/ ~broken /\ logFile' = FileAtClose /\ buf' = <<>> /\ UNCHANGED <<broken, errors>>
     \/ broken /\ UNCHANGED <<logFile, buf, broken, errors>>
     \/ /\ ~broken /\ errors < MaxErrors
        /\ broken' = TRUE /\ errors' = errors + 1
        /\ UNCHANGED <<logFile, buf>>
  /\ UNCHANGED <<put, sync, closed, ch, writer, handed, dropped, written, writeErrs>>

LogInit ==
  /\ put = [p \in Putters |-> [at |-> "idle", n |-> 0]]
  /\ sync = [s \in Syncers |-> [at |-> "idle", due |-> {}]]
  /\ close = "open" /\ closed = FALSE /\ ch = <<>> /\ writer = "run"
  /\ buf = <<>> /\ broken = FALSE /\ logFile = <<>> /\ handed = <<>>
  /\ dropped = 0 /\ written = 0 /\ writeErrs = 0 /\ errors = 0

Writer == WriterTake \/ WriterBarrier \/ WriterExit
Putting(p) == PutSend(p) \/ PutDrop(p)

LogNext ==
  \/ \E p \in Putters : PutCall(p) \/ Putting(p)
  \/ \E s \in Syncers : SyncCall(s) \/ SyncSend(s)
  \/ Writer \/ WriterTick \/ CloseCall \/ CloseLock \/ CloseEnd

LogSpec == LogInit /\ [][LogNext]_logVars

-----------------------------------------------------------------------------
(* Every record is accounted for: after Close, unless a write failed, the  *)
(* file holds exactly the records the channel accepted, in their order,    *)
(* and every other put was counted as dropped or is about to be.           *)
Accounted ==
  close = "closed" =>
    /\ ~broken => logFile = handed /\ written = Len(handed)
    /\ broken => IsPrefix(logFile, handed) /\ (errors > 0)
    /\ LET called == UNION {{p} \X (1..put[p].n) : p \in Putters}
           pending == {p \in Putters : put[p].at # "idle"}
       IN  Cardinality(called) = Len(handed) + dropped + Cardinality(pending)

(* A reader of the file that called Sync finds every record handed over    *)
(* before, unless the disk failed or the log was closed first.             *)
SyncSeesAll == \A s \in Syncers : sync[s].at = "done" /\ ~broken => sync[s].due \subseteq Range(logFile)

(* Who has called and not returned: a payment, a reader, Close.            *)
PutBusy(p) == put[p].at # "idle"
SyncBusy(s) == sync[s].at \in {"sending", "waiting"}
CloseBusy == close \in {"locking", "draining"}
=============================================================================
