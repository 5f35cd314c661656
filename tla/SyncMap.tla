------------------------------ MODULE SyncMap ------------------------------
(***************************************************************************)
(* The concurrent per-key state of internal/features/concurrent.go: a      *)
(* sync.Map from keys to entries, each behind its own mutex.  A request    *)
(* loads or creates the entry, then locks it; the sweeper may evict the    *)
(* entry in between, and marks it dead so that the request looks the key   *)
(* up again.  Keys do not interact, so one key is modelled; a step under   *)
(* an entry's mutex that calls nothing else is one action.                 *)
(*                                                                         *)
(* An entry is the set of requests it has counted and the time of the      *)
(* latest; it is idle, and reads as unseen, TTL after that.                *)
(***************************************************************************)
EXTENDS Integers, FiniteSets

CONSTANTS Requests, Sweepers,
          TTL, MaxClock,
          NoEntry

VARIABLES
  slot,      \* the entry the map holds for the key, or NoEntry
  entries,   \* entry numbers 1.. -> [counted, last, fresh, dead, locked]
  req,       \* [Requests -> [at, time, entry, saw, want]]
  sweep,     \* [Sweepers -> [at, entry, now]]
  swept,     \* the latest time a sweep used
  ref        \* what a map that is never swept and updates in one step holds;
             \* a request late for a sweep starts it afresh

mapVars == <<slot, entries, req, sweep, swept, ref>>

NewEntry == [counted |-> {}, last |-> 0, fresh |-> TRUE, dead |-> FALSE, locked |-> FALSE]

IsIdle(e, now) == now - e.last >= TTL
Free(i) == ~entries[i].locked

(* unseen, or the requests the entry has counted. *)
Read(e, now) == IF e.fresh \/ IsIdle(e, now) THEN {} ELSE e.counted

(* A late event is recorded at the entry's latest time. *)
Add(e, r, t) ==
  [e EXCEPT !.counted = Read(e, t) \cup {r},
            !.last = IF e.fresh \/ IsIdle(e, t) \/ t > e.last THEN t ELSE e.last,
            !.fresh = FALSE]

Call(r, t) ==
  /\ req[r].at = "idle"
  /\ req' = [req EXCEPT ![r] = [@ EXCEPT !.at = "load", !.time = t]]
  /\ UNCHANGED <<slot, entries, sweep, swept, ref>>

(* Load, or LoadOrStore of a fresh entry. *)
Load(r) ==
  /\ req[r].at = "load"
  /\ IF slot = NoEntry
     THEN LET i == Cardinality(DOMAIN entries) + 1
          IN  /\ entries' = [j \in 1..i |-> IF j = i THEN NewEntry ELSE entries[j]]
              /\ slot' = i
              /\ req' = [req EXCEPT ![r] = [@ EXCEPT !.at = "lock", !.entry = i]]
     ELSE /\ req' = [req EXCEPT ![r] = [@ EXCEPT !.at = "lock", !.entry = slot]]
          /\ UNCHANGED <<slot, entries>>
  /\ UNCHANGED <<sweep, swept, ref>>

(* Whether the entry was evicted between Load and Lock. *)
NeverGone(i) == FALSE
Gone(i) == entries[i].dead

Update(r) ==
  LET i == req[r].entry
      t == req[r].time
  IN  /\ req[r].at = "lock" /\ Free(i)
      /\ IF Gone(i)
         THEN /\ req' = [req EXCEPT ![r].at = "load"]
              /\ UNCHANGED <<entries, ref>>
         ELSE /\ entries' = [entries EXCEPT ![i] = Add(@, r, t)]
              /\ ref' = Add(IF t < swept THEN entries[i] ELSE ref, r, t)
              /\ req' = [req EXCEPT ![r] = [@ EXCEPT !.at = "done",
                           !.saw = Read(entries[i], t),
                           !.want = Read(IF t < swept THEN entries[i] ELSE ref, t)]]
      /\ UNCHANGED <<slot, sweep, swept>>

(* Range hands the sweeper the entry it found; it is locked later. *)
SweepFind(s) ==
  /\ sweep[s].at = "idle" /\ slot # NoEntry
  /\ \E t \in 0..MaxClock :
       /\ swept' = IF t > swept THEN t ELSE swept
       /\ sweep' = [sweep EXCEPT ![s] = [at |-> "found", entry |-> slot, now |-> t]]
  /\ UNCHANGED <<slot, entries, req, ref>>

SweepMark(s) ==
  LET i == sweep[s].entry
      evict == ~entries[i].fresh /\ IsIdle(entries[i], sweep[s].now)
  IN  /\ sweep[s].at = "found" /\ Free(i)
      /\ IF evict
         THEN /\ entries' = [entries EXCEPT ![i] = [@ EXCEPT !.dead = TRUE, !.locked = TRUE]]
              /\ sweep' = [sweep EXCEPT ![s].at = "delete"]
         ELSE sweep' = [sweep EXCEPT ![s].at = "idle"] /\ UNCHANGED entries
      /\ UNCHANGED <<slot, req, swept, ref>>

(* CompareAndDelete removes the key only while it still holds this entry. *)
Deletes(s) == slot = sweep[s].entry

SweepDelete(s) ==
  /\ sweep[s].at = "delete"
  /\ slot' = IF Deletes(s) THEN NoEntry ELSE slot
  /\ entries' = [entries EXCEPT ![sweep[s].entry].locked = FALSE]
  /\ sweep' = [sweep EXCEPT ![s].at = "idle"]
  /\ UNCHANGED <<req, swept, ref>>

MapInit ==
  /\ slot = NoEntry /\ entries = <<>>
  /\ req = [r \in Requests |-> [at |-> "idle", time |-> 0, entry |-> 0, saw |-> {}, want |-> {}]]
  /\ sweep = [s \in Sweepers |-> [at |-> "idle", entry |-> 0, now |-> 0]]
  /\ swept = 0 /\ ref = NewEntry

MapNext ==
  \/ \E r \in Requests : (\E t \in 0..MaxClock : Call(r, t)) \/ Load(r) \/ Update(r)
  \/ \E s \in Sweepers : SweepFind(s) \/ SweepMark(s) \/ SweepDelete(s)

MapSpec == MapInit /\ [][MapNext]_mapVars

-----------------------------------------------------------------------------
(* Evictions are invisible: a request whose time is not before a sweep's   *)
(* sees exactly the requests it would see in a map that is never swept and *)
(* reads and adds in one step (state.go:120-123), so no event is lost and  *)
(* of two requests on a key one sees the other.                            *)
EvictionInvisible == \A r \in Requests : req[r].saw = req[r].want
=============================================================================
