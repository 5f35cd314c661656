------------------------- MODULE SharedStateProofs --------------------------
(***************************************************************************)
(* What concurrent requests share in memory: the velocity state of a key   *)
(* under sweeps (SyncMap), the cached Backtester (BacktestCache), the word *)
(* with the latest event time (EventTimeGuard) and the decision log's      *)
(* channel (DecisionLog).  For each, the properties its run checks, for    *)
(* any number of requests.                                                 *)
(***************************************************************************)
EXTENDS SyncMap, BacktestCache, EventTimeGuard, DecisionLog, FiniteSetTheorems,
        SequenceTheorems, TLAPS

-----------------------------------------------------------------------------
(***************************************************************************)
(* Evicting idle entries is invisible, for any number of requests and      *)
(* sweepers, any times and any idle time.                                  *)
(*                                                                         *)
(* The argument compares the map with ref, the key in a map that is never  *)
(* swept.  At most one entry is alive, and it is the one in the map        *)
(* (OneAlive).  It agrees with ref, or it is fresh and ref is idle at      *)
(* every time a sweep has used (RefAgrees); when none is alive, ref is     *)
(* idle too (RefForgotten).  A sweep's time is one that was used           *)
(* (SweepsKnown), so what it evicts is idle in ref from then on.           *)
(***************************************************************************)
EntryType == [counted : SUBSET Requests, last : Int, fresh : BOOLEAN, dead : BOOLEAN,
              locked : BOOLEAN]
ReqType == [at : {"idle", "load", "lock", "done"}, time : Int, entry : Nat,
            saw : SUBSET Requests, want : SUBSET Requests]
SweepType == [at : {"idle", "found", "delete"}, entry : Nat, now : Int]

MapTypes == /\ \E n \in Nat : entries \in [1..n -> EntryType]
         /\ slot \in DOMAIN entries \cup {NoEntry}
         /\ req \in [Requests -> ReqType]
         /\ sweep \in [Sweepers -> SweepType]
         /\ swept \in Int
         /\ ref \in EntryType

Held == \A r \in Requests : req[r].at = "lock" => req[r].entry \in DOMAIN entries

SweepsKnown ==
  \A s \in Sweepers : sweep[s].at # "idle" =>
     /\ sweep[s].entry \in DOMAIN entries
     /\ sweep[s].now <= swept
     /\ sweep[s].at = "delete" => entries[sweep[s].entry].dead

OneAlive == \A i \in DOMAIN entries : ~entries[i].dead => slot = i

Same(e, f) == e.counted = f.counted /\ e.last = f.last /\ e.fresh = f.fresh

(* No request at the latest sweep's time or after it sees anything in ref. *)
Forgotten == ref.fresh \/ IsIdle(ref, swept)

RefAgrees ==
  \A i \in DOMAIN entries : ~entries[i].dead =>
     Same(entries[i], ref) \/ (entries[i].fresh /\ Forgotten)

RefForgotten == (\A i \in DOMAIN entries : entries[i].dead) => Forgotten

MapInv == /\ MapTypes /\ Held /\ SweepsKnown /\ OneAlive /\ RefAgrees /\ RefForgotten
        /\ EvictionInvisible

MapParameters == NoEntry \notin Nat /\ TTL \in Int /\ MaxClock \in Int

-----------------------------------------------------------------------------
(* The operators on an entry. *)

LEMMA AddType ==
    ASSUME MapParameters, NEW e \in EntryType, NEW r \in Requests, NEW t \in Int
    PROVE  Add(e, r, t) \in EntryType
  BY DEF Add, Read, EntryType, IsIdle, MapParameters

LEMMA AddFields ==
    ASSUME NEW e \in EntryType, NEW r \in Requests, NEW t \in Int
    PROVE  /\ Add(e, r, t).counted = Read(e, t) \cup {r}
           /\ Add(e, r, t).last = IF e.fresh \/ IsIdle(e, t) \/ t > e.last THEN t ELSE e.last
           /\ Add(e, r, t).fresh = FALSE
           /\ Add(e, r, t).dead = e.dead
  BY DEF Add, EntryType

(* What is idle stays idle. *)
LEMMA IdleLater ==
    ASSUME MapParameters, NEW e \in EntryType, NEW t \in Int, NEW u \in Int, t <= u, IsIdle(e, t)
    PROVE  IsIdle(e, u)
  BY DEF IsIdle, EntryType, MapParameters

(* Entries that agree read and add alike. *)
LEMMA SameReads ==
    ASSUME NEW e \in EntryType, NEW f \in EntryType, Same(e, f), NEW r \in Requests, NEW t \in Int
    PROVE  /\ Read(e, t) = Read(f, t)
           /\ Same(Add(e, r, t), Add(f, r, t))
  <1>1. Read(e, t) = Read(f, t)
    BY DEF Same, Read, IsIdle
  <1>2. Add(e, r, t).counted = Add(f, r, t).counted
    <2>1. Add(e, r, t).counted = Read(e, t) \cup {r}
      BY AddFields
    <2>2. Add(f, r, t).counted = Read(f, t) \cup {r}
      BY AddFields
    <2> QED
      BY <1>1, <2>1, <2>2
  <1>3. Add(e, r, t).last = Add(f, r, t).last
    <2>1. Add(e, r, t).last = IF e.fresh \/ IsIdle(e, t) \/ t > e.last THEN t ELSE e.last
      BY AddFields
    <2>2. Add(f, r, t).last = IF f.fresh \/ IsIdle(f, t) \/ t > f.last THEN t ELSE f.last
      BY AddFields
    <2> QED
      BY <2>1, <2>2 DEF Same, IsIdle
  <1>4. Add(e, r, t).fresh = Add(f, r, t).fresh
    BY AddFields
  <1> QED
    BY <1>1, <1>2, <1>3, <1>4 DEF Same

(* So do two that nobody can see. *)
LEMMA UnseenReads ==
    ASSUME NEW e \in EntryType, NEW f \in EntryType, NEW r \in Requests, NEW t \in Int,
           e.fresh \/ IsIdle(e, t), f.fresh \/ IsIdle(f, t)
    PROVE  /\ Read(e, t) = Read(f, t)
           /\ Same(Add(e, r, t), Add(f, r, t))
  <1>1. Read(e, t) = {} /\ Read(f, t) = {}
    BY DEF Read
  <1>2. Add(e, r, t).counted = Add(f, r, t).counted
    <2>1. Add(e, r, t).counted = Read(e, t) \cup {r}
      BY AddFields
    <2>2. Add(f, r, t).counted = Read(f, t) \cup {r}
      BY AddFields
    <2> QED
      BY <1>1, <2>1, <2>2
  <1>3. Add(e, r, t).last = t /\ Add(f, r, t).last = t
    BY AddFields
  <1>4. Add(e, r, t).fresh = Add(f, r, t).fresh
    BY AddFields
  <1> QED
    BY <1>1, <1>2, <1>3, <1>4 DEF Same

LEMMA NewEntryType == NewEntry \in EntryType
  BY DEF NewEntry, EntryType

-----------------------------------------------------------------------------
(* The steps. *)

LEMMA MapInitially == ASSUME MapParameters, MapInit PROVE MapInv
  <1>1. entries \in [1..0 -> EntryType]
    BY DEF MapInit
  <1>2. DOMAIN entries = {}
    BY DEF MapInit
  <1>3. MapTypes
    BY <1>1, NewEntryType DEF MapInit, MapTypes, ReqType, SweepType
  <1>4. Forgotten
    BY DEF MapInit, Forgotten, NewEntry
  <1> QED
    BY <1>2, <1>3, <1>4 DEF MapInv, MapInit, Held, SweepsKnown, OneAlive, RefAgrees, RefForgotten,
                            EvictionInvisible

(* A step that leaves the entries, the key's slot, ref and swept alone.    *)
LEMMA OnlyProgress ==
    ASSUME MapInv, UNCHANGED <<slot, entries, swept, ref>>,
           req' \in [Requests -> ReqType], sweep' \in [Sweepers -> SweepType],
           Held', SweepsKnown', EvictionInvisible'
    PROVE  MapInv'
  BY DEF MapInv, MapTypes, OneAlive, RefAgrees, RefForgotten, Forgotten

LEMMA CallPreserves ==
    ASSUME MapParameters, MapInv, NEW r \in Requests, NEW t \in 0..MaxClock, Call(r, t)
    PROVE  MapInv'
  <1>1. /\ req' = [req EXCEPT ![r] = [req[r] EXCEPT !.at = "load", !.time = t]]
        /\ UNCHANGED <<slot, entries, sweep, swept, ref>>
    BY DEF Call, MapInv, MapTypes
  <1>2. t \in Int
    BY DEF MapParameters
  <1>3. req' \in [Requests -> ReqType]
    <2>1. [req[r] EXCEPT !.at = "load", !.time = t] \in ReqType
        <3>1. req[r] \in ReqType
          BY DEF MapInv, MapTypes
        <3> QED
          BY <3>1, <1>2 DEF ReqType
    <2> QED
      BY <1>1, <2>1 DEF MapInv, MapTypes
  <1>5. Held' /\ EvictionInvisible'
    BY <1>1 DEF MapInv, MapTypes, ReqType, Held, EvictionInvisible
  <1>4. SweepsKnown' /\ sweep' \in [Sweepers -> SweepType]
    BY <1>1 DEF MapInv, MapTypes, SweepsKnown
  <1> QED
    BY <1>1, <1>3, <1>4, <1>5, OnlyProgress

LEMMA LoadPreserves ==
    ASSUME MapParameters, MapInv, NEW r \in Requests, Load(r)
    PROVE  MapInv'
  <1>1. CASE slot # NoEntry
    <2>1. /\ req' = [req EXCEPT ![r] = [req[r] EXCEPT !.at = "lock", !.entry = slot]]
          /\ UNCHANGED <<slot, entries, sweep, swept, ref>>
      BY <1>1 DEF Load, MapInv, MapTypes
    <2>2. slot \in DOMAIN entries /\ slot \in Nat
      BY <1>1 DEF MapInv, MapTypes
    <2>3. req' \in [Requests -> ReqType]
      <3>1. [req[r] EXCEPT !.at = "lock", !.entry = slot] \in ReqType
          <4>1. req[r] \in ReqType
            BY DEF MapInv, MapTypes
          <4> QED
            BY <4>1, <2>2 DEF ReqType
      <3> QED
        BY <2>1, <3>1 DEF MapInv, MapTypes
    <2>5. Held' /\ EvictionInvisible'
      BY <2>1, <2>2 DEF MapInv, MapTypes, ReqType, Held, EvictionInvisible
    <2>4. SweepsKnown' /\ sweep' \in [Sweepers -> SweepType]
      BY <2>1 DEF MapInv, MapTypes, SweepsKnown
    <2> QED
      BY <2>1, <2>3, <2>4, <2>5, OnlyProgress
  <1>2. CASE slot = NoEntry
    <2>1. PICK n \in Nat : entries \in [1..n -> EntryType]
      BY DEF MapInv, MapTypes
    <2>2. Cardinality(DOMAIN entries) = n
      BY <2>1, FS_Interval
    <2> DEFINE i == n + 1
    <2>3. /\ entries' = [j \in 1..i |-> IF j = i THEN NewEntry ELSE entries[j]]
          /\ slot' = i
          /\ req' = [req EXCEPT ![r] = [req[r] EXCEPT !.at = "lock", !.entry = i]]
          /\ UNCHANGED <<sweep, swept, ref>>
      BY <1>2, <2>2 DEF Load, MapInv, MapTypes
    <2>4. i \in Nat /\ DOMAIN entries' = 1..i /\ entries'[i] = NewEntry
      BY <2>3
    <2>5. \A j \in DOMAIN entries : j \in 1..i /\ j # i /\ entries'[j] = entries[j]
      BY <2>1, <2>3
    <2>6. \A j \in 1..i : j = i \/ j \in DOMAIN entries
      BY <2>1
    <2>7. \A j \in DOMAIN entries : entries[j].dead
      BY <1>2, <2>1 DEF MapInv, OneAlive, MapParameters
    <2>8. Forgotten'
      BY <2>3, <2>7 DEF MapInv, RefForgotten, Forgotten
    <2>9. entries' \in [1..i -> EntryType]
      BY <2>1, <2>3, NewEntryType
    <2>10. MapTypes'
      <3>1. [req[r] EXCEPT !.at = "lock", !.entry = i] \in ReqType
          <4>1. req[r] \in ReqType
            BY DEF MapInv, MapTypes
          <4> QED
            BY <4>1, <2>4 DEF ReqType
      <3>2. req' \in [Requests -> ReqType]
        BY <2>3, <3>1 DEF MapInv, MapTypes
      <3>3. slot' \in DOMAIN entries'
        BY <2>3, <2>4
      <3> QED
        BY <2>3, <2>4, <2>9, <3>2, <3>3 DEF MapInv, MapTypes
    <2>11. Held' /\ EvictionInvisible'
      BY <2>3, <2>4, <2>5 DEF MapInv, MapTypes, ReqType, Held, EvictionInvisible
    <2>12. SweepsKnown'
      BY <2>3, <2>4, <2>5 DEF MapInv, SweepsKnown
    <2>13. OneAlive' /\ RefAgrees'
      BY <2>3, <2>4, <2>5, <2>6, <2>7, <2>8 DEF OneAlive, RefAgrees, NewEntry
    <2> QED
      BY <2>8, <2>10, <2>11, <2>12, <2>13 DEF MapInv, RefForgotten
  <1> QED
    BY <1>1, <1>2

LEMMA UpdatePreserves ==
    ASSUME MapParameters, MapInv, NEW r \in Requests, Update(r)
    PROVE  MapInv'
  <1> DEFINE i == req[r].entry
             t == req[r].time
             e == entries[i]
             base == IF t < swept THEN e ELSE ref
  <1>1. i \in DOMAIN entries /\ t \in Int /\ e \in EntryType /\ ref \in EntryType /\ swept \in Int
    BY DEF Update, MapInv, MapTypes, ReqType, Held
  <1>2. CASE Gone(i)
    <2>1. /\ req' = [req EXCEPT ![r] = [req[r] EXCEPT !.at = "load"]]
          /\ UNCHANGED <<slot, entries, sweep, swept, ref>>
      BY <1>2 DEF Update, MapInv, MapTypes
    <2>2. req' \in [Requests -> ReqType]
      <3>1. [req[r] EXCEPT !.at = "load"] \in ReqType
        <4>1. req[r] \in ReqType
          BY DEF MapInv, MapTypes
        <4> QED
          BY <4>1 DEF ReqType
      <3> QED
        BY <2>1, <3>1 DEF MapInv, MapTypes
    <2>4. Held' /\ EvictionInvisible'
      BY <2>1 DEF MapInv, MapTypes, ReqType, Held, EvictionInvisible
    <2>3. SweepsKnown' /\ sweep' \in [Sweepers -> SweepType]
      BY <2>1 DEF MapInv, MapTypes, SweepsKnown
    <2> QED
      BY <2>1, <2>2, <2>3, <2>4, OnlyProgress
  <1>3. CASE ~Gone(i)
    <2>1. /\ entries' = [entries EXCEPT ![i] = Add(e, r, t)]
          /\ ref' = Add(base, r, t)
          /\ req' = [req EXCEPT ![r] = [req[r] EXCEPT !.at = "done", !.saw = Read(e, t),
                                                      !.want = Read(base, t)]]
          /\ UNCHANGED <<slot, sweep, swept>>
      BY <1>3 DEF Update, MapInv, MapTypes
    <2>2. ~e.dead /\ slot = i
      BY <1>1, <1>3 DEF Gone, MapInv, OneAlive
    <2>3. base \in EntryType
      BY <1>1
    <2>4. Read(e, t) = Read(base, t) /\ Same(Add(e, r, t), Add(base, r, t))
      <3>1. CASE t < swept \/ Same(e, ref)
        <4>1. Same(e, base)
          BY <3>1 DEF Same
        <4> QED
          BY <4>1, <1>1, <2>3, SameReads
      <3>2. CASE ~(t < swept) /\ e.fresh /\ Forgotten
        <4>1. ref.fresh \/ IsIdle(ref, t)
          BY <3>2, <1>1, IdleLater DEF Forgotten
        <4> QED
          BY <4>1, <3>2, <1>1, UnseenReads
      <3> QED
        BY <3>1, <3>2, <2>2, <1>1 DEF MapInv, RefAgrees
    <2>5. Add(e, r, t) \in EntryType /\ Add(base, r, t) \in EntryType /\ Add(e, r, t).dead = e.dead
      <3> HIDE DEF e, base, t
      <3>1. Add(e, r, t) \in EntryType
        BY <1>1, AddType
      <3>2. Add(base, r, t) \in EntryType
        BY <1>1, <2>3, AddType
      <3>3. Add(e, r, t).dead = e.dead
        BY <1>1, AddFields
      <3> QED
        BY <3>1, <3>2, <3>3
    <2>6. DOMAIN entries' = DOMAIN entries /\ entries'[i] = Add(e, r, t)
          /\ \A j \in DOMAIN entries : j # i => entries'[j] = entries[j]
      BY <1>1, <2>1
    <2>7. \A j \in DOMAIN entries : entries'[j].dead = entries[j].dead
      BY <2>5, <2>6
    <2>8. Read(e, t) \in SUBSET Requests
      BY <1>1 DEF Read, EntryType
    <2>9. \E n \in Nat : entries' \in [1..n -> EntryType]
      BY <2>1, <2>5 DEF MapInv, MapTypes
    <2>10. req' \in [Requests -> ReqType]
      <3>1. Read(base, t) \in SUBSET Requests
        BY <2>4, <2>8
      <3> DEFINE saw == Read(e, t)
                 want == Read(base, t)
      <3> HIDE DEF saw, want
      <3>2. saw \in SUBSET Requests /\ want \in SUBSET Requests
        BY <2>8, <3>1 DEF saw, want
      <3>3. [req[r] EXCEPT !.at = "done", !.saw = saw, !.want = want] \in ReqType
          <4>1. req[r] \in ReqType
            BY DEF MapInv, MapTypes
          <4> QED
            BY <4>1, <3>2 DEF ReqType
      <3>4. req' = [req EXCEPT ![r] = [req[r] EXCEPT !.at = "done", !.saw = saw, !.want = want]]
        BY <2>1 DEF saw, want
      <3> QED
        BY <3>3, <3>4 DEF MapInv, MapTypes
    <2>11. MapTypes'
      BY <2>1, <2>5, <2>6, <2>9, <2>10 DEF MapInv, MapTypes
    <2>12. Held' /\ EvictionInvisible'
      BY <2>1, <2>4, <2>6 DEF MapInv, MapTypes, ReqType, Held, EvictionInvisible
    <2>13. SweepsKnown' /\ OneAlive'
      BY <2>1, <2>6, <2>7 DEF MapInv, SweepsKnown, OneAlive
    <2>14. RefAgrees'
      <3>1. \A j \in DOMAIN entries' : ~entries'[j].dead => j = i
        BY <2>2, <2>6, <2>7 DEF MapInv, OneAlive
      <3> QED
        BY <3>1, <2>1, <2>4, <2>6 DEF RefAgrees
    <2>15. RefForgotten'
      BY <2>2, <2>6, <2>7, <1>1 DEF RefForgotten
    <2> QED
      BY <2>11, <2>12, <2>13, <2>14, <2>15 DEF MapInv
  <1> QED
    BY <1>2, <1>3

LEMMA SweepFindPreserves ==
    ASSUME MapParameters, MapInv, NEW s \in Sweepers, SweepFind(s)
    PROVE  MapInv'
  <1>1. PICK t \in 0..MaxClock :
          /\ swept' = IF t > swept THEN t ELSE swept
          /\ sweep' = [sweep EXCEPT ![s] = [at |-> "found", entry |-> slot, now |-> t]]
    BY DEF SweepFind
  <1>2. /\ UNCHANGED <<slot, entries, req, ref>>
        /\ slot \in DOMAIN entries /\ slot \in Nat
    BY DEF SweepFind, MapInv, MapTypes
  <1>3. swept \in Int /\ swept' \in Int /\ swept <= swept' /\ t <= swept' /\ t \in Int
    BY <1>1 DEF MapInv, MapTypes, MapParameters
  <1>4. MapTypes'
    BY <1>1, <1>2, <1>3 DEF MapInv, MapTypes, SweepType
  <1>5. \A q \in Sweepers : q # s => sweep'[q] = sweep[q] /\ sweep[q].now \in Int
    BY <1>1 DEF MapInv, MapTypes, SweepType
  <1>6. sweep'[s] = [at |-> "found", entry |-> slot, now |-> t]
    BY <1>1 DEF MapInv, MapTypes
  <1>7. SweepsKnown'
    BY <1>2, <1>3, <1>5, <1>6 DEF MapInv, SweepsKnown
  <1>8. Forgotten => Forgotten'
    BY <1>2, <1>3, IdleLater DEF Forgotten, MapInv, MapTypes, IsIdle
  <1> QED
    BY <1>2, <1>4, <1>7, <1>8 DEF MapInv, Held, OneAlive, RefAgrees, RefForgotten, EvictionInvisible

LEMMA SweepMarkPreserves ==
    ASSUME MapParameters, MapInv, NEW s \in Sweepers, SweepMark(s)
    PROVE  MapInv'
  <1> DEFINE i == sweep[s].entry
             e == entries[i]
  <1>1. /\ i \in DOMAIN entries /\ e \in EntryType /\ sweep[s].now \in Int /\ sweep[s].now <= swept
        /\ swept \in Int /\ ref \in EntryType
    BY DEF SweepMark, MapInv, MapTypes, SweepsKnown, SweepType
  <1>2. CASE ~(~e.fresh /\ IsIdle(e, sweep[s].now))
    <2>1. sweep' = [sweep EXCEPT ![s] = [sweep[s] EXCEPT !.at = "idle"]]
          /\ UNCHANGED <<slot, entries, req, swept, ref>>
      BY <1>2 DEF SweepMark, MapInv, MapTypes
    <2>2. sweep' \in [Sweepers -> SweepType] /\ SweepsKnown'
      BY <2>1 DEF MapInv, MapTypes, SweepType, SweepsKnown
    <2>3. req' \in [Requests -> ReqType] /\ Held' /\ EvictionInvisible'
      BY <2>1 DEF MapInv, MapTypes, Held, EvictionInvisible
    <2> QED
      BY <2>1, <2>2, <2>3, OnlyProgress
  <1>3. CASE ~e.fresh /\ IsIdle(e, sweep[s].now)
    <2> DEFINE d == [e EXCEPT !.dead = TRUE, !.locked = TRUE]
    <2>1. /\ entries' = [entries EXCEPT ![i] = d]
          /\ sweep' = [sweep EXCEPT ![s] = [sweep[s] EXCEPT !.at = "delete"]]
          /\ UNCHANGED <<slot, req, swept, ref>>
      BY <1>3 DEF SweepMark, MapInv, MapTypes
    <2>2. d \in EntryType /\ d.dead
      BY <1>1 DEF EntryType
    <2>3. /\ DOMAIN entries' = DOMAIN entries /\ entries'[i] = d
          /\ \A j \in DOMAIN entries : j # i => entries'[j] = entries[j]
      BY <1>1, <2>1
    <2>4. MapTypes'
      <3>1. [sweep[s] EXCEPT !.at = "delete"] \in SweepType
          <4>1. sweep[s] \in SweepType
            BY DEF MapInv, MapTypes
          <4> QED
            BY <4>1 DEF SweepType
      <3>2. sweep' \in [Sweepers -> SweepType]
        BY <2>1, <3>1 DEF MapInv, MapTypes
      <3>3. \E n \in Nat : entries' \in [1..n -> EntryType]
        BY <2>1, <2>2 DEF MapInv, MapTypes
      <3> QED
        BY <2>1, <2>3, <3>2, <3>3 DEF MapInv, MapTypes
    <2>5. Held' /\ EvictionInvisible'
      BY <2>1, <2>3 DEF MapInv, Held, EvictionInvisible
    <2>6. SweepsKnown'
      BY <1>1, <2>1, <2>2, <2>3 DEF MapInv, MapTypes, SweepType, SweepsKnown, SweepMark
    <2>7. OneAlive' /\ RefAgrees'
      BY <2>1, <2>2, <2>3 DEF MapInv, OneAlive, RefAgrees, Forgotten
    <2>8. RefForgotten'
      <3>1. CASE e.dead
        BY <3>1, <2>1, <2>3 DEF MapInv, RefForgotten, Forgotten
      <3>2. CASE ~e.dead
        <4>1. Same(e, ref)
          BY <1>1, <1>3, <3>2 DEF MapInv, RefAgrees
        <4>2. IsIdle(ref, sweep[s].now)
          BY <4>1, <1>3 DEF Same, IsIdle
        <4>3. IsIdle(ref, swept)
          BY <4>2, <1>1, IdleLater
        <4> QED
          BY <4>3, <2>1 DEF RefForgotten, Forgotten
      <3> QED
        BY <3>1, <3>2
    <2> QED
      BY <2>4, <2>5, <2>6, <2>7, <2>8 DEF MapInv
  <1> QED
    BY <1>2, <1>3

LEMMA SweepDeletePreserves ==
    ASSUME MapParameters, MapInv, NEW s \in Sweepers, SweepDelete(s)
    PROVE  MapInv'
  <1> DEFINE i == sweep[s].entry
             f == [entries[i] EXCEPT !.locked = FALSE]
  <1>1. /\ i \in DOMAIN entries /\ entries[i] \in EntryType /\ entries[i].dead
    BY DEF SweepDelete, MapInv, MapTypes, SweepsKnown
  <1>2. /\ slot' = IF slot = i THEN NoEntry ELSE slot
        /\ entries' = [entries EXCEPT ![i] = f]
        /\ sweep' = [sweep EXCEPT ![s] = [sweep[s] EXCEPT !.at = "idle"]]
        /\ UNCHANGED <<req, swept, ref>>
    BY DEF SweepDelete, Deletes, MapInv, MapTypes
  <1>3. f \in EntryType /\ f.dead
    BY <1>1 DEF EntryType
  <1>4. /\ DOMAIN entries' = DOMAIN entries /\ entries'[i] = f
        /\ \A j \in DOMAIN entries : j # i => entries'[j] = entries[j]
    BY <1>1, <1>2
  <1>5. MapTypes'
    <2>1. [sweep[s] EXCEPT !.at = "idle"] \in SweepType
        <3>1. sweep[s] \in SweepType
          BY DEF MapInv, MapTypes
        <3> QED
          BY <3>1 DEF SweepType
    <2>2. sweep' \in [Sweepers -> SweepType]
      BY <1>2, <2>1 DEF MapInv, MapTypes
    <2>3. \E n \in Nat : entries' \in [1..n -> EntryType]
      BY <1>2, <1>3 DEF MapInv, MapTypes
    <2>4. slot' \in DOMAIN entries' \cup {NoEntry}
      BY <1>2, <1>4 DEF MapInv, MapTypes
    <2> QED
      BY <1>2, <2>2, <2>3, <2>4 DEF MapInv, MapTypes
  <1>6. Held' /\ EvictionInvisible'
    BY <1>2, <1>4 DEF MapInv, Held, EvictionInvisible
  <1>7. SweepsKnown'
    BY <1>1, <1>2, <1>3, <1>4 DEF MapInv, MapTypes, SweepType, SweepsKnown
  <1>8. OneAlive' /\ RefAgrees' /\ RefForgotten'
    BY <1>1, <1>2, <1>3, <1>4 DEF MapInv, OneAlive, RefAgrees, RefForgotten, Forgotten
  <1> QED
    BY <1>5, <1>6, <1>7, <1>8 DEF MapInv

LEMMA MapStep ==
    ASSUME MapParameters, MapInv, [MapNext]_mapVars
    PROVE  MapInv'
  <1>1. CASE UNCHANGED mapVars
    BY <1>1 DEF mapVars, MapInv, MapTypes, Held, SweepsKnown, OneAlive, RefAgrees, RefForgotten,
                Forgotten, EvictionInvisible
  <1>2. CASE MapNext
    BY <1>2, CallPreserves, LoadPreserves, UpdatePreserves, SweepFindPreserves,
       SweepMarkPreserves, SweepDeletePreserves DEF MapNext
  <1> QED
    BY <1>1, <1>2

(* A request whose time no sweep has passed sees what it would see in a    *)
(* map that is never swept: however sweeps and requests interleave, no     *)
(* update is lost to an eviction (concurrent.go, SyncMap).                 *)
THEOREM EvictionUnseen == ASSUME MapParameters PROVE MapSpec => []EvictionInvisible
  <1>1. MapInv => EvictionInvisible
    BY DEF MapInv
  <1> QED
    BY <1>1, MapInitially, MapStep, PTL DEF MapSpec

-----------------------------------------------------------------------------
(***************************************************************************)
(* A backtest never runs on stale evidence, for any number of requests.    *)
(* The cached Backtester is at least as new as the version it is filed     *)
(* under, because that version was read before its labels: a request whose *)
(* version equals it gets labels no older than its own reading.            *)
(***************************************************************************)
TesterState ==
  [at : {"idle", "labels", "lock", "overlay", "store"}, rules : Nat, lv : Nat,
   got : [rules : Nat, labels : Nat] \cup {Nothing}]

CacheTypes == /\ labelVersion \in Nat /\ liveRules \in Nat
         /\ cachedRules \in Nat /\ cachedLbls \in Nat
         /\ cached \in [rules : Nat, labels : Nat] \cup {Nothing}
         /\ tester \in [Testers -> TesterState]

(* The version a request read is one the label store has reached. *)
ReadBefore == \A t \in Testers : tester[t].lv <= labelVersion

(* What a backtest got, or is about to store, is new enough for it. *)
Fresh(t) == tester[t].got # Nothing =>
              tester[t].got.rules = tester[t].rules /\ tester[t].got.labels >= tester[t].lv
GotFresh == \A t \in Testers : tester[t].at \in {"idle", "store"} => Fresh(t)

(* What is cached is no older than it is filed. *)
FiledTrue == cached # Nothing => cached.rules = cachedRules /\ cached.labels >= cachedLbls

CacheInv == CacheTypes /\ ReadBefore /\ GotFresh /\ FiledTrue

LEMMA CacheInitially == CacheInit => CacheInv
  BY DEF CacheInit, CacheInv, CacheTypes, TesterState, ReadBefore, GotFresh, Fresh, FiledTrue

LEMMA LookupPreserves ==
    ASSUME CacheInv, NEW t \in Testers, Lookup(t)
    PROVE  CacheInv'
  <1>1. CASE Hit(t)
    <2>1. /\ tester' = [tester EXCEPT ![t] = [@ EXCEPT !.at = "idle", !.got = cached]]
          /\ UNCHANGED <<labelVersion, liveRules, cached, cachedRules, cachedLbls>>
          /\ cached # Nothing /\ cachedRules = tester[t].rules /\ cachedLbls = tester[t].lv
      BY <1>1 DEF Lookup, Hit
    <2>2. CacheTypes'
      BY <2>1 DEF CacheInv, CacheTypes, TesterState
    <2>3. ReadBefore'
      BY <2>1 DEF CacheInv, CacheTypes, TesterState, ReadBefore
    <2>4. GotFresh'
      BY <2>1 DEF CacheInv, CacheTypes, TesterState, GotFresh, Fresh, FiledTrue
    <2> QED
      BY <2>1, <2>2, <2>3, <2>4 DEF CacheInv, FiledTrue
  <1>2. CASE ~Hit(t)
    BY <1>2 DEF Lookup, CacheInv, CacheTypes, TesterState, ReadBefore, GotFresh, Fresh, FiledTrue
  <1> QED
    BY <1>1, <1>2

LEMMA OverlayPreserves ==
    ASSUME CacheInv, NEW t \in Testers, Overlay(t)
    PROVE  CacheInv'
  <1> DEFINE g == [rules |-> tester[t].rules, labels |-> labelVersion]
  <1>1. /\ tester' = [tester EXCEPT ![t] = [@ EXCEPT !.at = "store", !.got = g]]
        /\ UNCHANGED <<labelVersion, liveRules, cached, cachedRules, cachedLbls>>
    BY DEF Overlay
  <1>2. g \in [rules : Nat, labels : Nat] /\ g.labels >= tester[t].lv
    BY DEF CacheInv, CacheTypes, TesterState, ReadBefore
  <1>3. CacheTypes'
    BY <1>1, <1>2 DEF CacheInv, CacheTypes, TesterState
  <1>4. ReadBefore'
    BY <1>1 DEF CacheInv, CacheTypes, TesterState, ReadBefore
  <1>5. GotFresh'
    BY <1>1, <1>2 DEF CacheInv, CacheTypes, TesterState, GotFresh, Fresh
  <1> QED
    BY <1>1, <1>3, <1>4, <1>5 DEF CacheInv, FiledTrue

LEMMA StorePreserves ==
    ASSUME CacheInv, NEW t \in Testers, Store(t)
    PROVE  CacheInv'
  <1>1. /\ tester[t].at = "store"
        /\ cached' = tester[t].got /\ cachedRules' = tester[t].rules
        /\ cachedLbls' = tester[t].lv
        /\ tester' = [tester EXCEPT ![t].at = "idle"]
        /\ UNCHANGED <<labelVersion, liveRules>>
    BY DEF Store, VersionRead
  <1>2. CacheTypes'
    BY <1>1 DEF CacheInv, CacheTypes, TesterState
  <1>3. ReadBefore' /\ GotFresh'
    BY <1>1 DEF CacheInv, CacheTypes, TesterState, ReadBefore, GotFresh, Fresh
  <1>4. FiledTrue'
    BY <1>1 DEF CacheInv, GotFresh, Fresh, FiledTrue
  <1> QED
    BY <1>2, <1>3, <1>4 DEF CacheInv

LEMMA CacheStep ==
    ASSUME CacheInv, [CacheNext]_cacheVars
    PROVE  CacheInv'
  <1>1. CASE UNCHANGED cacheVars
    BY <1>1 DEF cacheVars, CacheInv, CacheTypes, ReadBefore, GotFresh, Fresh, FiledTrue
  <1>2. CASE LabelChange
    BY <1>2 DEF LabelChange, CacheInv, CacheTypes, TesterState, ReadBefore, GotFresh, Fresh, FiledTrue
  <1>3. CASE DeployRules
    BY <1>3 DEF DeployRules, CacheInv, CacheTypes, ReadBefore, GotFresh, Fresh, FiledTrue
  <1>4. ASSUME NEW t \in Testers, Request(t)
        PROVE  CacheInv'
    BY <1>4 DEF Request, CacheInv, CacheTypes, TesterState, ReadBefore, GotFresh, Fresh, FiledTrue
  <1>5. ASSUME NEW t \in Testers, ReadVersion(t)
        PROVE  CacheInv'
    <2>1. /\ tester' = [tester EXCEPT ![t] = [tester[t] EXCEPT !.at = "lock", !.lv = labelVersion]]
          /\ UNCHANGED <<labelVersion, liveRules, cached, cachedRules, cachedLbls>>
      BY <1>5 DEF ReadVersion, CacheInv, CacheTypes
    <2>2. CacheTypes'
      BY <2>1 DEF CacheInv, CacheTypes, TesterState
    <2>3. ReadBefore'
      BY <2>1 DEF CacheInv, CacheTypes, TesterState, ReadBefore
    <2>4. GotFresh'
      BY <2>1 DEF CacheInv, CacheTypes, TesterState, GotFresh, Fresh
    <2> QED
      BY <2>1, <2>2, <2>3, <2>4 DEF CacheInv, FiledTrue
  <1> QED
    BY <1>1, <1>2, <1>3, <1>4, <1>5, LookupPreserves, OverlayPreserves, StorePreserves DEF CacheNext

(* Whatever labels arrive and rules are deployed while a Backtester is     *)
(* built, and whoever built it, a request gets the rules it asked for and  *)
(* every label received before it asked (backtests.go, get).               *)
THEOREM NoStaleBacktest == CacheSpec => []NeverStale
  <1>1. CacheInv => NeverStale
    BY DEF CacheInv, GotFresh, Fresh, NeverStale
  <1> QED
    BY <1>1, CacheInitially, CacheStep, PTL DEF CacheSpec

-----------------------------------------------------------------------------
(***************************************************************************)
(* The latest accepted event time is exact, for any number of requests and *)
(* any skew.  By itself that is not inductive: a request that raises the   *)
(* word relies on the word never having been above what the request loaded *)
(* unless it has moved since, so that a swap that succeeds never lowers    *)
(* it.                                                                     *)
(***************************************************************************)
CheckState ==
  [at : {"idle", "loaded", "refused", "raise", "accepted"}, created : Nat, seen : Nat]

GuardTypes == /\ latest \in Nat
         /\ accepted \subseteq Nat
         /\ check \in [Checks -> CheckState]

(* What a request loaded, the word has reached. *)
SeenReached == \A r \in Checks : check[r].seen <= latest

GuardInv == GuardTypes /\ SeenReached /\ LatestIsMax

LEMMA GuardInitially == GuardInit => GuardInv
  BY DEF GuardInit, GuardInv, GuardTypes, CheckState, SeenReached, LatestIsMax

LEMMA RaisePreserves ==
    ASSUME GuardInv, NEW r \in Checks, Raise(r)
    PROVE  GuardInv'
  <1> DEFINE c == check[r].created
             s == check[r].seen
  <1>1. /\ c \in Nat /\ s \in Nat /\ latest \in Nat /\ s <= latest
        /\ accepted \subseteq Nat /\ check[r] \in CheckState
    BY DEF GuardInv, GuardTypes, SeenReached, CheckState
  <1>2. CASE c > s /\ ~Swaps(r)
    <2>1. /\ check' = [check EXCEPT ![r].seen = latest]
          /\ latest' = latest /\ accepted' = accepted
      BY <1>2 DEF Raise
    <2>2. GuardTypes' /\ SeenReached'
      BY <2>1, <1>1 DEF GuardInv, GuardTypes, SeenReached, CheckState
    <2> QED
      BY <2>1, <2>2 DEF GuardInv, LatestIsMax
  <1>3. CASE ~(c > s /\ ~Swaps(r))
    <2>1. /\ check' = [check EXCEPT ![r].at = "accepted"]
          /\ latest' = IF c > s THEN c ELSE latest
          /\ accepted' = accepted \cup {c}
      BY <1>3 DEF Raise
    <2>2. c > s => latest = s
      BY <1>3 DEF Swaps
    <2>3. /\ latest' \in Nat /\ latest <= latest' /\ c <= latest'
          /\ latest' # latest => latest' = c
      BY <1>1, <2>1, <2>2
    <2>4. GuardTypes'
      BY <2>1, <2>3, <1>1 DEF GuardInv, GuardTypes, CheckState
    <2>5. \A q \in Checks : check'[q].seen = check[q].seen
      BY <2>1 DEF GuardInv, GuardTypes, CheckState
    <2>6. \A q \in Checks : check[q].seen \in Nat /\ check[q].seen <= latest
      BY DEF GuardInv, GuardTypes, SeenReached, CheckState
    <2>7. SeenReached'
      BY <2>3, <2>5, <2>6, <1>1 DEF SeenReached
    <2>8. \A x \in accepted' : x <= latest'
      BY <2>1, <2>3, <1>1 DEF GuardInv, LatestIsMax
    <2>9. latest' # 0 => latest' \in accepted'
      BY <2>1, <2>3, <1>1 DEF GuardInv, LatestIsMax
    <2> QED
      BY <2>4, <2>7, <2>8, <2>9 DEF GuardInv, LatestIsMax
  <1> QED
    BY <1>2, <1>3

LEMMA GuardStep ==
    ASSUME MaxCreated \in Nat, GuardInv, [GuardNext]_guardVars
    PROVE  GuardInv'
  <1>1. CASE UNCHANGED guardVars
    BY <1>1 DEF GuardInv, GuardTypes, SeenReached, LatestIsMax, guardVars
  <1>2. CASE WallTick
    BY <1>2 DEF GuardInv, GuardTypes, SeenReached, LatestIsMax, WallTick
  <1>3. ASSUME NEW r \in Checks, LoadLatest(r)
        PROVE  GuardInv'
    <2>1. PICK c \in 1..(MaxCreated + 1) :
            check' = [check EXCEPT ![r] = [at |-> "loaded", created |-> c, seen |-> latest]]
      BY <1>3 DEF LoadLatest
    <2>2. c \in Nat /\ latest' = latest /\ accepted' = accepted
      BY <1>3 DEF LoadLatest
    <2> QED
      BY <2>1, <2>2 DEF GuardInv, GuardTypes, SeenReached, LatestIsMax, CheckState
  <1>4. ASSUME NEW r \in Checks, RefuseLate(r)
        PROVE  GuardInv'
    BY <1>4 DEF RefuseLate, GuardInv, GuardTypes, SeenReached, LatestIsMax, CheckState
  <1>5. ASSUME NEW r \in Checks, Pass(r)
        PROVE  GuardInv'
    BY <1>5 DEF Pass, GuardInv, GuardTypes, SeenReached, LatestIsMax, CheckState
  <1>6. ASSUME NEW r \in Checks, Raise(r)
        PROVE  GuardInv'
    BY <1>6, RaisePreserves
  <1> QED
    BY <1>1, <1>2, <1>3, <1>4, <1>5, <1>6 DEF GuardNext

(* However many requests race, the word by which the next event time is    *)
(* judged is the largest one accepted (assess.go, checkCreated).           *)
THEOREM LatestExact == ASSUME MaxCreated \in Nat PROVE GuardSpec => []LatestIsMax
  <1>1. GuardInv => LatestIsMax
    BY DEF GuardInv
  <1> QED
    BY <1>1, GuardInitially, GuardStep, PTL DEF GuardSpec

-----------------------------------------------------------------------------
(***************************************************************************)
(* A Sync that was not refused finds every record put before it in the     *)
(* file, and every record is in the file or counted as dropped, for any    *)
(* number of requests and readers and any capacity.                        *)
(*                                                                         *)
(* As long as no write failed, what the channel accepted is in the file,   *)
(* in the write buffer or still in the channel (HandedSomewhere); what a   *)
(* barrier must wait for is written or ahead of it in the channel          *)
(* (DueAhead); and a reader has one barrier on its way, exactly while it   *)
(* waits (OneBarrier, BarrierWaits).  For the file itself the order        *)
(* matters: file, buffer and channel, one after the other and without the  *)
(* barriers, are what was accepted (InFile, InOrder, Queued); and each     *)
(* record put was accepted, is counted as dropped or is in put (Balanced). *)
(***************************************************************************)

Record == Putters \X Nat
PutState == [at : {"idle", "put", "drop"}, n : Nat]
SyncState == [at : {"idle", "refused", "sending", "waiting", "done"}, due : SUBSET Record]

Types == /\ put \in [Putters -> PutState]
         /\ sync \in [Syncers -> SyncState]
         /\ ch \in Seq(Record \cup (Syncers \X {0}))
         /\ buf \in Seq(Record) /\ logFile \in Seq(Record) /\ handed \in Seq(Record)
         /\ broken \in BOOLEAN

Written == Range(logFile) \cup Range(buf)
Ahead(i) == {ch[j] : j \in 1..(i - 1)}

HandedSomewhere == ~broken => Range(handed) \subseteq Written \cup Range(ch)

(* A reader that has not sent its barrier waits for accepted records.      *)
DueHanded ==
  \A s \in Syncers : sync[s].at = "sending" => sync[s].due \subseteq Range(handed)

DueAhead ==
  ~broken => \A i \in DOMAIN ch, s \in Syncers :
               ch[i][1] = s => sync[s].due \subseteq Written \cup Ahead(i)

BarrierWaits == \A i \in DOMAIN ch, s \in Syncers : ch[i][1] = s => sync[s].at = "waiting"

OneBarrier ==
  \A i, j \in DOMAIN ch : ch[i][1] \in Syncers /\ ch[i][1] = ch[j][1] => i = j

IInv == /\ Types /\ HandedSomewhere /\ DueHanded /\ DueAhead /\ BarrierWaits /\ OneBarrier
        /\ SyncSeesAll

-----------------------------------------------------------------------------
(* What sequences hold. *)

LEMMA RangeAppend ==
    ASSUME NEW S, NEW s \in Seq(S), NEW e \in S
    PROVE  Range(Append(s, e)) = Range(s) \cup {e}
  <1>1. /\ DOMAIN Append(s, e) = 1..(Len(s) + 1) /\ DOMAIN s = 1..Len(s) /\ Len(s) \in Nat
        /\ Append(s, e)[Len(s) + 1] = e
        /\ \A i \in 1..Len(s) : Append(s, e)[i] = s[i]
    OBVIOUS
  <1>2. \A i \in 1..(Len(s) + 1) : i = Len(s) + 1 \/ i \in 1..Len(s)
    BY <1>1
  <1>3. Len(s) + 1 \in 1..(Len(s) + 1) /\ \A i \in 1..Len(s) : i \in 1..(Len(s) + 1)
    BY <1>1
  <1> QED
    BY <1>1, <1>2, <1>3 DEF Range

LEMMA RangeConcat ==
    ASSUME NEW S, NEW s \in Seq(S), NEW t \in Seq(S)
    PROVE  Range(s \o t) = Range(s) \cup Range(t)
  <1>1. Range(s \o t) \subseteq Range(s) \cup Range(t)
    BY DEF Range
  <1>2. ASSUME NEW x \in Range(s)
        PROVE  x \in Range(s \o t)
    <2>1. PICK i \in DOMAIN s : x = s[i]
      BY DEF Range
    <2>2. i \in DOMAIN (s \o t) /\ (s \o t)[i] = s[i]
      BY <2>1
    <2> QED
      BY <2>1, <2>2 DEF Range
  <1>3. ASSUME NEW x \in Range(t)
        PROVE  x \in Range(s \o t)
    <2>1. PICK i \in DOMAIN t : x = t[i]
      BY DEF Range
    <2>2. Len(s) + i \in DOMAIN (s \o t) /\ (s \o t)[Len(s) + i] = t[i]
      BY <2>1
    <2> QED
      BY <2>1, <2>2 DEF Range
  <1> QED
    BY <1>1, <1>2, <1>3

LEMMA TailShifts ==
    ASSUME NEW S, NEW s \in Seq(S), s # <<>>
    PROVE  /\ Tail(s) \in Seq(S) /\ Head(s) \in S /\ Head(s) = s[1] /\ 1 \in DOMAIN s
           /\ \A i \in DOMAIN Tail(s) : /\ i \in Nat \ {0}
                                        /\ i + 1 \in DOMAIN s
                                        /\ Tail(s)[i] = s[i + 1]
           /\ Range(s) = {Head(s)} \cup Range(Tail(s))
  <1>1. /\ Tail(s) \in Seq(S) /\ Head(s) \in S /\ Head(s) = s[1] /\ 1 \in DOMAIN s
        /\ Len(Tail(s)) = Len(s) - 1
    OBVIOUS
  <1>2. \A i \in DOMAIN Tail(s) : i \in Nat \ {0} /\ i + 1 \in DOMAIN s /\ Tail(s)[i] = s[i + 1]
    OBVIOUS
  <1>3. \A i \in DOMAIN s : i = 1 \/ (i - 1 \in DOMAIN Tail(s) /\ Tail(s)[i - 1] = s[i])
    OBVIOUS
  <1>4. Range(s) = {Head(s)} \cup Range(Tail(s))
    BY <1>1, <1>2, <1>3 DEF Range
  <1> QED
    BY <1>1, <1>2, <1>4

(* The channel moves on by one: what was ahead of an item is its head or   *)
(* ahead of it still.                                                      *)
LEMMA AheadShifts ==
    ASSUME Types, ch # <<>>, ch' = Tail(ch), NEW i \in DOMAIN ch'
    PROVE  Ahead(i + 1) \subseteq {Head(ch)} \cup Ahead(i)'
  <1>1. /\ i \in Nat \ {0} /\ i + 1 \in DOMAIN ch /\ Head(ch) = ch[1]
        /\ \A j \in 1..(i + 1 - 1) : j = 1 \/ (j - 1 \in 1..(i - 1) /\ ch'[j - 1] = ch[j])
    <2>1. ch \in Seq(Record \cup (Syncers \X {0}))
      BY DEF Types
    <2> QED
      BY <2>1
  <1> QED
    BY <1>1 DEF Ahead

-----------------------------------------------------------------------------
(* The steps. *)

LEMMA LogInitially == LogInit => IInv
  <1> SUFFICES ASSUME LogInit
               PROVE  IInv
    OBVIOUS
  <1>1. Types
    <2>1. put \in [Putters -> PutState] /\ sync \in [Syncers -> SyncState]
      BY DEF LogInit, PutState, SyncState
    <2>2. \A S : <<>> \in Seq(S)
      OBVIOUS
    <2> QED
      BY <2>1, <2>2 DEF LogInit, Types
  <1>2. Range(handed) = {} /\ DOMAIN ch = {}
    BY DEF LogInit, Range
  <1> QED
    BY <1>1, <1>2 DEF LogInit, IInv, HandedSomewhere, DueHanded, DueAhead, BarrierWaits,
                      OneBarrier, SyncSeesAll

(* A step that leaves the readers, the channel and what it accepted alone, *)
(* and unless it fails keeps what was written, and keeps it in the file if *)
(* it was there.                                                           *)
LEMMA WritingPreserves ==
    ASSUME IInv, Types', UNCHANGED <<sync, ch, handed>>,
           broken => broken',
           ~broken' => Written \subseteq Written' /\ Range(logFile) \subseteq Range(logFile')
    PROVE  IInv'
  <1>1. HandedSomewhere'
    BY DEF IInv, HandedSomewhere
  <1>2. DueHanded' /\ BarrierWaits' /\ OneBarrier'
    BY DEF IInv, DueHanded, BarrierWaits, OneBarrier
  <1>3. DueAhead'
    BY DEF IInv, DueAhead, Ahead
  <1>4. SyncSeesAll'
    BY DEF IInv, SyncSeesAll
  <1> QED
    BY <1>1, <1>2, <1>3, <1>4 DEF IInv

LEMMA FlushTypes ==
    ASSUME Types, Flush
    PROVE  /\ buf' \in Seq(Record) /\ logFile' \in Seq(Record) /\ broken' \in BOOLEAN
           /\ broken => broken'
           /\ ~broken' => Range(logFile') = Written /\ Range(buf') = {}
  <1>1. CASE ~broken /\ logFile' = logFile \o buf /\ buf' = <<>> /\ UNCHANGED <<broken, errors, writeErrs>>
    <2>1. Range(logFile \o buf) = Written
      BY RangeConcat DEF Types, Written
    <2> QED
      BY <1>1, <2>1 DEF Types, Range
  <1>2. CASE broken /\ writeErrs' = writeErrs + 1 /\ UNCHANGED <<logFile, buf, broken, errors>>
    BY <1>2 DEF Types
  <1>3. CASE /\ ~broken /\ buf # <<>> /\ errors < MaxErrors
             /\ \E n \in 0..(Len(buf) - 1) : logFile' = logFile \o SubSeq(buf, 1, n)
             /\ broken' = TRUE /\ errors' = errors + 1 /\ writeErrs' = writeErrs + 1
             /\ UNCHANGED buf
    <2>1. PICK n \in 0..(Len(buf) - 1) : logFile' = logFile \o SubSeq(buf, 1, n)
      BY <1>3
    <2>2. SubSeq(buf, 1, n) \in Seq(Record)
      BY DEF Types
    <2> QED
      BY <1>3, <2>1, <2>2 DEF Types
  <1> QED
    BY <1>1, <1>2, <1>3 DEF Flush

LEMMA WriteTypes ==
    ASSUME Types, NEW r \in Record, Write(r)
    PROVE  /\ buf' \in Seq(Record) /\ logFile' \in Seq(Record) /\ broken' \in BOOLEAN
           /\ broken => broken'
           /\ ~broken' => /\ Written \cup {r} \subseteq Written'
                          /\ Range(logFile) \subseteq Range(logFile')
  <1>1. CASE ~broken /\ Len(buf) < BufSize /\ buf' = Append(buf, r) /\ UNCHANGED <<logFile, broken>>
    <2>1. Range(Append(buf, r)) = Range(buf) \cup {r}
      BY RangeAppend DEF Types
    <2> QED
      BY <1>1, <2>1 DEF Types, Written
  <1>2. CASE ~broken /\ buf' = <<r>> /\ logFile' = logFile \o buf /\ UNCHANGED broken
    <2>1. Range(logFile \o buf) = Range(logFile) \cup Range(buf)
      BY RangeConcat DEF Types
    <2>2. Range(<<r>>) = {r}
      BY DEF Range
    <2> QED
      BY <1>2, <2>1, <2>2 DEF Types, Written
  <1>3. CASE broken' = TRUE /\ UNCHANGED <<buf, logFile>>
    BY <1>3 DEF Types
  <1> QED
    BY <1>1, <1>2, <1>3 DEF Write

LEMMA PutSendPreserves ==
    ASSUME IInv, NEW p \in Putters, PutSend(p)
    PROVE  IInv'
  <1>1. UNCHANGED <<sync, buf, broken, logFile>>
    BY DEF PutSend
  <1>2. CASE put' = [put EXCEPT ![p].at = "drop"] /\ UNCHANGED <<ch, handed>>
    <2>1. Types'
      BY <1>1, <1>2 DEF IInv, Types, PutState
    <2> QED
      BY <1>1, <1>2, <2>1, WritingPreserves DEF Written
  <1>3. CASE /\ ch' = Append(ch, <<p, put[p].n>>) /\ handed' = Append(handed, <<p, put[p].n>>)
             /\ put' = [put EXCEPT ![p].at = "idle"]
    <2> DEFINE r == <<p, put[p].n>>
               All == Record \cup (Syncers \X {0})
    <2>1. /\ r \in Record /\ r \in All /\ r[1] \notin Syncers
          /\ ch \in Seq(All) /\ handed \in Seq(Record)
      BY LogAssumption DEF IInv, Types, PutState, Record
    <2>2. ch' \in Seq(All) /\ handed' \in Seq(Record) /\ put' \in [Putters -> PutState]
      BY <1>3, <2>1 DEF IInv, Types, PutState
    <2>3. Types'
      BY <1>1, <2>2 DEF IInv, Types
    <2>4. Range(ch') = Range(ch) \cup {r} /\ Range(handed') = Range(handed) \cup {r}
      <3> HIDE DEF r, All
      <3>1. ch' = Append(ch, r) /\ handed' = Append(handed, r)
        BY <1>3 DEF r
      <3>2. Range(Append(ch, r)) = Range(ch) \cup {r}
        BY <2>1, RangeAppend
      <3>3. Range(Append(handed, r)) = Range(handed) \cup {r}
        BY <2>1, RangeAppend
      <3> QED
        BY <3>1, <3>2, <3>3
    <2>5. \A i \in DOMAIN ch' : /\ i \in DOMAIN ch => ch'[i] = ch[i]
                                /\ i \notin DOMAIN ch => ch'[i] = r
                                /\ i \in Nat \ {0}
                                /\ \A j \in 1..(i - 1) : j \in DOMAIN ch /\ ch'[j] = ch[j]
      BY <1>3, <2>1
    <2>6. HandedSomewhere'
      BY <1>1, <2>4 DEF IInv, HandedSomewhere, Written
    <2>7. DueHanded'
      BY <1>1, <2>4 DEF IInv, DueHanded
    <2>8. \A i \in DOMAIN ch : Ahead(i)' = Ahead(i)
      <3>1. \A i \in DOMAIN ch : i \in DOMAIN ch'
        BY <1>3, <2>1
      <3> QED
        BY <3>1, <2>5 DEF Ahead
    <2>9. DueAhead'
      BY <1>1, <2>1, <2>5, <2>8 DEF IInv, DueAhead, Written
    <2>10. BarrierWaits' /\ OneBarrier'
      BY <1>1, <2>1, <2>5 DEF IInv, BarrierWaits, OneBarrier
    <2>11. SyncSeesAll'
      BY <1>1 DEF IInv, SyncSeesAll
    <2> QED
      BY <2>3, <2>6, <2>7, <2>9, <2>10, <2>11 DEF IInv
  <1> QED
    BY <1>2, <1>3 DEF PutSend

LEMMA SyncCallPreserves ==
    ASSUME IInv, NEW s \in Syncers, SyncCall(s)
    PROVE  IInv'
  <1>1. /\ UNCHANGED <<put, ch, buf, broken, logFile, handed>>
        /\ sync[s].at = "idle"
        /\ \/ sync' = [sync EXCEPT ![s] = [at |-> "refused", due |-> {}]]
           \/ sync' = [sync EXCEPT ![s] = [at |-> "sending", due |-> Range(handed)]]
    BY DEF SyncCall
  <1>2. Range(handed) \subseteq Record
    BY DEF IInv, Types, Range
  <1>3. Types'
    <2>1. [at |-> "refused", due |-> {}] \in SyncState /\ [at |-> "sending", due |-> Range(handed)] \in SyncState
      BY <1>2 DEF SyncState
    <2>2. sync' \in [Syncers -> SyncState]
      BY <1>1, <2>1 DEF IInv, Types
    <2> QED
      BY <1>1, <2>2 DEF IInv, Types
  <1>4. /\ \A q \in Syncers : q # s => sync'[q] = sync[q]
        /\ sync'[s].at \in {"refused", "sending"}
        /\ sync'[s].at = "sending" => sync'[s].due = Range(handed)
    BY <1>1 DEF IInv, Types
  <1>5. \A i \in DOMAIN ch : ch[i][1] # s
    BY <1>1 DEF IInv, BarrierWaits
  <1>6. HandedSomewhere' /\ DueHanded' /\ OneBarrier'
    BY <1>1, <1>4 DEF IInv, HandedSomewhere, Written, DueHanded, OneBarrier
  <1>7. DueAhead' /\ BarrierWaits'
    BY <1>1, <1>4, <1>5 DEF IInv, DueAhead, BarrierWaits, Written, Ahead
  <1>8. SyncSeesAll'
    BY <1>1, <1>4 DEF IInv, SyncSeesAll
  <1> QED
    BY <1>3, <1>6, <1>7, <1>8 DEF IInv

LEMMA SyncSendPreserves ==
    ASSUME IInv, NEW s \in Syncers, SyncSend(s)
    PROVE  IInv'
  <1> DEFINE b == <<s, 0>>
             All == Record \cup (Syncers \X {0})
  <1>1. /\ UNCHANGED <<put, buf, broken, logFile, handed>>
        /\ sync[s].at = "sending"
        /\ ch' = Append(ch, b)
        /\ sync' = [sync EXCEPT ![s].at = "waiting"]
    BY DEF SyncSend
  <1>2. b \in All /\ ch \in Seq(All) /\ ch' \in Seq(All)
    BY <1>1 DEF IInv, Types
  <1>3. Types'
    BY <1>1, <1>2 DEF IInv, Types, SyncState
  <1>4. /\ \A q \in Syncers : sync'[q].due = sync[q].due
        /\ \A q \in Syncers : q # s => sync'[q] = sync[q]
        /\ sync'[s].at = "waiting"
    BY <1>1 DEF IInv, Types, SyncState
  <1>5. \A i \in DOMAIN ch' : /\ i \in DOMAIN ch => ch'[i] = ch[i]
                              /\ i \notin DOMAIN ch => i = Len(ch) + 1 /\ ch'[i] = b
                              /\ i \in Nat \ {0}
                              /\ \A j \in 1..(i - 1) : j \in DOMAIN ch /\ ch'[j] = ch[j]
    BY <1>1, <1>2
  <1>6. Range(ch') = Range(ch) \cup {b}
    <2> HIDE DEF b, All
    <2>1. Range(Append(ch, b)) = Range(ch) \cup {b}
      BY <1>2, RangeAppend
    <2> QED
      BY <1>1, <2>1
  <1>7. \A i \in DOMAIN ch : ch[i][1] # s
    BY <1>1 DEF IInv, BarrierWaits
  <1>8. HandedSomewhere' /\ DueHanded'
    BY <1>1, <1>4, <1>6 DEF IInv, HandedSomewhere, Written, DueHanded
  <1>9. \A i \in DOMAIN ch : Ahead(i)' = Ahead(i)
    <2>1. \A i \in DOMAIN ch : i \in DOMAIN ch'
      BY <1>1, <1>2
    <2> QED
      BY <2>1, <1>5 DEF Ahead
  <1>10. \A i \in DOMAIN ch' : i \notin DOMAIN ch => Range(ch) \subseteq Ahead(i)'
    <2> SUFFICES ASSUME NEW i \in DOMAIN ch', i \notin DOMAIN ch, NEW x \in Range(ch)
                 PROVE  x \in Ahead(i)'
      OBVIOUS
    <2>1. PICK j \in DOMAIN ch : x = ch[j]
      BY DEF Range
    <2>2. j \in 1..(i - 1)
      BY <1>2, <1>5
    <2> QED
      BY <2>1, <2>2, <1>5 DEF Ahead
  <1>11. DueAhead'
    <2> SUFFICES ASSUME ~broken, NEW i \in DOMAIN ch', NEW q \in Syncers, ch'[i][1] = q
                 PROVE  sync'[q].due \subseteq Written' \cup Ahead(i)'
      BY <1>1 DEF DueAhead
    <2>1. CASE i \in DOMAIN ch
      BY <2>1, <1>1, <1>4, <1>5, <1>9 DEF IInv, DueAhead, Written
    <2>2. CASE i \notin DOMAIN ch
      <3>1. q = s
        BY <2>2, <1>5
      <3>2. sync[s].due \subseteq Written \cup Range(ch)
        BY <1>1 DEF IInv, DueHanded, HandedSomewhere
      <3> QED
        BY <3>1, <3>2, <2>2, <1>1, <1>4, <1>10 DEF Written
    <2> QED
      BY <2>1, <2>2
  <1>12. BarrierWaits' /\ OneBarrier'
    BY <1>4, <1>5, <1>7 DEF IInv, BarrierWaits, OneBarrier
  <1>13. SyncSeesAll'
    BY <1>1, <1>4 DEF IInv, SyncSeesAll
  <1> QED
    BY <1>3, <1>8, <1>11, <1>12, <1>13 DEF IInv

LEMMA WriterTakePreserves ==
    ASSUME IInv, WriterTake
    PROVE  IInv'
  <1> DEFINE r == Head(ch)
             All == Record \cup (Syncers \X {0})
  <1>1. /\ ch # <<>> /\ r[1] \notin Syncers /\ ch' = Tail(ch)
        /\ Write(r) /\ UNCHANGED <<put, sync, handed>>
    BY DEF WriterTake, IsBarrier
  <1>2. ch \in Seq(All)
    BY DEF IInv, Types
  <1>3. /\ ch' \in Seq(All) /\ r \in All /\ r = ch[1]
        /\ \A i \in DOMAIN ch' : i \in Nat \ {0} /\ i + 1 \in DOMAIN ch /\ ch'[i] = ch[i + 1]
        /\ Range(ch) = {r} \cup Range(ch')
    BY <1>1, <1>2, TailShifts
  <1>4. r \in Record
    BY <1>1, <1>3
  <1>5. /\ buf' \in Seq(Record) /\ logFile' \in Seq(Record) /\ broken' \in BOOLEAN
        /\ broken => broken'
        /\ ~broken' => /\ Written \cup {r} \subseteq Written'
                       /\ Range(logFile) \subseteq Range(logFile')
    BY <1>1, <1>4, WriteTypes DEF IInv
  <1>6. Types'
    BY <1>1, <1>3, <1>5 DEF IInv, Types
  <1>7. HandedSomewhere'
    BY <1>1, <1>3, <1>5 DEF IInv, HandedSomewhere
  <1>8. DueHanded' /\ SyncSeesAll'
    BY <1>1, <1>5 DEF IInv, DueHanded, SyncSeesAll
  <1>9. BarrierWaits' /\ OneBarrier'
    BY <1>1, <1>3 DEF IInv, BarrierWaits, OneBarrier
  <1>10. DueAhead'
    <2> SUFFICES ASSUME ~broken', NEW i \in DOMAIN ch', NEW q \in Syncers, ch'[i][1] = q
                 PROVE  sync'[q].due \subseteq Written' \cup Ahead(i)'
      BY DEF DueAhead
    <2>1. sync[q].due \subseteq Written \cup Ahead(i + 1)
      BY <1>3, <1>5 DEF IInv, DueAhead
    <2>2. Ahead(i + 1) \subseteq {r} \cup Ahead(i)'
      BY <1>1, AheadShifts DEF IInv
    <2> QED
      BY <2>1, <2>2, <1>1, <1>5
  <1> QED
    BY <1>6, <1>7, <1>8, <1>9, <1>10 DEF IInv

LEMMA WriterBarrierPreserves ==
    ASSUME IInv, WriterBarrier
    PROVE  IInv'
  <1> DEFINE b == Head(ch)
             s == b[1]
             All == Record \cup (Syncers \X {0})
  <1>1. /\ ch # <<>> /\ s \in Syncers /\ ch' = Tail(ch)
        /\ Flush /\ UNCHANGED <<put, handed>>
        /\ sync' = [sync EXCEPT ![s].at = "done"]
    BY DEF WriterBarrier, IsBarrier, BarrierFlush
  <1>2. ch \in Seq(All)
    BY DEF IInv, Types
  <1>3. /\ ch' \in Seq(All) /\ b \in All /\ b = ch[1] /\ 1 \in DOMAIN ch
        /\ \A i \in DOMAIN ch' : i \in Nat \ {0} /\ i + 1 \in DOMAIN ch /\ ch'[i] = ch[i + 1]
        /\ Range(ch) = {b} \cup Range(ch')
    BY <1>1, <1>2, TailShifts
  <1>4. b \notin Record
    BY <1>1, LogAssumption DEF Record
  <1>5. /\ buf' \in Seq(Record) /\ logFile' \in Seq(Record) /\ broken' \in BOOLEAN
        /\ broken => broken'
        /\ ~broken' => Range(logFile') = Written /\ Range(buf') = {}
    BY <1>1, FlushTypes DEF IInv
  <1>6. ~broken' => Written' = Written
    BY <1>5 DEF Written
  <1>7. Types'
    <2>1. [sync[s] EXCEPT !.at = "done"] \in SyncState
      <3>1. sync[s] \in SyncState
        BY <1>1 DEF IInv, Types
      <3> QED
        BY <3>1 DEF SyncState
    <2>2. sync' \in [Syncers -> SyncState]
      BY <1>1, <2>1 DEF IInv, Types
    <2> QED
      BY <1>1, <1>3, <1>5, <2>2 DEF IInv, Types
  <1>8. /\ \A q \in Syncers : sync'[q].due = sync[q].due /\ sync[q].due \subseteq Record
        /\ \A q \in Syncers : q # s => sync'[q] = sync[q]
        /\ sync'[s].at = "done"
    BY <1>1 DEF IInv, Types, SyncState
  <1>9. HandedSomewhere'
    <2>1. Range(handed) \subseteq Record
      BY DEF IInv, Types, Range
    <2> QED
      BY <2>1, <1>1, <1>3, <1>4, <1>5, <1>6 DEF IInv, HandedSomewhere
  <1>10. DueHanded'
    BY <1>1, <1>8 DEF IInv, DueHanded
  <1>11. \A i \in DOMAIN ch' : ch'[i][1] # s
    BY <1>1, <1>3 DEF IInv, OneBarrier
  <1>12. BarrierWaits' /\ OneBarrier'
    BY <1>3, <1>8, <1>11 DEF IInv, BarrierWaits, OneBarrier
  <1>13. DueAhead'
    <2> SUFFICES ASSUME ~broken', NEW i \in DOMAIN ch', NEW q \in Syncers, ch'[i][1] = q
                 PROVE  sync'[q].due \subseteq Written' \cup Ahead(i)'
      BY DEF DueAhead
    <2>1. sync[q].due \subseteq Written \cup Ahead(i + 1)
      BY <1>3, <1>5 DEF IInv, DueAhead
    <2>2. Ahead(i + 1) \subseteq {b} \cup Ahead(i)'
      BY <1>1, AheadShifts DEF IInv
    <2> QED
      BY <2>1, <2>2, <1>4, <1>6, <1>8
  <1>14. SyncSeesAll'
    <2> SUFFICES ASSUME NEW q \in Syncers, sync'[q].at = "done", ~broken'
                 PROVE  sync'[q].due \subseteq Range(logFile')
      BY DEF SyncSeesAll
    <2>1. CASE q = s
      <3>1. Ahead(1) = {}
        BY DEF Ahead
      <3>2. sync[s].due \subseteq Written \cup Ahead(1)
        BY <1>1, <1>3, <1>5 DEF IInv, DueAhead
      <3> QED
        BY <2>1, <3>1, <3>2, <1>5, <1>8
    <2>2. CASE q # s
      BY <2>2, <1>5, <1>8 DEF IInv, SyncSeesAll, Written
    <2> QED
      BY <2>1, <2>2
  <1> QED
    BY <1>7, <1>9, <1>10, <1>12, <1>13, <1>14 DEF IInv

LEMMA CloseEndPreserves ==
    ASSUME IInv, CloseEnd
    PROVE  IInv'
  <1>1. UNCHANGED <<put, sync, ch, handed>>
    BY DEF CloseEnd
  <1>2. CASE ~broken /\ logFile' = FileAtClose /\ buf' = <<>> /\ UNCHANGED broken
    <2>1. logFile' = logFile \o buf
      BY <1>2 DEF FileAtClose
    <2>2. Range(logFile') = Written
      BY <2>1, RangeConcat DEF IInv, Types, Written
    <2>3. Types'
      BY <1>1, <1>2, <2>1 DEF IInv, Types
    <2> QED
      BY <1>1, <1>2, <2>2, <2>3, WritingPreserves DEF Written
  <1>3. CASE broken' /\ UNCHANGED <<logFile, buf>>
    <2>1. Types'
      BY <1>1, <1>3 DEF IInv, Types, CloseEnd
    <2> QED
      BY <1>1, <1>3, <2>1, WritingPreserves
  <1> QED
    BY <1>2, <1>3 DEF CloseEnd

LEMMA LogStep ==
    ASSUME IInv, [LogNext]_logVars
    PROVE  IInv'
  <1>1. ASSUME UNCHANGED <<sync, ch, handed, buf, broken, logFile>>, put' \in [Putters -> PutState]
        PROVE  IInv'
    <2>1. Types'
      BY <1>1 DEF IInv, Types
    <2> QED
      BY <1>1, <2>1, WritingPreserves DEF Written
  <1>2. CASE UNCHANGED logVars
    BY <1>1, <1>2 DEF logVars, IInv, Types
  <1>3. ASSUME NEW p \in Putters, PutCall(p)
        PROVE  IInv'
    <2>1. put' = [put EXCEPT ![p] = [at |-> "put", n |-> put[p].n + 1]]
      BY <1>3 DEF PutCall, IInv, Types
    <2>2. put' \in [Putters -> PutState]
      BY <2>1 DEF IInv, Types, PutState
    <2> QED
      BY <1>1, <1>3, <2>2 DEF PutCall
  <1>4. ASSUME NEW p \in Putters, PutDrop(p)
        PROVE  IInv'
    <2>1. put' \in [Putters -> PutState]
      BY <1>4 DEF PutDrop, IInv, Types, PutState
    <2> QED
      BY <1>1, <1>4, <2>1 DEF PutDrop
  <1>5. CASE WriterTick
    <2>1. /\ UNCHANGED <<put, sync, ch, handed>>
          /\ buf' \in Seq(Record) /\ logFile' \in Seq(Record) /\ broken' \in BOOLEAN
          /\ broken => broken'
          /\ ~broken' => Range(logFile') = Written /\ Range(buf') = {}
      BY <1>5, FlushTypes DEF WriterTick, IInv
    <2>2. Types'
      BY <2>1 DEF IInv, Types
    <2> QED
      BY <2>1, <2>2, WritingPreserves DEF Written
  <1>6. CASE WriterExit \/ CloseCall \/ CloseLock
    BY <1>1, <1>6 DEF WriterExit, CloseCall, CloseLock, IInv, Types
  <1> QED
    BY <1>2, <1>3, <1>4, <1>5, <1>6, PutSendPreserves, SyncCallPreserves, SyncSendPreserves,
       WriterTakePreserves, WriterBarrierPreserves, CloseEndPreserves
       DEF LogNext, Putting, Writer

(* A reader of the file that called Sync finds every record handed over    *)
(* before, unless the disk failed or the log was closed first              *)
(* (decisionlog.go, Sync).                                                 *)
THEOREM SyncComplete == LogSpec => []SyncSeesAll
  <1>1. IInv => SyncSeesAll
    BY DEF IInv
  <1> QED
    BY <1>1, LogInitially, LogStep, PTL DEF LogSpec

-----------------------------------------------------------------------------
(***************************************************************************)
(* Every record is accounted for.                                          *)
(*                                                                         *)
(* While no write failed, the file and the write buffer hold the records   *)
(* the channel accepted up to the last one taken, and the channel holds    *)
(* the others in the order it accepted them (InOrder, Queued): so the      *)
(* record taken next is the next one accepted.  Once a write fails the     *)
(* file stays the part of them it was (InFile).  A request numbers its     *)
(* records, so no two are the same (Numbered).                             *)
(***************************************************************************)
Called == UNION {{p} \X (1..put[p].n) : p \in Putters}
Pending == {p \in Putters : put[p].at # "idle"}

Counters == written \in Nat /\ dropped \in Nat /\ errors \in Nat /\ (broken => errors > 0)

Phases ==
  /\ close \in {"open", "locking", "draining", "closed"}
  /\ closed <=> close \in {"draining", "closed"}
  /\ closed => Readers = {}
  /\ writer = "done" => closed /\ ch = <<>>
  /\ close = "closed" => writer = "done" /\ (broken \/ buf = <<>>)

(* a is what b has at the positions after n. *)
Matches(a, b, n) == n + Len(a) <= Len(b) /\ \A i \in 1..Len(a) : a[i] = b[n + i]

InFile == Matches(logFile, handed, 0)
InOrder == ~broken => Matches(buf, handed, Len(logFile)) /\ written = Len(logFile) + Len(buf)

(* The records of the channel c are those of h after the first n, in their *)
(* order.                                                                  *)
Holds(c, h, n) ==
  /\ \A k \in DOMAIN h : k > n => \E i \in DOMAIN c : c[i] = h[k]
  /\ \A i \in DOMAIN c : c[i][1] \in Syncers \/ \E k \in DOMAIN h : k > n /\ c[i] = h[k]
  /\ \A i, j \in DOMAIN c, k, l \in DOMAIN h : i < j /\ c[i] = h[k] /\ c[j] = h[l] => k < l

Queued == ~broken => Holds(ch, handed, written)

Numbered ==
  /\ \A k \in DOMAIN handed : LET r == handed[k]
                              IN  /\ r[2] <= put[r[1]].n
                                  /\ put[r[1]].at = "put" => r[2] < put[r[1]].n
  /\ \A k, l \in DOMAIN handed : handed[k] = handed[l] => k = l

Balanced ==
  /\ IsFiniteSet(Called)
  /\ Cardinality(Called) = Len(handed) + dropped + Cardinality(Pending)

AInv == /\ Counters /\ Phases /\ InFile /\ InOrder /\ Queued /\ Numbered /\ Balanced

LEMMA MatchesAppend ==
    ASSUME NEW S, NEW a \in Seq(S), NEW b \in Seq(S), NEW n \in Nat, Matches(a, b, n), NEW r \in S
    PROVE  /\ Matches(a, Append(b, r), n)
           /\ n + Len(a) + 1 <= Len(b) /\ b[n + Len(a) + 1] = r => Matches(Append(a, r), b, n)
  <1>1. Matches(a, Append(b, r), n)
    <2>1. /\ Len(Append(b, r)) = Len(b) + 1 /\ Len(a) \in Nat /\ Len(b) \in Nat
          /\ \A i \in 1..Len(b) : Append(b, r)[i] = b[i]
      OBVIOUS
    <2>2. \A i \in 1..Len(a) : n + i \in 1..Len(b)
      BY <2>1 DEF Matches
    <2> QED
      BY <2>1, <2>2 DEF Matches
  <1>2. ASSUME n + Len(a) + 1 <= Len(b), b[n + Len(a) + 1] = r
        PROVE  Matches(Append(a, r), b, n)
    <2>1. /\ Len(Append(a, r)) = Len(a) + 1 /\ Len(a) \in Nat
          /\ \A i \in 1..(Len(a) + 1) : i \in 1..Len(a) \/ i = Len(a) + 1
          /\ \A i \in 1..Len(a) : Append(a, r)[i] = a[i]
          /\ Append(a, r)[Len(a) + 1] = r
      OBVIOUS
    <2>2. n + (Len(a) + 1) = n + Len(a) + 1
      BY <2>1
    <2> QED
      BY <1>2, <2>1, <2>2 DEF Matches
  <1> QED
    BY <1>1, <1>2

LEMMA MatchesConcat ==
    ASSUME NEW S, NEW a \in Seq(S), NEW c \in Seq(S), NEW b \in Seq(S),
           Matches(a, b, 0), Matches(c, b, Len(a)), NEW m \in 0..Len(c)
    PROVE  Matches(a \o SubSeq(c, 1, m), b, 0)
  <1> DEFINE d == SubSeq(c, 1, m)
  <1>1. /\ d \in Seq(S) /\ Len(d) = m /\ \A i \in 1..m : d[i] = c[i] /\ i \in 1..Len(c)
        /\ Len(a) \in Nat /\ Len(c) \in Nat
    OBVIOUS
  <1> HIDE DEF d
  <1>2. /\ Len(a \o d) = Len(a) + m
        /\ \A i \in 1..Len(a) : (a \o d)[i] = a[i]
        /\ \A i \in 1..(Len(a) + m) : i \notin 1..Len(a) =>
             i - Len(a) \in 1..m /\ (a \o d)[i] = d[i - Len(a)] /\ Len(a) + (i - Len(a)) = i
    <2> DEFINE n == Len(a)
    <2>1. /\ n \in Nat /\ m \in Nat /\ Len(a \o d) = n + m
          /\ \A i \in 1..(n + m) : (a \o d)[i] = IF i <= n THEN a[i] ELSE d[i - n]
      <3>1. /\ d \in Seq(S) /\ Len(d) = m /\ n \in Nat /\ m \in Nat
        BY <1>1
      <3>2. /\ Len(a \o d) = Len(a) + Len(d)
            /\ \A i \in 1..(Len(a) + Len(d)) :
                  (a \o d)[i] = IF i <= Len(a) THEN a[i] ELSE d[i - Len(a)]
        BY <3>1, ConcatProperties
      <3> HIDE DEF d
      <3> QED BY <3>1, <3>2
    <2> HIDE DEF n
    <2>2. /\ \A i \in 1..n : i \in 1..(n + m) /\ i <= n
          /\ \A i \in 1..(n + m) : i \notin 1..n =>
                ~(i <= n) /\ i - n \in 1..m /\ n + (i - n) = i
      BY <2>1
    <2>3. Len(a \o d) = n + m
      BY <2>1
    <2>4. \A i \in 1..n : (a \o d)[i] = a[i]
      BY <2>1, <2>2
    <2>5. \A i \in 1..(n + m) : i \notin 1..n =>
             i - n \in 1..m /\ (a \o d)[i] = d[i - n] /\ n + (i - n) = i
      BY <2>1, <2>2
    <2> QED BY <2>3, <2>4, <2>5 DEF n
  <1>3. \A i \in 1..(Len(a) + m) : (a \o d)[i] = b[0 + i]
    <2> SUFFICES ASSUME NEW i \in 1..(Len(a) + m)
                 PROVE  (a \o d)[i] = b[0 + i]
      OBVIOUS
    <2>1. CASE i \in 1..Len(a)
      BY <1>2, <2>1 DEF Matches
    <2>2. CASE i \notin 1..Len(a)
      <3>1. b[Len(a) + (i - Len(a))] = c[i - Len(a)]
        BY <1>1, <1>2, <2>2 DEF Matches
      <3> QED
        BY <1>1, <1>2, <2>2, <3>1
    <2> QED
      BY <2>1, <2>2
  <1>4. 0 + Len(a \o d) <= Len(b)
    BY <1>1, <1>2 DEF Matches
  <1> QED
    BY <1>2, <1>3, <1>4 DEF Matches, d

Item == Record \cup (Syncers \X {0})
Distinct(h) == \A k, l \in DOMAIN h : h[k] = h[l] => k = l

LEMMA ItemKinds ==
    ASSUME NEW r \in Item
    PROVE  r[1] \in Syncers <=> r \notin Record
  BY LogAssumption DEF Item, Record

(* Appending e to s. *)
Appended(s, e, t) ==
  /\ Len(s) + 1 \in DOMAIN t /\ t[Len(s) + 1] = e
  /\ \A i \in DOMAIN s : i \in DOMAIN t /\ t[i] = s[i] /\ i < Len(s) + 1
  /\ \A i \in DOMAIN t : i \in DOMAIN s \/ i = Len(s) + 1

LEMMA AppendIs ==
    ASSUME NEW S, NEW s \in Seq(S), NEW e \in S
    PROVE  Appended(s, e, Append(s, e)) /\ Len(s) \in Nat /\ DOMAIN s \subseteq Nat
  BY DEF Appended

LEMMA HoldsAppend ==
    ASSUME NEW c \in Seq(Item), NEW h \in Seq(Record), NEW n \in 0..Len(h), Holds(c, h, n),
           NEW r \in Record, \A k \in DOMAIN h : h[k] # r
    PROVE  Holds(Append(c, r), Append(h, r), n)
  <1> DEFINE c2 == Append(c, r)
             h2 == Append(h, r)
             ic == Len(c) + 1
             kh == Len(h) + 1
  <1>1. r \in Item /\ n < kh
    BY DEF Item
  <1>2. /\ Appended(c, r, c2) /\ Appended(h, r, h2) /\ Len(c) \in Nat /\ Len(h) \in Nat
        /\ DOMAIN c \subseteq Nat /\ DOMAIN h \subseteq Nat
    BY <1>1, AppendIs
  <1>3. /\ ic \in DOMAIN c2 /\ c2[ic] = r /\ ic \notin DOMAIN c
        /\ \A i \in DOMAIN c : i \in DOMAIN c2 /\ c2[i] = c[i] /\ i < ic
        /\ \A i \in DOMAIN c2 : i \in DOMAIN c \/ i = ic
        /\ kh \in DOMAIN h2 /\ h2[kh] = r /\ kh \notin DOMAIN h
        /\ \A k \in DOMAIN h : k \in DOMAIN h2 /\ h2[k] = h[k] /\ k < kh
        /\ \A k \in DOMAIN h2 : k \in DOMAIN h \/ k = kh
    BY <1>2 DEF Appended
  <1> HIDE DEF c2, h2, ic, kh
  <1>4. \A i \in DOMAIN c : c[i] # r
    <2>1. \A i \in DOMAIN c : c[i] \in Item
      OBVIOUS
    <2>2. r[1] \notin Syncers
      BY <1>1, ItemKinds
    <2> QED
      BY <2>1, <2>2 DEF Holds
  <1>5. \A k \in DOMAIN h2 : k > n => \E i \in DOMAIN c2 : c2[i] = h2[k]
    <2> SUFFICES ASSUME NEW k \in DOMAIN h2, k > n
                 PROVE  \E i \in DOMAIN c2 : c2[i] = h2[k]
      OBVIOUS
    <2>1. CASE k = kh
      BY <1>3, <2>1
    <2>2. CASE k \in DOMAIN h
      <3>1. PICK i \in DOMAIN c : c[i] = h[k]
        BY <2>2 DEF Holds
      <3> QED
        BY <1>3, <2>2, <3>1
    <2> QED
      BY <1>3, <2>1, <2>2
  <1>6. \A i \in DOMAIN c2 : c2[i][1] \in Syncers \/ \E k \in DOMAIN h2 : k > n /\ c2[i] = h2[k]
    <2> SUFFICES ASSUME NEW i \in DOMAIN c2, c2[i][1] \notin Syncers
                 PROVE  \E k \in DOMAIN h2 : k > n /\ c2[i] = h2[k]
      OBVIOUS
    <2>1. CASE i = ic
      <3>1. kh > n
        BY <1>1, <1>2 DEF kh
      <3> QED
        BY <1>3, <2>1, <3>1
    <2>2. CASE i \in DOMAIN c
      <3>1. PICK k \in DOMAIN h : k > n /\ c[i] = h[k]
        BY <1>3, <2>2 DEF Holds
      <3> QED
        BY <1>3, <2>2, <3>1
    <2> QED
      BY <1>3, <2>1, <2>2
  <1>7. ASSUME NEW i \in DOMAIN c2, NEW j \in DOMAIN c2, NEW k \in DOMAIN h2, NEW l \in DOMAIN h2,
               i < j, c2[i] = h2[k], c2[j] = h2[l]
        PROVE  k < l
    <2>1. i \in DOMAIN c
      <3>1. CASE j \in DOMAIN c
        <4>1. j < ic /\ i < ic
          BY <1>2, <1>3, <1>7, <3>1 DEF ic
        <4> QED
          BY <1>3, <4>1, <1>2 DEF ic
      <3>2. CASE j = ic
        BY <1>2, <1>3, <1>7, <3>2 DEF ic
      <3> QED
        BY <1>3, <3>1, <3>2
    <2>2. c2[i] # r /\ c2[i] = c[i]
      BY <1>3, <1>4, <2>1
    <2>3. k \in DOMAIN h /\ h2[k] = h[k]
      BY <1>3, <1>7, <2>2
    <2>4. CASE j = ic
      <3>1. l \notin DOMAIN h
        BY <1>3, <1>7, <2>4
      <3>2. l = kh
        BY <1>3, <3>1
      <3> QED
        BY <1>3, <2>3, <3>2
    <2>5. CASE j \in DOMAIN c
      <3>1. c2[j] # r /\ c2[j] = c[j]
        BY <1>3, <1>4, <2>5
      <3>2. l \in DOMAIN h /\ h2[l] = h[l]
        BY <1>3, <1>7, <3>1
      <3> QED
        BY <1>7, <2>1, <2>2, <2>3, <2>5, <3>1, <3>2 DEF Holds
    <2> QED
      BY <1>3, <2>4, <2>5
  <1> QED
    BY <1>5, <1>6, <1>7 DEF Holds, c2, h2

LEMMA HoldsBarrier ==
    ASSUME NEW c \in Seq(Item), NEW h \in Seq(Record), NEW n \in Nat, Holds(c, h, n),
           NEW b \in Item, b[1] \in Syncers
    PROVE  Holds(Append(c, b), h, n)
  <1> DEFINE c2 == Append(c, b)
             ic == Len(c) + 1
  <1>1. /\ Appended(c, b, c2) /\ \A k \in DOMAIN h : h[k] # b
    BY AppendIs, ItemKinds
  <1>2. /\ c2[ic] = b
        /\ \A i \in DOMAIN c : i \in DOMAIN c2 /\ c2[i] = c[i]
        /\ \A i \in DOMAIN c2 : i \in DOMAIN c \/ i = ic
    BY <1>1 DEF Appended
  <1> HIDE DEF c2, ic
  <1>3. \A k \in DOMAIN h : k > n => \E i \in DOMAIN c2 : c2[i] = h[k]
    <2> SUFFICES ASSUME NEW k \in DOMAIN h, k > n
                 PROVE  \E i \in DOMAIN c2 : c2[i] = h[k]
      OBVIOUS
    <2>1. PICK i \in DOMAIN c : c[i] = h[k]
      BY DEF Holds
    <2> QED
      BY <1>2, <2>1
  <1>4. \A i \in DOMAIN c2 : c2[i][1] \in Syncers \/ \E k \in DOMAIN h : k > n /\ c2[i] = h[k]
    BY <1>2 DEF Holds
  <1>5. \A i, j \in DOMAIN c2, k, l \in DOMAIN h : i < j /\ c2[i] = h[k] /\ c2[j] = h[l] => k < l
    BY <1>1, <1>2 DEF Holds
  <1> QED
    BY <1>3, <1>4, <1>5 DEF Holds, c2

LEMMA HoldsTake ==
    ASSUME NEW c \in Seq(Item), NEW h \in Seq(Record), NEW n \in 0..Len(h), Holds(c, h, n), Distinct(h),
           c # <<>>
    PROVE  /\ Head(c)[1] \in Syncers => Holds(Tail(c), h, n)
           /\ Head(c)[1] \notin Syncers => /\ n + 1 \in 0..Len(h) /\ h[n + 1] = Head(c)
                                           /\ Holds(Tail(c), h, n + 1)
  <1> DEFINE t == Tail(c)
  <1>1. /\ Head(c) = c[1] /\ 1 \in DOMAIN c
        /\ \A i \in DOMAIN t : i \in Nat \ {0} /\ i + 1 \in DOMAIN c /\ t[i] = c[i + 1]
        /\ \A i \in DOMAIN c : i = 1 \/ (i - 1 \in DOMAIN t /\ t[i - 1] = c[i])
        /\ DOMAIN c \subseteq Nat \ {0} /\ DOMAIN h = 1..Len(h) /\ Len(h) \in Nat
    <2>1. \A i \in DOMAIN t : i \in Nat \ {0} /\ i + 1 \in DOMAIN c /\ t[i] = c[i + 1]
      BY TailShifts
    <2>2. \A i \in DOMAIN c : i = 1 \/ (i - 1 \in DOMAIN t /\ t[i - 1] = c[i])
      OBVIOUS
    <2> QED
      BY <2>1, <2>2
  <1> HIDE DEF t
  <1>2. \A i, j \in DOMAIN t, k, l \in DOMAIN h : i < j /\ t[i] = h[k] /\ t[j] = h[l] => k < l
    BY <1>1 DEF Holds
  <1>3. ASSUME c[1][1] \in Syncers
        PROVE  Holds(t, h, n)
    <2>1. \A k \in DOMAIN h : h[k] # c[1]
      <3>1. c[1] \in Item
        BY <1>1
      <3> QED
        BY <1>3, <3>1, ItemKinds
    <2>2. \A k \in DOMAIN h : k > n => \E i \in DOMAIN t : t[i] = h[k]
      <3> SUFFICES ASSUME NEW k \in DOMAIN h, k > n
                   PROVE  \E i \in DOMAIN t : t[i] = h[k]
        OBVIOUS
      <3>1. PICK i \in DOMAIN c : c[i] = h[k]
        BY DEF Holds
      <3>2. i # 1
        BY <2>1, <3>1
      <3> QED
        BY <1>1, <3>1, <3>2
    <2>3. \A i \in DOMAIN t : t[i][1] \in Syncers \/ \E k \in DOMAIN h : k > n /\ t[i] = h[k]
      BY <1>1 DEF Holds
    <2> QED
      BY <1>2, <2>2, <2>3 DEF Holds
  <1>4. ASSUME c[1][1] \notin Syncers
        PROVE  n + 1 \in 0..Len(h) /\ h[n + 1] = c[1] /\ Holds(t, h, n + 1)
    <2>1. PICK k1 \in DOMAIN h : k1 > n /\ c[1] = h[k1]
      BY <1>1, <1>4 DEF Holds
    <2>2. n + 1 \in DOMAIN h /\ n + 1 \in 0..Len(h)
      BY <1>1, <2>1
    <2>3. PICK i1 \in DOMAIN c : c[i1] = h[n + 1]
      <3>1. n + 1 > n
        OBVIOUS
      <3> QED
        BY <2>2, <3>1 DEF Holds
    <2>4. i1 = 1
      <3>1. SUFFICES ASSUME 1 < i1
                     PROVE  FALSE
        BY <1>1
      <3>2. k1 < n + 1
        BY <1>1, <2>1, <2>2, <2>3, <3>1 DEF Holds
      <3> QED
        BY <1>1, <2>1, <3>2
    <2>5. h[n + 1] = c[1]
      BY <2>3, <2>4
    <2>6. \A k \in DOMAIN h : k > n + 1 => \E i \in DOMAIN t : t[i] = h[k]
      <3> SUFFICES ASSUME NEW k \in DOMAIN h, k > n + 1
                   PROVE  \E i \in DOMAIN t : t[i] = h[k]
        OBVIOUS
      <3>0. k > n
        BY <1>1
      <3>1. PICK i \in DOMAIN c : c[i] = h[k]
        BY <3>0 DEF Holds
      <3>2. i # 1
        <4>1. h[k] # h[n + 1]
          <5>1. k # n + 1
            BY <1>1
          <5> QED
            BY <2>2, <5>1 DEF Distinct
        <4> QED
          BY <2>5, <3>1, <4>1
      <3> QED
        BY <1>1, <3>1, <3>2
    <2>7. \A i \in DOMAIN t : t[i][1] \in Syncers \/ \E k \in DOMAIN h : k > n + 1 /\ t[i] = h[k]
      <3> SUFFICES ASSUME NEW i \in DOMAIN t, t[i][1] \notin Syncers
                   PROVE  \E k \in DOMAIN h : k > n + 1 /\ t[i] = h[k]
        OBVIOUS
      <3>1. PICK k \in DOMAIN h : k > n /\ c[i + 1] = h[k]
        BY <1>1 DEF Holds
      <3>2. 1 < i + 1
        BY <1>1
      <3>3. n + 1 < k
        BY <1>1, <2>2, <2>5, <3>1, <3>2 DEF Holds
      <3> QED
        BY <1>1, <3>1, <3>3
    <2> QED
      BY <1>2, <2>2, <2>5, <2>6, <2>7 DEF Holds
  <1> QED
    BY <1>1, <1>3, <1>4 DEF t

-----------------------------------------------------------------------------
(* The steps of the log.                                                   *)

(* The requests' records, when none is put.                                *)
LEMMA StepKeepsCounts ==
    ASSUME AInv, UNCHANGED <<put, handed, dropped>>
    PROVE  Numbered' /\ Balanced'
  BY DEF AInv, Numbered, Balanced, Called, Pending

(* What a step of a request does to the requests' records.                 *)
LEMMA PendingOne ==
    ASSUME put \in [Putters -> PutState], NEW p \in Putters, NEW s, put' = [put EXCEPT ![p] = s]
    PROVE  /\ IsFiniteSet(Pending) /\ Cardinality(Pending) \in Nat
           /\ put[p].at = "idle" /\ s.at # "idle" => Cardinality(Pending') = Cardinality(Pending) + 1
           /\ put[p].at # "idle" /\ s.at = "idle" => Cardinality(Pending) = Cardinality(Pending') + 1
           /\ put[p].at # "idle" /\ s.at # "idle" => Pending' = Pending
  <1>1. put'[p] = s /\ \A q \in Putters : q # p => put'[q] = put[q]
    OBVIOUS
  <1>2. IsFiniteSet(Pending) /\ Cardinality(Pending) \in Nat
    BY LogAssumption, FS_Subset, FS_CardinalityType DEF Pending
  <1>3. ASSUME put[p].at = "idle", s.at # "idle"
        PROVE  Cardinality(Pending') = Cardinality(Pending) + 1
    <2>1. Pending' = Pending \cup {p} /\ p \notin Pending
      BY <1>1, <1>3 DEF Pending
    <2> QED
      BY <1>2, <2>1, FS_AddElement
  <1>4. ASSUME put[p].at # "idle", s.at = "idle"
        PROVE  Cardinality(Pending) = Cardinality(Pending') + 1
    <2>1. Pending' = Pending \ {p} /\ p \in Pending
      BY <1>1, <1>4 DEF Pending
    <2>2. Cardinality(Pending') = Cardinality(Pending) - 1
      BY <1>2, <2>1, FS_RemoveElement
    <2> QED
      BY <1>2, <2>2
  <1>5. put[p].at # "idle" /\ s.at # "idle" => Pending' = Pending
    BY <1>1 DEF Pending
  <1> QED
    BY <1>2, <1>3, <1>4, <1>5

LEMMA CalledSame ==
    ASSUME put \in [Putters -> PutState], NEW p \in Putters, NEW s, put' = [put EXCEPT ![p] = s],
           s.n = put[p].n
    PROVE  Called' = Called
  <1>1. \A q \in Putters : put'[q].n = put[q].n
    OBVIOUS
  <1> QED
    BY <1>1 DEF Called

LEMMA CalledOne ==
    ASSUME put \in [Putters -> PutState], NEW p \in Putters, NEW s, put' = [put EXCEPT ![p] = s],
           s.n = put[p].n + 1, IsFiniteSet(Called)
    PROVE  IsFiniteSet(Called') /\ Cardinality(Called') = Cardinality(Called) + 1
  <1> DEFINE r == <<p, put[p].n + 1>>
  <1>1. /\ put'[p].n = put[p].n + 1 /\ put[p].n \in Nat
        /\ \A q \in Putters : q # p => put'[q].n = put[q].n
    BY DEF PutState
  <1>2. \A x : x \in Called <=> \E q \in Putters : \E i \in 1..put[q].n : x = <<q, i>>
    BY DEF Called
  <1>3. \A x : x \in Called' <=> \E q \in Putters : \E i \in 1..put'[q].n : x = <<q, i>>
    BY DEF Called
  <1>4. 1..put'[p].n = (1..put[p].n) \cup {put[p].n + 1} /\ put[p].n + 1 \notin 1..put[p].n
    BY <1>1
  <1>5. Called' = Called \cup {r}
    BY <1>1, <1>2, <1>3, <1>4
  <1>6. r \notin Called
    BY <1>2, <1>4
  <1> HIDE DEF r
  <1> QED
    BY <1>5, <1>6, FS_AddElement

LEMMA StepKeepsFiles ==
    ASSUME AInv, UNCHANGED <<ch, handed, logFile, buf, broken, written, errors>>, dropped' \in Nat
    PROVE  Counters' /\ InFile' /\ InOrder' /\ Queued'
  BY DEF AInv, Counters, InFile, InOrder, Queued

LEMMA WrittenBound ==
    ASSUME Types, AInv, ~broken
    PROVE  /\ written \in 0..Len(handed) /\ written = Len(logFile) + Len(buf)
           /\ Len(logFile) \in Nat /\ Len(buf) \in Nat
  <1>1. Len(logFile) \in Nat /\ Len(buf) \in Nat /\ Len(handed) \in Nat
    BY DEF Types
  <1> QED
    BY <1>1 DEF AInv, Counters, InOrder, Matches

LEMMA FlushKeeps ==
    ASSUME Types, AInv, Flush, UNCHANGED <<handed, written, dropped>>
    PROVE  Counters' /\ InFile' /\ InOrder' /\ (broken => broken')
  <1>1. CASE ~broken /\ logFile' = logFile \o buf /\ buf' = <<>> /\ UNCHANGED <<broken, errors>>
    <2>1. SubSeq(buf, 1, Len(buf)) = buf /\ Len(buf) \in 0..Len(buf) /\ Len(logFile \o buf) = Len(logFile) + Len(buf)
      BY DEF Types
    <2>2. Matches(logFile \o buf, handed, 0)
      BY <1>1, <2>1, MatchesConcat DEF Types, AInv, InFile, InOrder
    <2>3. written = Len(logFile \o buf) + Len(<<>>) /\ written <= Len(handed) /\ Len(<<>>) = 0
      BY <1>1, <2>1, WrittenBound
    <2>4. Matches(<<>>, handed, Len(logFile \o buf))
      <3>1. Len(handed) \in Nat /\ Len(logFile \o buf) \in Nat
        BY <2>1 DEF Types
      <3> QED
        BY <2>3, <3>1 DEF Matches
    <2> QED
      BY <1>1, <2>2, <2>3, <2>4 DEF AInv, Counters, InFile, InOrder
  <1>2. CASE broken /\ UNCHANGED <<logFile, buf, broken, errors>>
    BY <1>2 DEF AInv, Counters, InFile, InOrder
  <1>3. CASE /\ ~broken /\ broken' = TRUE /\ errors' = errors + 1
             /\ \E n \in 0..(Len(buf) - 1) : logFile' = logFile \o SubSeq(buf, 1, n)
    <2>1. PICK n \in 0..(Len(buf) - 1) : logFile' = logFile \o SubSeq(buf, 1, n)
      BY <1>3
    <2>2. n \in 0..Len(buf)
      BY <2>1 DEF Types
    <2>3. Matches(logFile', handed, 0)
      BY <1>3, <2>1, <2>2, MatchesConcat DEF Types, AInv, InFile, InOrder
    <2> QED
      BY <1>3, <2>3 DEF AInv, Counters, InFile, InOrder
  <1> QED
    BY <1>1, <1>2, <1>3 DEF Flush

LEMMA WriteKeeps ==
    ASSUME Types, AInv, NEW r \in Record, Write(r), UNCHANGED <<handed, dropped>>,
           ~broken => written + 1 \in 0..Len(handed) /\ handed[written + 1] = r
    PROVE  Counters' /\ InFile' /\ InOrder' /\ (broken => broken') /\ (~broken' => written' = written + 1)
  <1>1. CASE ~broken /\ buf' = Append(buf, r) /\ written' = written + 1 /\ UNCHANGED <<logFile, broken, errors>>
    <2>1. Matches(Append(buf, r), handed, Len(logFile))
      BY <1>1, WrittenBound, MatchesAppend DEF Types, AInv, InOrder
    <2>2. written' = Len(logFile) + Len(buf')
      BY <1>1, WrittenBound DEF Types
    <2> QED
      BY <1>1, <2>1, <2>2 DEF AInv, Counters, InFile, InOrder
  <1>2. CASE /\ ~broken /\ buf' = <<r>> /\ logFile' = logFile \o buf
             /\ written' = written + 1 /\ UNCHANGED <<broken, errors>>
    <2>1. SubSeq(buf, 1, Len(buf)) = buf /\ Len(buf) \in 0..Len(buf) /\ Len(logFile \o buf) = Len(logFile) + Len(buf)
      BY DEF Types
    <2>2. Matches(logFile \o buf, handed, 0)
      BY <1>2, <2>1, MatchesConcat DEF Types, AInv, InFile, InOrder
    <2>3. Len(logFile \o buf) = written /\ written \in Nat
      BY <1>2, <2>1, WrittenBound
    <2>4. Matches(<<r>>, handed, written)
      <3>1. Len(<<r>>) = 1 /\ <<r>>[1] = r /\ \A i \in 1..1 : i = 1
        OBVIOUS
      <3> QED
        BY <1>2, <2>3, <3>1 DEF Matches
    <2>5. Len(<<r>>) = 1
      OBVIOUS
    <2> QED
      BY <1>2, <2>2, <2>3, <2>4, <2>5 DEF AInv, Counters, InFile, InOrder
  <1>3. CASE /\ broken' = TRUE /\ errors' = IF broken THEN errors ELSE errors + 1
             /\ UNCHANGED <<buf, logFile, written>>
    BY <1>3 DEF AInv, Counters, InFile, InOrder
  <1> QED
    BY <1>1, <1>2, <1>3 DEF Write

(* A request's step: nothing of the writer, of Sync or of Close.           *)
LEMMA PutStep ==
    ASSUME Types, AInv, NEW p \in Putters, NEW s, put' = [put EXCEPT ![p] = s],
           s.n >= put[p].n /\ s.n \in Nat, s.at = "put" => s.n > put[p].n,
           UNCHANGED <<sync, close, closed, ch, writer, buf, broken, logFile, handed, written, errors>>,
           dropped' \in Nat, Balanced'
    PROVE  AInv'
  <1>1. Counters' /\ InFile' /\ InOrder' /\ Queued'
    BY StepKeepsFiles
  <1>2. Phases'
    BY DEF AInv, Phases, Readers
  <1>3. Numbered'
    <2>1. \A k \in DOMAIN handed : handed[k][1] \in Putters /\ handed[k][2] \in Nat
      BY DEF Types, Record
    <2>2. put'[p] = s /\ put[p].n \in Nat /\ \A q \in Putters : q # p => put'[q] = put[q]
      BY DEF Types, PutState
    <2>3. ASSUME NEW k \in DOMAIN handed
          PROVE  LET r == handed[k]
                 IN  /\ r[2] <= put'[r[1]].n
                     /\ put'[r[1]].at = "put" => r[2] < put'[r[1]].n
      <3> DEFINE q == handed[k][1]
                 n == handed[k][2]
      <3>1. n <= put[q].n /\ (put[q].at = "put" => n < put[q].n)
        BY DEF AInv, Numbered
      <3>2. q \in Putters /\ n \in Nat
        BY <2>1
      <3> HIDE DEF q, n
      <3>3. n <= put'[q].n /\ (put'[q].at = "put" => n < put'[q].n)
        <4>1. CASE q = p
          BY <2>2, <3>1, <3>2, <4>1
        <4>2. CASE q # p
          BY <2>2, <3>1, <3>2, <4>2
        <4> QED
          BY <4>1, <4>2
      <3> QED
        BY <3>3 DEF q, n
    <2> QED
      BY <2>3 DEF AInv, Numbered
  <1> QED
    BY <1>1, <1>2, <1>3 DEF AInv

LEMMA PutCallAccounts ==
    ASSUME Types, AInv, NEW p \in Putters, PutCall(p)
    PROVE  AInv'
  <1> DEFINE s == [at |-> "put", n |-> put[p].n + 1]
  <1>1. /\ put' = [put EXCEPT ![p] = s] /\ put[p].at = "idle"
        /\ UNCHANGED <<sync, close, closed, ch, writer, buf, broken, logFile, handed, dropped,
                       written, errors>>
    BY DEF PutCall, Types
  <1>2. s.at = "put" /\ s.n = put[p].n + 1 /\ put[p].n \in Nat
    BY DEF Types, PutState
  <1> HIDE DEF s
  <1>3. Cardinality(Pending') = Cardinality(Pending) + 1 /\ Cardinality(Pending) \in Nat
    BY <1>1, <1>2, PendingOne DEF Types
  <1>4. IsFiniteSet(Called') /\ Cardinality(Called') = Cardinality(Called) + 1
    BY <1>1, <1>2, CalledOne DEF Types, AInv, Balanced
  <1>5. Balanced'
    <2>1. Len(handed) \in Nat /\ dropped \in Nat
      BY DEF Types, AInv, Counters
    <2> QED
      BY <1>1, <1>3, <1>4, <2>1 DEF AInv, Balanced
  <1>6. s.n >= put[p].n /\ s.n \in Nat /\ s.n > put[p].n /\ dropped' \in Nat
    BY <1>1, <1>2 DEF AInv, Counters
  <1> QED
    BY <1>1, <1>5, <1>6, PutStep

LEMMA PutDropAccounts ==
    ASSUME Types, AInv, NEW p \in Putters, PutDrop(p)
    PROVE  AInv'
  <1> DEFINE s == [at |-> "idle", n |-> put[p].n]
  <1>1. /\ put[p].at = "drop" /\ dropped' = dropped + 1
        /\ UNCHANGED <<sync, close, closed, ch, writer, buf, broken, logFile, handed, written, errors>>
    BY DEF PutDrop
  <1>2. put' = [put EXCEPT ![p] = s] /\ put[p].n \in Nat
    <2>1. put[p] \in PutState
      BY DEF Types
    <2>2. [put[p] EXCEPT !.at = "idle"] = s
      BY <2>1 DEF PutState
    <2> QED
      BY <2>1, <2>2 DEF PutDrop, PutState
  <1>3. s.at = "idle" /\ s.n = put[p].n
    OBVIOUS
  <1> HIDE DEF s
  <1>4. Cardinality(Pending) = Cardinality(Pending') + 1
    BY <1>1, <1>2, <1>3, PendingOne DEF Types
  <1>5. Called' = Called
    BY <1>2, <1>3, CalledSame DEF Types
  <1>6. Cardinality(Pending') \in Nat
    <2>1. IsFiniteSet(Pending')
      BY LogAssumption, FS_Subset DEF Pending
    <2> QED
      BY <2>1, FS_CardinalityType
  <1>7. Balanced'
    <2>1. Len(handed) \in Nat /\ dropped \in Nat
      BY DEF Types, AInv, Counters
    <2> QED
      BY <1>1, <1>4, <1>5, <1>6, <2>1 DEF AInv, Balanced
  <1>8. s.n >= put[p].n /\ s.n \in Nat /\ dropped' \in Nat
    BY <1>1, <1>2, <1>3 DEF AInv, Counters
  <1> QED
    BY <1>1, <1>2, <1>3, <1>7, <1>8, PutStep

LEMMA PutSendAccounts ==
    ASSUME Types, AInv, NEW p \in Putters, PutSend(p)
    PROVE  AInv'
  <1> DEFINE r == <<p, put[p].n>>
  <1>1. /\ put[p].at = "put" /\ put[p] \in PutState /\ put[p].n \in Nat
        /\ UNCHANGED <<sync, close, closed, writer, buf, broken, logFile, dropped, written, errors>>
    BY DEF PutSend, Types, PutState
  <1>2. \A a : [put[p] EXCEPT !.at = a] = [at |-> a, n |-> put[p].n]
    BY <1>1 DEF PutState
  <1>3. CASE put' = [put EXCEPT ![p].at = "drop"] /\ UNCHANGED <<ch, handed>>
    <2> DEFINE s == [at |-> "drop", n |-> put[p].n]
    <2>1. put' = [put EXCEPT ![p] = s]
      BY <1>2, <1>3
    <2>2. s.at = "drop" /\ s.n = put[p].n
      OBVIOUS
    <2> HIDE DEF s
    <2>3. Pending' = Pending /\ Called' = Called
      BY <1>1, <2>1, <2>2, PendingOne, CalledSame DEF Types
    <2>4. Balanced'
      BY <1>1, <1>3, <2>3 DEF AInv, Balanced
    <2>5. s.n >= put[p].n /\ s.n \in Nat /\ dropped' \in Nat
      BY <1>1, <2>2 DEF AInv, Counters
    <2> QED
      BY <1>1, <1>3, <2>1, <2>2, <2>4, <2>5, PutStep
  <1>4. CASE /\ ~closed /\ ch' = Append(ch, r) /\ handed' = Append(handed, r)
             /\ put' = [put EXCEPT ![p].at = "idle"]
    <2> DEFINE s == [at |-> "idle", n |-> put[p].n]
    <2>1. put' = [put EXCEPT ![p] = s]
      BY <1>2, <1>4
    <2>2. s.at = "idle" /\ s.n = put[p].n
      OBVIOUS
    <2> HIDE DEF s
    <2>3. r \in Record /\ r[1] = p /\ r[2] = put[p].n
      BY <1>1 DEF Record
    <2> HIDE DEF r
    <2>4. \A k \in DOMAIN handed : handed[k] # r
      <3>1. ASSUME NEW k \in DOMAIN handed, handed[k] = r
            PROVE  FALSE
        <4>1. put[r[1]].at = "put" => r[2] < put[r[1]].n
          BY <3>1 DEF AInv, Numbered
        <4> QED
          BY <1>1, <2>3, <4>1
      <3> QED
        BY <3>1
    <2>5. /\ Len(handed') = Len(handed) + 1 /\ Len(handed) \in Nat
          /\ \A k \in DOMAIN handed' : \/ k \in DOMAIN handed /\ handed'[k] = handed[k]
                                       \/ k = Len(handed) + 1 /\ handed'[k] = r
      BY <1>4, <2>3 DEF Types
    <2>6. Counters' /\ InFile' /\ InOrder'
      <3>1. Matches(logFile, handed', 0)
        BY <1>4, <2>3, MatchesAppend DEF Types, AInv, InFile
      <3>2. ~broken => Matches(buf, handed', Len(logFile))
        <4>1. Len(logFile) \in Nat
          BY DEF Types
        <4> QED
          BY <1>4, <2>3, <4>1, MatchesAppend DEF Types, AInv, InOrder
      <3> QED
        BY <1>1, <3>1, <3>2 DEF AInv, Counters, InFile, InOrder
    <2>7. Queued'
      <3>1. ASSUME ~broken
            PROVE  Holds(ch', handed', written)
        BY <1>4, <2>3, <2>4, <3>1, WrittenBound, HoldsAppend DEF Types, AInv, Queued, Item
      <3> QED
        BY <1>1, <3>1 DEF Queued
    <2>8. Phases'
      BY <1>1, <1>4 DEF AInv, Phases, Readers
    <2>9. Numbered'
      <3>1. put'[p] = s /\ \A q \in Putters : q # p => put'[q] = put[q]
        BY <2>1 DEF Types
      <3>2. ASSUME NEW k \in DOMAIN handed'
            PROVE  LET x == handed'[k]
                   IN  /\ x[2] <= put'[x[1]].n
                       /\ put'[x[1]].at = "put" => x[2] < put'[x[1]].n
        <4>1. CASE k \in DOMAIN handed /\ handed'[k] = handed[k]
          <5>1. handed[k] \in Record
            BY <4>1 DEF Types
          <5>2. handed[k][1] \in Putters
            BY <5>1 DEF Record
          <5>3. /\ handed[k][2] <= put[handed[k][1]].n
                /\ put[handed[k][1]].at = "put" => handed[k][2] < put[handed[k][1]].n
            BY <4>1 DEF AInv, Numbered
          <5> QED
            BY <2>2, <3>1, <4>1, <5>2, <5>3
        <4>2. CASE handed'[k] = r
          BY <1>1, <2>2, <2>3, <3>1, <4>2
        <4> QED
          BY <2>5, <4>1, <4>2
      <3>3. Distinct(handed')
        <4>1. Distinct(handed)
          BY DEF AInv, Numbered, Distinct
        <4> QED
          BY <2>4, <2>5, <4>1 DEF Distinct
      <3> QED
        BY <3>2, <3>3 DEF Numbered, Distinct
    <2>10. Balanced'
      <3>1. Cardinality(Pending) = Cardinality(Pending') + 1 /\ Called' = Called
        BY <1>1, <2>1, <2>2, PendingOne, CalledSame DEF Types
      <3>2. Cardinality(Pending') \in Nat
        <4>1. IsFiniteSet(Pending')
          BY LogAssumption, FS_Subset DEF Pending
        <4> QED
          BY <4>1, FS_CardinalityType
      <3>3. dropped \in Nat
        BY DEF AInv, Counters
      <3> QED
        BY <1>1, <2>5, <3>1, <3>2, <3>3 DEF AInv, Balanced
    <2> QED
      BY <2>6, <2>7, <2>8, <2>9, <2>10 DEF AInv
  <1> QED
    BY <1>3, <1>4 DEF PutSend

LEMMA SyncAccounts ==
    ASSUME Types, AInv, NEW s \in Syncers, SyncCall(s) \/ SyncSend(s)
    PROVE  AInv'
  <1>1. CASE SyncCall(s)
    <2>1. /\ sync' = [sync EXCEPT ![s] = IF closed THEN [at |-> "refused", due |-> {}]
                                         ELSE [at |-> "sending", due |-> Range(handed)]]
          /\ UNCHANGED <<put, close, closed, ch, writer, buf, broken, logFile, handed, dropped,
                         written, errors>>
      BY <1>1 DEF SyncCall
    <2>2. closed => Readers' \subseteq Readers
      <3>1. [at |-> "refused", due |-> {}].at # "sending"
        OBVIOUS
      <3> QED
        BY <2>1, <3>1 DEF Readers, Types
    <2>3. Phases'
      BY <2>1, <2>2 DEF AInv, Phases
    <2>4. Numbered' /\ Balanced'
      BY <2>1, StepKeepsCounts
    <2>5. Counters' /\ InFile' /\ InOrder' /\ Queued'
      BY <2>1, StepKeepsFiles DEF AInv, Counters
    <2> QED
      BY <2>3, <2>4, <2>5 DEF AInv
  <1>2. CASE SyncSend(s)
    <2> DEFINE b == <<s, 0>>
    <2>1. /\ sync[s].at = "sending" /\ ch' = Append(ch, b) /\ sync' = [sync EXCEPT ![s].at = "waiting"]
          /\ UNCHANGED <<put, close, closed, writer, buf, broken, logFile, handed, dropped,
                         written, errors>>
      BY <1>2 DEF SyncSend
    <2>2. ~closed
      BY <2>1 DEF AInv, Phases, Readers
    <2>3. Phases'
      BY <2>1, <2>2 DEF AInv, Phases
    <2>4. Numbered' /\ Balanced'
      BY <2>1, StepKeepsCounts
    <2>5. Counters' /\ InFile' /\ InOrder'
      BY <2>1 DEF AInv, Counters, InFile, InOrder
    <2>6. b \in Item /\ b[1] \in Syncers
      BY DEF Item
    <2> HIDE DEF b
    <2>7. Queued'
      <3>1. ASSUME ~broken
            PROVE  Holds(ch', handed, written)
        BY <2>1, <2>6, <3>1, HoldsBarrier DEF Types, AInv, Counters, Queued, Item
      <3> QED
        BY <2>1, <3>1 DEF Queued
    <2> QED
      BY <2>3, <2>4, <2>5, <2>7 DEF AInv
  <1> QED
    BY <1>1, <1>2

LEMMA WriterAccounts ==
    ASSUME Types, AInv, WriterTake \/ WriterBarrier \/ WriterTick
    PROVE  AInv'
  <1>1. /\ writer = "run" /\ UNCHANGED <<put, close, closed, writer, handed, dropped>>
        /\ \/ UNCHANGED sync
           \/ \E s \in Syncers : sync' = [sync EXCEPT ![s].at = "done"]
    BY DEF WriterTake, WriterBarrier, WriterTick, IsBarrier
  <1>2. Readers' \subseteq Readers
    BY <1>1 DEF Readers, Types, SyncState
  <1>3. Phases'
    BY <1>1, <1>2 DEF AInv, Phases
  <1>4. Numbered' /\ Balanced'
    BY <1>1, StepKeepsCounts
  <1>5. Distinct(handed) /\ handed \in Seq(Record) /\ ch \in Seq(Item)
    BY DEF Types, AInv, Numbered, Distinct, Item
  <1>6. ASSUME ~broken, ch # <<>>
        PROVE  /\ Head(ch)[1] \in Syncers => Holds(Tail(ch), handed, written)
               /\ Head(ch)[1] \notin Syncers => /\ written + 1 \in 0..Len(handed)
                                                /\ handed[written + 1] = Head(ch)
                                                /\ Holds(Tail(ch), handed, written + 1)
    BY <1>5, <1>6, WrittenBound, HoldsTake DEF AInv, Queued
  <1>7. CASE WriterTake
    <2>1. ch # <<>> /\ Head(ch)[1] \notin Syncers /\ ch' = Tail(ch) /\ Write(Head(ch))
      BY <1>7 DEF WriterTake, IsBarrier
    <2>2. Head(ch) \in Record
      <3>1. Head(ch) \in Item
        BY <1>5, <2>1
      <3> QED
        BY <2>1, <3>1, ItemKinds
    <2>3. Counters' /\ InFile' /\ InOrder' /\ (broken => broken') /\ (~broken' => written' = written + 1)
      BY <1>1, <1>6, <2>1, <2>2, WriteKeeps
    <2>4. Queued'
      BY <1>1, <1>6, <2>1, <2>3 DEF Queued
    <2> QED
      BY <1>3, <1>4, <2>3, <2>4 DEF AInv
  <1>8. CASE WriterBarrier
    <2>1. ch # <<>> /\ Head(ch)[1] \in Syncers /\ ch' = Tail(ch) /\ Flush /\ written' = written
      BY <1>8 DEF WriterBarrier, IsBarrier, BarrierFlush
    <2>2. Counters' /\ InFile' /\ InOrder' /\ (broken => broken')
      BY <1>1, <2>1, FlushKeeps
    <2>3. Queued'
      BY <1>1, <1>6, <2>1, <2>2 DEF Queued
    <2> QED
      BY <1>3, <1>4, <2>2, <2>3 DEF AInv
  <1>9. CASE WriterTick
    <2>1. ch' = ch /\ Flush /\ written' = written
      BY <1>9 DEF WriterTick
    <2>2. Counters' /\ InFile' /\ InOrder' /\ (broken => broken')
      BY <1>1, <2>1, FlushKeeps
    <2>3. Queued'
      BY <1>1, <2>1, <2>2 DEF AInv, Queued
    <2> QED
      BY <1>3, <1>4, <2>2, <2>3 DEF AInv
  <1> QED
    BY <1>7, <1>8, <1>9

LEMMA CloseAccounts ==
    ASSUME Types, AInv, WriterExit \/ CloseCall \/ CloseLock \/ CloseEnd
    PROVE  AInv'
  <1>1. UNCHANGED <<put, sync, ch, handed, dropped, written>>
    BY DEF WriterExit, CloseCall, CloseLock, CloseEnd
  <1>2. Numbered' /\ Balanced' /\ Readers' = Readers
    BY <1>1, StepKeepsCounts DEF Readers
  <1>3. ASSUME UNCHANGED <<logFile, buf, broken, errors>>, Phases'
        PROVE  AInv'
    BY <1>1, <1>2, <1>3, StepKeepsFiles DEF AInv, Counters
  <1>4. CASE WriterExit
    BY <1>2, <1>3, <1>4 DEF WriterExit, Drained, AInv, Phases
  <1>5. CASE CloseCall
    BY <1>2, <1>3, <1>5 DEF CloseCall, AInv, Phases
  <1>6. CASE CloseLock
    BY <1>2, <1>3, <1>6 DEF CloseLock, AInv, Phases
  <1>7. CASE CloseEnd
    <2>1. /\ close = "draining" /\ writer = "done" /\ close' = "closed" /\ UNCHANGED <<closed, writer>>
      BY <1>7 DEF CloseEnd
    <2>2. CASE ~broken /\ logFile' = logFile \o buf /\ buf' = <<>> /\ UNCHANGED <<broken, errors>>
      <3>1. Flush \/ writeErrs' # writeErrs
        BY <2>2 DEF Flush
      <3>2. Phases'
        BY <1>1, <1>2, <2>1, <2>2 DEF AInv, Phases
      <3>3. Counters' /\ InFile' /\ InOrder'
        BY <1>1, <1>7, <2>2, <3>1, FlushKeeps DEF CloseEnd
      <3>4. Queued'
        BY <1>1, <2>2 DEF AInv, Queued
      <3> QED
        BY <1>2, <3>2, <3>3, <3>4 DEF AInv
    <2>3. CASE broken /\ UNCHANGED <<logFile, buf, broken, errors>>
      BY <1>1, <1>2, <1>3, <2>1, <2>3 DEF AInv, Phases
    <2>4. CASE broken' = TRUE /\ errors' = errors + 1 /\ UNCHANGED <<logFile, buf>>
      <3>1. Phases'
        BY <1>1, <1>2, <2>1, <2>4 DEF AInv, Phases
      <3>2. Counters' /\ InFile' /\ InOrder' /\ Queued'
        BY <1>1, <2>4 DEF AInv, Counters, InFile, InOrder, Queued
      <3> QED
        BY <1>2, <3>1, <3>2 DEF AInv
    <2> QED
      BY <1>7, <2>2, <2>3, <2>4 DEF CloseEnd, FileAtClose
  <1> QED
    BY <1>4, <1>5, <1>6, <1>7

LEMMA AInvInit == LogInit => AInv
  <1> SUFFICES ASSUME LogInit
               PROVE  AInv
    OBVIOUS
  <1>1. DOMAIN handed = {} /\ DOMAIN ch = {} /\ Len(handed) = 0 /\ Len(logFile) = 0 /\ Len(buf) = 0
    BY DEF LogInit
  <1>2. Counters /\ Phases
    BY DEF LogInit, Counters, Phases, Readers
  <1>3. InFile /\ InOrder /\ Queued /\ Numbered
    BY <1>1 DEF LogInit, InFile, InOrder, Queued, Holds, Matches, Numbered
  <1>4. Called = {} /\ Pending = {}
    BY DEF LogInit, Called, Pending
  <1>5. Balanced
    BY <1>1, <1>4, FS_EmptySet DEF LogInit, Balanced
  <1> QED
    BY <1>2, <1>3, <1>5 DEF AInv

LEMMA AInvNext ==
    ASSUME Types, AInv, [LogNext]_logVars
    PROVE  AInv'
  <1>1. CASE UNCHANGED logVars
    <2>1. Numbered' /\ Balanced'
      BY <1>1, StepKeepsCounts DEF logVars
    <2>2. Counters' /\ InFile' /\ InOrder' /\ Queued'
      BY <1>1, StepKeepsFiles DEF logVars, AInv, Counters
    <2>3. Phases'
      BY <1>1 DEF logVars, AInv, Phases, Readers
    <2> QED
      BY <2>1, <2>2, <2>3 DEF AInv
  <1> QED
    BY <1>1, PutCallAccounts, PutSendAccounts, PutDropAccounts, SyncAccounts, WriterAccounts, CloseAccounts
       DEF LogNext, Putting, Writer

(* After Close, unless a write failed, the file holds exactly the records  *)
(* the channel accepted, in their order; if one did, a first part of them; *)
(* and every put was accepted, counted as dropped or is about to be        *)
(* (decisionlog.go, put, run and Close).                                   *)
THEOREM EveryRecordAccounted == LogSpec => []Accounted
  <1>1. ASSUME Types, AInv
        PROVE  Accounted
    <2>1. SUFFICES ASSUME close = "closed"
                   PROVE  /\ ~broken => logFile = handed /\ written = Len(handed)
                          /\ broken => IsPrefix(logFile, handed) /\ errors > 0
                          /\ Cardinality(Called) = Len(handed) + dropped + Cardinality(Pending)
      BY DEF Accounted, Called, Pending
    <2>2. /\ logFile \in Seq(Record) /\ handed \in Seq(Record)
          /\ 0 + Len(logFile) <= Len(handed) /\ \A i \in 1..Len(logFile) : logFile[i] = handed[0 + i]
      BY <1>1 DEF Types, AInv, InFile, Matches
    <2>3. Len(logFile) <= Len(handed) /\ \A i \in 1..Len(logFile) : logFile[i] = handed[i]
      BY <2>2
    <2>4. SubSeq(logFile, 1, Len(logFile)) = SubSeq(handed, 1, Len(logFile))
      BY <2>2, <2>3
    <2>5. ASSUME ~broken
          PROVE  logFile = handed /\ written = Len(handed)
      <3>1. ch = <<>> /\ buf = <<>>
        BY <1>1, <2>1, <2>5 DEF AInv, Phases
      <3>2. written = Len(logFile) /\ written \in 0..Len(handed)
        BY <1>1, <2>5, <3>1, WrittenBound
      <3>3. \A k \in DOMAIN handed : ~(k > written)
        <4>1. DOMAIN ch = {}
          BY <3>1
        <4> QED
          BY <1>1, <2>5, <4>1 DEF AInv, Queued, Holds
      <3>4. written = Len(handed)
        <4>1. DOMAIN handed = 1..Len(handed) /\ Len(handed) \in Nat
          BY <2>2
        <4> DEFINE n == Len(handed)
        <4>2. \A k \in 1..n : ~(k > written)
          BY <3>3, <4>1
        <4>3. n \in Nat /\ written \in 0..n
          BY <3>2, <4>1
        <4> HIDE DEF n
        <4>4. written = n
          BY <4>2, <4>3
        <4> QED
          BY <4>4 DEF n
      <3>5. Len(logFile) = Len(handed)
        BY <3>2, <3>4
      <3>6. logFile = handed
        BY <2>2, <2>3, <3>5
      <3> QED
        BY <3>4, <3>6
    <2>6. broken => errors > 0
      BY <1>1 DEF AInv, Counters
    <2>7. Cardinality(Called) = Len(handed) + dropped + Cardinality(Pending)
      BY <1>1 DEF AInv, Balanced
    <2> QED
      BY <2>3, <2>4, <2>5, <2>6, <2>7 DEF IsPrefix
  <1>2. AInv /\ IInv /\ [LogNext]_logVars => AInv' /\ IInv'
    BY AInvNext, LogStep DEF IInv
  <1>3. LogInit => AInv /\ IInv
    BY AInvInit, LogInitially
  <1>4. AInv /\ IInv => Accounted
    BY <1>1 DEF IInv
  <1> QED
    BY <1>2, <1>3, <1>4, PTL DEF LogSpec
=============================================================================
