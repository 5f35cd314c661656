------------------------- MODULE IdempotencyProofs --------------------------
(***************************************************************************)
(* Of the requests with one key at most one counts, and what a snapshot    *)
(* saves has its answer saved: for any number of requests, keys, shards,   *)
(* snapshots and restarts, and any capacity.                               *)
(*                                                                         *)
(* The argument: two entries of the store never have the same key, and a   *)
(* request that counts is in the store from its claim on, unless it was    *)
(* forgotten or has failed.  The cut carries this over to the file: while  *)
(* shards are copied, whoever is in the copy is running or settled; once   *)
(* the cut is held, nobody runs.                                           *)
(***************************************************************************)
EXTENDS Idempotency, FiniteSetTheorems, TLAPS

Distinct(S) == \A e, f \in S : key[e] = key[f] => e = f

(* Everyone in the velocity state V owns, or owned, the entry of its key. *)
Held(V) ==
    \A r \in Req, s \in Shard : r \in V[s] =>
        \/ phase[r] = "failed"
        \/ phase[r] \in {"running", "answered"} /\ r \in store \cup forgotten

(* Everyone in the saved velocity state V has its answer in A. *)
Saved(V, A) ==
    /\ \A e \in A : phase[e] = "answered"
    /\ Distinct(A)
    /\ \A r \in Req, s \in Shard : r \in V[s] =>
           \/ phase[r] = "failed"
           \/ phase[r] = "answered" /\ r \in A \cup forgotten

StoreInv ==
    /\ \A r \in Req : at[r] <= claims
    /\ \A e \in store : phase[e] \in {"claimed", "running", "answered"}
    /\ Distinct(store)
    /\ \A r \in Req : phase[r] \in {"claimed", "running"} => r \in store \cup forgotten

CutInv ==
    /\ snap.phase \in {"velocity", "cut"} => Held(snap.velocity)
    /\ snap.phase = "write" => Saved(snap.velocity, snap.answers)

IInv ==
    /\ Typed
    /\ StoreInv
    /\ Held(velocity)
    /\ CutInv
    /\ Saved(disk.velocity, disk.answers)
    /\ ReplayHasOwner

-----------------------------------------------------------------------------
LEMMA InitInv == Init => IInv
  <1> SUFFICES ASSUME Init PROVE IInv
    OBVIOUS
  <1> USE DEF Init, NoVelocity, NoSnapshot
  <1>1. Typed
    BY DEF Typed, Phase
  <1>2. StoreInv /\ Held(velocity) /\ CutInv /\ ReplayHasOwner
    BY DEF StoreInv, Distinct, Held, CutInv, ReplayHasOwner
  <1>3. Saved(disk.velocity, disk.answers)
    BY DEF Saved, Distinct
  <1> QED
    BY <1>1, <1>2, <1>3 DEF IInv

(* The entry just claimed is the newest, so it is not the one that gives   *)
(* way.                                                                    *)
LEMMA NewestStays ==
    ASSUME Typed, StoreInv, NEW r \in Req, NEW S \in SUBSET Req, Insert(r, S)
    PROVE  /\ r \in store' /\ store' \subseteq S \cup {r}
           /\ at' \in [Req -> Nat] /\ claims' \in Nat
           /\ \A q \in Req : at'[q] <= claims'
  <1>1. /\ at' \in [Req -> Nat] /\ claims' \in Nat
        /\ \A q \in Req : at'[q] <= claims'
    BY DEF Insert, Typed, StoreInv
  <1>2. {f \in S \cup {r} : at'[f] > at'[r]} = {}
    BY <1>1 DEF Insert, Typed
  <1>3. 0 < MaxEntries
    BY MaxEntriesAssumption
  <1>4. Cardinality({f \in S \cup {r} : at'[f] > at'[r]}) < MaxEntries
    BY <1>2, <1>3, FS_EmptySet
  <1>5. store' = {e \in S \cup {r} : Cardinality({f \in S \cup {r} : at'[f] > at'[e]}) < MaxEntries}
    BY DEF Insert, Evicted
  <1> QED
    BY <1>1, <1>4, <1>5

(* Steps that only change the phase of one running request, or nothing of  *)
(* what the invariant is about.                                            *)
LEMMA ArriveStep ==
    ASSUME IInv, NEW r \in Req, NEW k \in Key, NEW b \in Body, Arrive(r, k, b)
    PROVE  IInv'
  <1> USE DEF Arrive, IInv
  <1>1. Typed'
    BY DEF Typed, Phase
  <1>2. \A q \in Req : q # r => phase'[q] = phase[q] /\ key'[q] = key[q] /\ body'[q] = body[q]
    BY DEF Typed
  <1>3. phase[r] = "new" /\ phase'[r] = "arrived"
    BY DEF Typed
  <1>4. r \notin store /\ r \notin disk.answers
    BY <1>3 DEF StoreInv, Saved
  <1>5. StoreInv'
    BY <1>2, <1>3, <1>4 DEF StoreInv, Distinct, Typed
  <1>6. Held(velocity)'
    BY <1>2, <1>3 DEF Held
  <1>7. CutInv'
    <2>1. snap.phase \in {"velocity", "cut"} => Held(snap.velocity)'
      BY <1>2, <1>3 DEF CutInv, Held
    <2>2. snap.phase = "write" => Saved(snap.velocity, snap.answers)'
      BY <1>2, <1>3 DEF CutInv, Saved, Distinct, Typed
    <2> QED
      BY <2>1, <2>2 DEF CutInv
  <1>8. Saved(disk.velocity, disk.answers)'
    BY <1>2, <1>3 DEF Saved, Distinct, Typed
  <1>9. ReplayHasOwner'
    BY <1>2, <1>3 DEF ReplayHasOwner
  <1> QED
    BY <1>1, <1>5, <1>6, <1>7, <1>8, <1>9

(* A step that leaves the velocity states and the file alone, forgets what *)
(* it drops from the store and settles nobody: all that is left to show is *)
(* the store's own invariant.                                              *)
LEMMA StoreStep ==
    ASSUME IInv, Typed', StoreInv',
           UNCHANGED <<key, body, velocity, snap, disk>>,
           store \subseteq store' \cup forgotten', forgotten \subseteq forgotten',
           \A q \in Req : phase[q] \in {"running", "answered", "failed"} => phase'[q] = phase[q],
           \A q \in Req : phase'[q] = "replayed" =>
               \/ phase[q] = "replayed"
               \/ \E e \in Req : phase[e] = "answered" /\ key[e] = key[q] /\ body[e] = body[q]
    PROVE  IInv'
  <1> USE DEF IInv
  <1>1. Held(velocity)'
    BY DEF Held
  <1>2. CutInv'
    <2>1. snap.phase \in {"velocity", "cut"} => Held(snap.velocity)'
      BY DEF CutInv, Held
    <2>2. snap.phase = "write" => Saved(snap.velocity, snap.answers)'
      BY DEF CutInv, Saved, Distinct, Typed
    <2> QED
      BY <2>1, <2>2 DEF CutInv
  <1>3. Saved(disk.velocity, disk.answers)'
    BY DEF Saved, Distinct, Typed
  <1>4. ReplayHasOwner'
    BY DEF ReplayHasOwner
  <1> QED
    BY <1>1, <1>2, <1>3, <1>4

LEMMA ClaimStep ==
    ASSUME IInv, NEW r \in Req, Claim(r)
    PROVE  IInv'
  <1> DEFINE live == Expired(store)
  <1>1. live \subseteq store
    BY DEF Expired
  <1>2. /\ phase[r] \in {"arrived", "waiting"}
        /\ UNCHANGED <<key, body, velocity, snap, disk, old, snapshots, crashes>>
        /\ forgotten' = forgotten \cup (store \ store')
    BY DEF Claim, request
  <1>3. Typed /\ StoreInv
    BY DEF IInv
  <1>4. r \notin store
    BY <1>2, <1>3 DEF StoreInv
  <1>5. store \subseteq store' \cup forgotten' /\ forgotten \subseteq forgotten'
    BY <1>2
  <1>6. CASE \E e \in SameKey(r, live) :
               /\ store' = live
               /\ UNCHANGED <<at, claims>>
               /\ \/ ~Ready(e) /\ phase' = [phase EXCEPT ![r] = "waiting"] /\ on' = [on EXCEPT ![r] = e]
                  \/ /\ Ready(e)
                     /\ phase' = [phase EXCEPT ![r] =
                            IF body[e] = body[r] THEN "replayed" ELSE "reused"]
                     /\ on' = [on EXCEPT ![r] = None]
    <2> PICK e \in SameKey(r, live) :
               /\ store' = live
               /\ UNCHANGED <<at, claims>>
               /\ \/ ~Ready(e) /\ phase' = [phase EXCEPT ![r] = "waiting"] /\ on' = [on EXCEPT ![r] = e]
                  \/ /\ Ready(e)
                     /\ phase' = [phase EXCEPT ![r] =
                            IF body[e] = body[r] THEN "replayed" ELSE "reused"]
                     /\ on' = [on EXCEPT ![r] = None]
      BY <1>6
    <2> HIDE DEF live
    <2>1. e \in live /\ e \in Req /\ key[e] = key[r]
      BY <1>1, <1>3 DEF SameKey, Typed
    <2>2. Typed'
      BY <1>1, <1>2, <1>3, <2>1 DEF Typed, Phase
    <2>3. /\ \A q \in Req : q # r => phase'[q] = phase[q]
          /\ phase'[r] \in {"waiting", "replayed", "reused"}
          /\ phase'[r] = "replayed" => phase[e] = "answered" /\ body[e] = body[r]
      BY <1>3 DEF Typed, Ready
    <2>4. StoreInv'
      BY <1>1, <1>2, <1>3, <1>4, <1>5, <2>3 DEF StoreInv, Distinct, Typed
    <2> QED
      BY <1>2, <1>5, <2>1, <2>2, <2>3, <2>4, StoreStep
  <1>7. CASE SameKey(r, live) = {} /\ Insert(r, live) /\ on' = [on EXCEPT ![r] = None]
    <2> live \in SUBSET Req
      BY <1>1, <1>3 DEF Typed
    <2>1. \A e \in live : key[e] # key[r]
      BY <1>7 DEF SameKey
    <2>2. phase' = [phase EXCEPT ![r] = "claimed"]
      BY <1>7 DEF Insert
    <2> HIDE DEF live
    <2>3. /\ r \in store' /\ store' \subseteq live \cup {r}
          /\ at' \in [Req -> Nat] /\ claims' \in Nat
          /\ \A q \in Req : at'[q] <= claims'
      BY <1>3, <1>7, NewestStays
    <2>4. Typed'
      BY <1>2, <1>3, <1>7, <2>2, <2>3 DEF Typed, Phase
    <2>5. \A q \in Req : q # r => phase'[q] = phase[q]
      BY <1>3, <2>2 DEF Typed
    <2>6. phase'[r] = "claimed"
      BY <1>3, <2>2 DEF Typed
    <2>7. Distinct(store)'
      BY <1>1, <1>2, <1>3, <2>1, <2>3 DEF StoreInv, Distinct
    <2>8. StoreInv'
      BY <1>1, <1>2, <1>3, <1>5, <2>3, <2>5, <2>6, <2>7 DEF StoreInv, Typed
    <2> QED
      BY <1>2, <1>5, <2>4, <2>5, <2>6, <2>8, StoreStep
  <1> QED
    BY <1>6, <1>7 DEF Claim

LEMMA CancelStep ==
    ASSUME IInv, NEW r \in Req, Cancel(r)
    PROVE  IInv'
  <1> USE DEF Cancel, request
  <1>1. Typed'
    BY DEF IInv, Typed, Phase
  <1>2. /\ phase[r] = "waiting" /\ phase'[r] = "cancelled"
        /\ \A q \in Req : q # r => phase'[q] = phase[q]
    BY DEF IInv, Typed
  <1>3. StoreInv'
    BY <1>2 DEF IInv, StoreInv, Distinct, Typed
  <1> QED
    BY <1>1, <1>2, <1>3, StoreStep

LEMMA AgeStep ==
    ASSUME IInv, Age
    PROVE  IInv'
  <1> USE DEF Age, request
  <1>1. Typed'
    BY DEF IInv, Typed
  <1>2. StoreInv'
    BY DEF IInv, StoreInv, Distinct
  <1> QED
    BY <1>1, <1>2, StoreStep

LEMMA BeginStep ==
    ASSUME IInv, NEW r \in Req, Begin(r)
    PROVE  IInv'
  <1> USE DEF Begin, request
  <1>1. Typed'
    BY DEF IInv, Typed, Phase
  <1>2. /\ phase[r] = "claimed" /\ phase'[r] = "running"
        /\ \A q \in Req : q # r => phase'[q] = phase[q]
    BY DEF IInv, Typed
  <1>3. StoreInv'
    BY <1>2 DEF IInv, StoreInv, Distinct, Typed
  <1> QED
    BY <1>1, <1>2, <1>3, StoreStep

LEMMA CountInStep ==
    ASSUME IInv, NEW r \in Req, NEW s \in Shard, CountIn(r, s)
    PROVE  IInv'
  <1> USE DEF CountIn, request, IInv
  <1>1. Typed'
    BY DEF Typed
  <1>2. r \in store \cup forgotten
    BY DEF StoreInv
  <1>3. \A t \in Shard : velocity'[t] \subseteq velocity[t] \cup {r}
    BY DEF Typed
  <1>4. Held(velocity)'
    BY <1>2, <1>3 DEF Held
  <1>5. StoreInv' /\ CutInv' /\ Saved(disk.velocity, disk.answers)' /\ ReplayHasOwner'
    BY DEF StoreInv, CutInv, Saved, Held, Distinct, ReplayHasOwner
  <1> QED
    BY <1>1, <1>4, <1>5

(* r settles: answered, or failed and out of the store. *)
LEMMA SettleStep ==
    ASSUME IInv, NEW r \in Req, Finish(r) \/ Abandon(r)
    PROVE  IInv'
  <1> USE DEF Finish, Abandon, request, IInv
  <1>1. Typed'
    BY DEF Typed, Phase
  <1>2. /\ phase[r] = "running" /\ phase'[r] \in {"answered", "failed"}
        /\ \A q \in Req : q # r => phase'[q] = phase[q]
        /\ store' \subseteq store /\ store \subseteq store' \cup {r}
        /\ phase'[r] = "failed" => r \notin store'
        /\ phase'[r] = "answered" => store' = store
        /\ UNCHANGED <<key, body, velocity, snap, disk, forgotten, at, claims>>
    BY DEF Typed
  <1> USE <1>1, <1>2
  <1> HIDE DEF Finish, Abandon
  <1>3. StoreInv'
    BY DEF StoreInv, Distinct, Typed
  <1>4. Held(velocity)'
    BY DEF Held
  <1>5. CutInv'
    <2>1. snap.phase \in {"velocity", "cut"} => Held(snap.velocity)'
      BY DEF CutInv, Held
    <2>2. snap.phase = "write" => Saved(snap.velocity, snap.answers)'
      BY DEF CutInv, Saved, Distinct, Typed
    <2> QED
      BY <2>1, <2>2 DEF CutInv
  <1>6. Saved(disk.velocity, disk.answers)'
    BY DEF Saved, Distinct, Typed
  <1>7. ReplayHasOwner'
    BY DEF ReplayHasOwner
  <1> QED
    BY <1>3, <1>4, <1>5, <1>6, <1>7

-----------------------------------------------------------------------------
(* The snapshot's steps. *)
LEMMA StartSnapshotStep ==
    ASSUME IInv, StartSnapshot
    PROVE  IInv'
  <1> USE DEF StartSnapshot, request, IInv
  <1>1. Typed'
    BY DEF Typed, NoSnapshot, NoVelocity
  <1>2. CutInv'
    BY DEF CutInv, NoSnapshot, NoVelocity, Held
  <1>3. StoreInv' /\ Held(velocity)' /\ Saved(disk.velocity, disk.answers)' /\ ReplayHasOwner'
    BY DEF StoreInv, Held, Saved, Distinct, ReplayHasOwner
  <1> QED
    BY <1>1, <1>2, <1>3

LEMMA CopyShardStep ==
    ASSUME IInv, NEW s \in Shard, CopyShard(s)
    PROVE  IInv'
  <1> USE DEF CopyShard, request, IInv
  <1>1. Typed'
    BY DEF Typed
  <1>2. /\ snap'.phase \in {"velocity", "cut"}
        /\ \A t \in Shard : snap'.velocity[t] \in {velocity[t], snap.velocity[t]}
        /\ snap.phase = "velocity"
    BY DEF Typed
  <1>3. UNCHANGED <<key, body, phase, store, velocity, disk, forgotten, at, claims>>
    OBVIOUS
  <1> HIDE DEF CopyShard
  <1>4. Held(snap.velocity)'
    BY <1>2, <1>3 DEF CutInv, Held
  <1>5. CutInv'
    BY <1>2, <1>4 DEF CutInv
  <1>6. StoreInv' /\ Held(velocity)' /\ Saved(disk.velocity, disk.answers)' /\ ReplayHasOwner'
    BY <1>3 DEF StoreInv, Held, Saved, Distinct, ReplayHasOwner
  <1> QED
    BY <1>1, <1>5, <1>6

(* Nobody runs, so everyone copied has settled and, if not forgotten, its  *)
(* answer is among those copied.                                           *)
LEMMA CopyAnswersStep ==
    ASSUME IInv, CopyAnswers
    PROVE  IInv'
  <1>1. /\ snap.phase = "cut" /\ snap'.phase = "write"
        /\ snap'.velocity = snap.velocity
        /\ snap'.answers = {e \in store' : phase[e] = "answered"}
        /\ \A r \in Req : phase[r] # "running"
        /\ store' \subseteq store
        /\ forgotten' = forgotten \cup (store \ store')
        /\ UNCHANGED <<key, body, phase, at, claims, velocity, disk>>
    BY DEF CopyAnswers, IInv, Typed, Ready, request, Expired
  <1>2. Typed'
    BY <1>1 DEF CopyAnswers, IInv, Typed, request
  <1>3. StoreInv'
    BY <1>1 DEF IInv, StoreInv, Distinct
  <1>4. Held(velocity)'
    BY <1>1 DEF IInv, Held
  <1>5. Saved(snap.velocity, snap.answers)'
    <2>1. Distinct(snap.answers)'
      BY <1>1 DEF IInv, StoreInv, Distinct
    <2>2. \A r \in Req, s \in Shard : r \in snap.velocity[s] =>
              \/ phase[r] = "failed"
              \/ phase[r] = "answered" /\ r \in store \cup forgotten
      BY <1>1 DEF IInv, CutInv, Held
    <2> QED
      BY <1>1, <2>1, <2>2 DEF Saved
  <1>6. CutInv'
    BY <1>1, <1>5 DEF CutInv
  <1>7. Saved(disk.velocity, disk.answers)' /\ ReplayHasOwner'
    BY <1>1 DEF IInv, Saved, Distinct, ReplayHasOwner
  <1> QED
    BY <1>2, <1>3, <1>4, <1>6, <1>7 DEF IInv

LEMMA WriteFileStep ==
    ASSUME IInv, WriteFile
    PROVE  IInv'
  <1> USE DEF IInv
  <1>1. Typed'
    BY DEF WriteFile, Typed, NoSnapshot, NoVelocity, request
  <1>2. /\ snap.phase = "write" /\ snap'.phase = "idle"
        /\ \/ disk'.velocity = snap.velocity /\ disk'.answers = snap.answers
           \/ disk' = disk
        /\ UNCHANGED <<key, body, phase, store, velocity, forgotten, at, claims>>
    BY DEF WriteFile, NoSnapshot, request
  <1>3. CutInv'
    BY <1>2 DEF CutInv
  <1>4. Saved(disk.velocity, disk.answers)'
    BY <1>2 DEF CutInv, Saved, Distinct
  <1>5. StoreInv' /\ Held(velocity)' /\ ReplayHasOwner'
    BY <1>2 DEF StoreInv, Held, Distinct, ReplayHasOwner
  <1> QED
    BY <1>1, <1>3, <1>4, <1>5

(* The restored state is the file's: whoever is in it has its answer.      *)
LEMMA RestartStep ==
    ASSUME IInv, Restart
    PROVE  IInv'
  <1>1. /\ store' \subseteq disk.answers
        /\ forgotten' = forgotten \cup (disk.answers \ store')
        /\ velocity' = disk.velocity
        /\ snap'.phase = "idle"
        /\ UNCHANGED <<key, body, disk, at, claims>>
    BY DEF Restart, Evicted, NoSnapshot, request
  <1>2. \A r \in Req :
            \/ phase'[r] = "dropped" /\ phase[r] \in {"arrived", "waiting", "claimed", "running"}
            \/ phase'[r] = phase[r] /\ phase[r] \notin {"arrived", "waiting", "claimed", "running"}
    BY DEF Restart
  <1>3. Typed'
    <2>1. Typed
      BY DEF IInv
    <2>2. phase' \in [Req -> Phase]
      BY <2>1 DEF Restart, Typed, Phase
    <2>3. snap' \in [phase : {"idle", "velocity", "cut", "write"}, copied : SUBSET Shard,
                     velocity : [Shard -> SUBSET Req], answers : SUBSET Req]
      BY DEF Restart, NoSnapshot, NoVelocity
    <2>4. /\ velocity' \in [Shard -> SUBSET Req]
          /\ store' \subseteq Req /\ forgotten' \subseteq Req
      BY <1>1, <2>1 DEF Typed
    <2>5. on' \in [Req -> Req \cup {None}] /\ crashes' \in Nat /\ snapshots' \in Nat
      BY <2>1 DEF Restart, Typed
    <2> QED
      BY <1>1, <2>1, <2>2, <2>3, <2>4, <2>5 DEF Restart, Typed, request
  <1>4. disk.answers \subseteq Req
    BY DEF IInv, Typed
  <1>5. StoreInv'
    BY <1>1, <1>2, <1>4 DEF IInv, StoreInv, Saved, Distinct
  <1>6. Saved(disk.velocity, disk.answers)'
    BY <1>1, <1>2, <1>4 DEF IInv, Saved, Distinct
  <1>7. Held(velocity)'
    BY <1>1, <1>2, <1>4 DEF IInv, Saved, Held
  <1>8. CutInv'
    BY <1>1 DEF CutInv
  <1>9. ReplayHasOwner'
    BY <1>1, <1>2 DEF IInv, ReplayHasOwner
  <1> QED
    BY <1>3, <1>5, <1>6, <1>7, <1>8, <1>9 DEF IInv

LEMMA StutterStep ==
    ASSUME IInv, UNCHANGED vars
    PROVE  IInv'
  BY DEF IInv, vars, Typed, StoreInv, Held, CutInv, Saved, Distinct, ReplayHasOwner

THEOREM Invariance == Spec => []IInv
  <1>1. IInv /\ [Next]_vars => IInv'
    <2> SUFFICES ASSUME IInv, [Next]_vars PROVE IInv'
      OBVIOUS
    <2>1. ASSUME NEW r \in Req, NEW k \in Key, NEW b \in Body, Arrive(r, k, b) PROVE IInv'
      BY <2>1, ArriveStep
    <2>2. ASSUME NEW r \in Req, Handle(r) PROVE IInv'
      BY <2>2, ClaimStep, CountInStep, SettleStep DEF Handle
    <2>3. ASSUME NEW r \in Req, Begin(r) PROVE IInv'
      BY <2>3, BeginStep
    <2>4. ASSUME NEW r \in Req, Cancel(r) PROVE IInv'
      BY <2>4, CancelStep
    <2>5. CASE Age
      BY <2>5, AgeStep
    <2>6. CASE StartSnapshot
      BY <2>6, StartSnapshotStep
    <2>7. CASE TakeSnapshot
      BY <2>7, CopyShardStep, CopyAnswersStep, WriteFileStep DEF TakeSnapshot
    <2>8. CASE Restart
      BY <2>8, RestartStep
    <2>9. CASE UNCHANGED vars
      BY <2>9, StutterStep
    <2> QED
      BY <2>1, <2>2, <2>3, <2>4, <2>5, <2>6, <2>7, <2>8, <2>9 DEF Next
  <1> QED
    BY InitInv, <1>1, PTL DEF Spec

-----------------------------------------------------------------------------
(* Of the requests with one key at most one counts (idempotency.go: the    *)
(* second request "must get the first one's answer without touching the    *)
(* feature state"), through waits, failures, eviction and restarts.        *)
THEOREM CountsOnce == Spec => []CountedOnce
  <1>1. IInv => CountedOnce
    <2> SUFFICES ASSUME IInv, NEW q \in Req, NEW r \in Req, q # r, key[q] = key[r],
                        Counted(q), Counted(r)
                 PROVE  \E e \in {q, r} : e \in forgotten \/ Panicked(e)
      BY DEF CountedOnce
    <2>1. \A e \in {q, r} : phase[e] = "failed" \/ e \in store \cup forgotten
      BY DEF IInv, Held, Counted
    <2>2. ~(q \in store /\ r \in store)
      BY DEF IInv, StoreInv, Distinct
    <2> QED
      BY <2>1, <2>2 DEF Panicked
  <1> QED
    BY Invariance, <1>1, PTL

(* The snapshot file is a consistent cut (snapshot.go: "a payment in the   *)
(* saved state always has its answer saved too").                          *)
THEOREM CutIsConsistent == Spec => []SavedTogether
  <1>1. IInv => SavedTogether
    BY DEF IInv, Saved, SavedTogether
  <1> QED
    BY Invariance, <1>1, PTL

(* A replayed answer was given to a request with the same key and body, by *)
(* an owner that finished (idempotency.go: "an error is never cached").    *)
THEOREM ReplaysAreAnswers == Spec => []ReplayHasOwner
  <1>1. IInv => ReplayHasOwner
    BY DEF IInv
  <1> QED
    BY Invariance, <1>1, PTL

=============================================================================
