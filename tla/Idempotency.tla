---------------------------- MODULE Idempotency -----------------------------
(***************************************************************************)
(* POST /v1/assess under an Idempotency-Key, the store of its answers and  *)
(* the service's snapshots (internal/service: idempotency.go, assess.go,   *)
(* snapshot.go).  A payment assessed twice counts twice in every velocity  *)
(* window, so of the requests with one key only one may reach the velocity *)
(* state; the others get its answer, across waits, failures and restarts.  *)
(*                                                                         *)
(* An entry of the store is named by the request that claimed it, so its   *)
(* key and body are that request's and it is ready when that request has   *)
(* finished.  The velocity state is the set of requests counted in each of *)
(* its independently locked shards.  Time is the set of entries older than *)
(* the TTL.  A request without a key claims nothing and is left out.       *)
(***************************************************************************)
EXTENDS Integers, Sequences, FiniteSets

CONSTANTS Req,        \* HTTP requests
          Key,        \* idempotency keys
          Body,       \* request bodies, told apart by their hash
          Shard,      \* shards of the velocity state a payment touches
          None,
          MaxEntries, \* capacity of the store
          AgeBound,   \* entries that outlive the TTL
          SnapshotBound, CrashBound

ASSUME NoneAssumption == None \notin Req /\ None \notin Key /\ None \notin Body
ASSUME MaxEntriesAssumption == MaxEntries \in Nat \ {0}
ASSUME BoundAssumption == {AgeBound, SnapshotBound, CrashBound} \subseteq Nat

VARIABLES key, body, \* of each request
          phase,     \* how far each request is
          on,        \* the entry a waiting request waits for
          store,     \* the entries of the store
          at,        \* when each entry was claimed, 0 if never
          claims,    \* so far
          velocity,  \* the requests counted, per shard
          snap,      \* the snapshot being taken
          disk,      \* the snapshot file
          old,       \* entries claimed longer ago than the TTL
          snapshots, crashes, \* so far
          forgotten  \* history: entries evicted or expired

vars == <<key, body, phase, on, store, at, claims, velocity, snap, disk, old,
          snapshots, crashes, forgotten>>
request == <<key, body>>

(* claimed: owns an entry; running: and holds the cut.  The rest is final: *)
(* answered is the owner's 200, failed its error, dropped by a crash.      *)
Phase == {"new", "arrived", "waiting", "claimed", "running",
          "answered", "failed", "replayed", "reused", "cancelled", "dropped"}

Ready(e) == phase[e] = "answered"
Settled(e) == phase[e] \in {"answered", "failed"}

(* S without the entries that expire now: the ready and old ones at its    *)
(* front, up to the first that is neither.                                 *)
Expired(S) ==
    LET stays == {e \in S : ~(Ready(e) /\ e \in old)}
    IN  {e \in S : \E f \in stays : at[f] <= at[e]}

(* The MaxEntries newest, the others evicted, in flight or not. *)
Evicted(S, since) == {e \in S : Cardinality({f \in S : since[f] > since[e]}) < MaxEntries}

NoVelocity == [s \in Shard |-> {}]
NoSnapshot == [phase |-> "idle", copied |-> {}, velocity |-> NoVelocity, answers |-> {}]

Init ==
    /\ key = [r \in Req |-> None]
    /\ body = [r \in Req |-> None]
    /\ phase = [r \in Req |-> "new"]
    /\ on = [r \in Req |-> None]
    /\ store = {}
    /\ at = [r \in Req |-> 0]
    /\ claims = 0
    /\ velocity = NoVelocity
    /\ snap = NoSnapshot
    /\ disk = [velocity |-> NoVelocity, answers |-> {}]
    /\ old = {}
    /\ snapshots = 0
    /\ crashes = 0
    /\ forgotten = {}

-----------------------------------------------------------------------------
(* Requests *)

Arrive(r, k, b) ==
    /\ phase[r] = "new"
    /\ key' = [key EXCEPT ![r] = k]
    /\ body' = [body EXCEPT ![r] = b]
    /\ phase' = [phase EXCEPT ![r] = "arrived"]
    /\ UNCHANGED <<on, store, at, claims, velocity, snap, disk, old, snapshots, crashes, forgotten>>

SameKey(r, S) == {e \in S : key[e] = key[r]}

(* r claims its key: the newest entry of the store, for which the oldest   *)
(* gives way.                                                              *)
Insert(r, S) ==
    /\ claims' = claims + 1
    /\ at' = [at EXCEPT ![r] = claims + 1]
    /\ store' = Evicted(S \cup {r}, at')
    /\ phase' = [phase EXCEPT ![r] = "claimed"]

(* A plausible slip: an entry in flight is not waited for.                 *)
ClaimImpatient(r) ==
    LET live == Expired(store)
        answers == {e \in SameKey(r, live) : Ready(e) /\ body[e] = body[r]}
    IN  /\ phase[r] = "arrived"
        /\ IF answers = {} THEN Insert(r, live)
           ELSE /\ store' = live
                /\ phase' = [phase EXCEPT ![r] = "replayed"]
                /\ UNCHANGED <<at, claims>>
        /\ forgotten' = forgotten \cup (store \ store')
        /\ UNCHANGED <<request, on, velocity, snap, disk, old, snapshots, crashes>>

(* The store is looked up under its mutex, on arrival and whenever the     *)
(* entry waited for is settled.  An answer is replayed to the same body    *)
(* only; an entry in flight is waited for; with neither, r claims the key. *)
Claim(r) ==
    LET live == Expired(store) IN
    /\ phase[r] = "arrived" \/ (phase[r] = "waiting" /\ Settled(on[r]))
    /\ \/ \E e \in SameKey(r, live) :
             /\ store' = live
             /\ IF ~Ready(e)
                THEN phase' = [phase EXCEPT ![r] = "waiting"] /\ on' = [on EXCEPT ![r] = e]
                ELSE /\ phase' = [phase EXCEPT ![r] =
                            IF body[e] = body[r] THEN "replayed" ELSE "reused"]
                     /\ on' = [on EXCEPT ![r] = None]
             /\ UNCHANGED <<at, claims>>
       \/ /\ SameKey(r, live) = {}
          /\ Insert(r, live)
          /\ on' = [on EXCEPT ![r] = None]
    /\ forgotten' = forgotten \cup (store \ store')
    /\ UNCHANGED <<request, velocity, snap, disk, old, snapshots, crashes>>

(* The client of a waiting request gives up; an owner runs on regardless. *)
Cancel(r) ==
    /\ phase[r] = "waiting"
    /\ phase' = [phase EXCEPT ![r] = "cancelled"]
    /\ on' = [on EXCEPT ![r] = None]
    /\ UNCHANGED <<request, store, at, claims, velocity, snap, disk, old, snapshots, crashes, forgotten>>

(* The owner takes the cut, shared; a snapshot waiting for it goes first. *)
Begin(r) ==
    /\ phase[r] = "claimed"
    /\ snap.phase # "cut"
    /\ phase' = [phase EXCEPT ![r] = "running"]
    /\ UNCHANGED <<request, on, store, at, claims, velocity, snap, disk, old, snapshots, crashes, forgotten>>

(* The payment is read and counted in one of its shards, under its lock. *)
CountIn(r, s) ==
    /\ phase[r] = "running"
    /\ r \notin velocity[s]
    /\ velocity' = [velocity EXCEPT ![s] = @ \cup {r}]
    /\ UNCHANGED <<request, phase, on, store, at, claims, snap, disk, old, snapshots, crashes, forgotten>>

(* The answer is stored and whoever waits is woken; the cut is released. *)
Finish(r) ==
    /\ phase[r] = "running"
    /\ \A s \in Shard : r \in velocity[s]
    /\ phase' = [phase EXCEPT ![r] = "answered"]
    /\ UNCHANGED <<request, on, store, at, claims, velocity, snap, disk, old, snapshots, crashes, forgotten>>

(* A plausible slip: the entry is marked but stays in the store. *)
AbandonKept(r) ==
    /\ phase[r] = "running"
    /\ phase' = [phase EXCEPT ![r] = "failed"]
    /\ UNCHANGED <<request, on, store, at, claims, velocity, snap, disk, old, snapshots, crashes, forgotten>>

(* The claim is given up, by an error found before the payment is counted  *)
(* (the request does not parse, its time is refused) or by a panic at any  *)
(* point; an entry the store no longer holds is not removed for it.        *)
Abandon(r) ==
    /\ phase[r] = "running"
    /\ store' = store \ {r}
    /\ phase' = [phase EXCEPT ![r] = "failed"]
    /\ UNCHANGED <<request, on, at, claims, velocity, snap, disk, old, snapshots, crashes, forgotten>>

(* Another entry of the store passes its TTL, in the order of the claims. *)
Age ==
    /\ Cardinality(old) < AgeBound
    /\ \E e \in store \ old :
          /\ \A f \in store : at[f] < at[e] => f \in old
          /\ old' = old \cup {e}
    /\ UNCHANGED <<request, phase, on, store, at, claims, velocity, snap, disk, snapshots, crashes, forgotten>>

-----------------------------------------------------------------------------
(* Snapshots *)

StartSnapshot ==
    /\ snap.phase = "idle"
    /\ snapshots < SnapshotBound
    /\ snapshots' = snapshots + 1
    /\ snap' = [NoSnapshot EXCEPT !.phase = "velocity"]
    /\ UNCHANGED <<request, phase, on, store, at, claims, velocity, disk, old, crashes, forgotten>>

(* The shards are copied one at a time, each under its own lock. *)
CopyShard(s) ==
    /\ snap.phase = "velocity"
    /\ s \notin snap.copied
    /\ snap' = [snap EXCEPT !.copied = @ \cup {s}, !.velocity[s] = velocity[s],
                            !.phase = IF Shard \subseteq snap.copied \cup {s} THEN "cut" ELSE @]
    /\ UNCHANGED <<request, phase, on, store, at, claims, velocity, disk, old, snapshots, crashes, forgotten>>

(* A plausible slip: the answers are copied without the cut. *)
CopyAnswersUncut ==
    /\ snap.phase = "cut"
    /\ store' = Expired(store)
    /\ forgotten' = forgotten \cup (store \ store')
    /\ snap' = [snap EXCEPT !.phase = "write", !.answers = {e \in store' : Ready(e)}]
    /\ UNCHANGED <<request, phase, on, at, claims, velocity, disk, old, snapshots, crashes>>

(* With the cut held exclusively, the answers are copied. *)
CopyAnswers ==
    /\ snap.phase = "cut"
    /\ \A r \in Req : phase[r] # "running"
    /\ store' = Expired(store)
    /\ forgotten' = forgotten \cup (store \ store')
    /\ snap' = [snap EXCEPT !.phase = "write", !.answers = {e \in store' : Ready(e)}]
    /\ UNCHANGED <<request, phase, on, at, claims, velocity, disk, old, snapshots, crashes>>

(* The file is replaced at once, or an error leaves the old one. *)
WriteFile ==
    /\ snap.phase = "write"
    /\ \/ disk' = [velocity |-> snap.velocity, answers |-> snap.answers]
       \/ UNCHANGED disk
    /\ snap' = NoSnapshot
    /\ UNCHANGED <<request, phase, on, store, at, claims, velocity, old, snapshots, crashes, forgotten>>

(* The process stops and a new one restores the file, without the answers  *)
(* that have expired.                                                      *)
Restart ==
    /\ crashes < CrashBound
    /\ crashes' = crashes + 1
    /\ store' = Evicted(disk.answers \ old, at)
    /\ forgotten' = forgotten \cup (disk.answers \ store')
    /\ velocity' = disk.velocity
    /\ phase' = [r \in Req |->
           IF phase[r] \in {"arrived", "waiting", "claimed", "running"} THEN "dropped" ELSE phase[r]]
    /\ on' = [r \in Req |-> None]
    /\ snap' = NoSnapshot
    /\ UNCHANGED <<request, at, claims, disk, old, snapshots>>

-----------------------------------------------------------------------------
Handle(r) ==
    \/ Claim(r)
    \/ \E s \in Shard : CountIn(r, s)
    \/ Finish(r)
    \/ Abandon(r)

TakeSnapshot == (\E s \in Shard : CopyShard(s)) \/ CopyAnswers \/ WriteFile

Next ==
    \/ \E r \in Req :
          \/ \E k \in Key, b \in Body : Arrive(r, k, b)
          \/ Handle(r)
          \/ Begin(r)
          \/ Cancel(r)
    \/ Age
    \/ StartSnapshot
    \/ TakeSnapshot
    \/ Restart

Spec == Init /\ [][Next]_vars

(* Handlers and the snapshot loop run.  A reader that waits behind a       *)
(* writer is let in before the next one, which is RWMutex's promise, so    *)
(* Begin is strongly fair.  Nothing else is fair: no client has to give up.*)
Fairness ==
    /\ \A r \in Req : WF_vars(Handle(r)) /\ SF_vars(Begin(r))
    /\ WF_vars(TakeSnapshot)

FairSpec == Spec /\ Fairness

-----------------------------------------------------------------------------
(* Every variable has its type. *)
Typed ==
    /\ key \in [Req -> Key \cup {None}]
    /\ body \in [Req -> Body \cup {None}]
    /\ phase \in [Req -> Phase]
    /\ on \in [Req -> Req \cup {None}]
    /\ store \subseteq Req
    /\ at \in [Req -> Nat]
    /\ claims \in Nat
    /\ velocity \in [Shard -> SUBSET Req]
    /\ snap \in [phase : {"idle", "velocity", "cut", "write"}, copied : SUBSET Shard,
                 velocity : [Shard -> SUBSET Req], answers : SUBSET Req]
    /\ disk \in [velocity : [Shard -> SUBSET Req], answers : SUBSET Req]
    /\ old \subseteq Req
    /\ {snapshots, crashes} \subseteq Nat
    /\ forgotten \subseteq Req

Counted(r) == \E s \in Shard : r \in velocity[s]

(* A request that left the store without its answer: its key may be        *)
(* assessed again.  Panicked is an owner that failed after it counted.     *)
Panicked(r) == phase[r] = "failed" /\ Counted(r)

(* Of the requests with one key at most one counts, in the state and so in *)
(* every velocity feature, whatever waits, fails, ages or restarts between *)
(* them, unless an entry was forgotten or an owner panicked after counting.*)
CountedOnce ==
    \A q, r \in Req :
        (q # r /\ key[q] = key[r] /\ Counted(q) /\ Counted(r)) =>
            \E e \in {q, r} : e \in forgotten \/ Panicked(e)

(* snapshot.go: "a payment in the saved state always has its answer saved  *)
(* too", so a retry after a restart is not counted again.                  *)
SavedTogether ==
    \A r \in Req :
        (\E s \in Shard : r \in disk.velocity[s]) =>
            r \in disk.answers \cup forgotten \/ phase[r] = "failed"

(* A retry is answered as the first request was, and an error never is:    *)
(* a replayed answer is that of a finished request with the same key.      *)
ReplayHasOwner ==
    \A r \in Req : phase[r] = "replayed" =>
        \E e \in Req : phase[e] = "answered" /\ key[e] = key[r] /\ body[e] = body[r]

(* Every request is answered, one way or another, without its client       *)
(* giving up: no claim is left that nobody will settle.                    *)
AlwaysAnswered ==
    \A r \in Req : phase[r] = "arrived" ~>
        phase[r] \in {"answered", "failed", "replayed", "reused", "cancelled", "dropped"}
=============================================================================
