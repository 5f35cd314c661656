# RiskGate in TLA+

RiskGate scores card payments for fraud. It keeps velocity features (counts and
sums over sliding windows per card, device, address and so on), feeds them to a
LightGBM model and to a set of rules, and decides *allow*, *review* or *block*.
It does so in two ways: an HTTP service that scores a payment while the client
waits, and a Kafka pipeline that scores payments from a topic, partitioned and
restartable, and must reach the decisions a single sequential process would
have reached. Both stand or fall with one promise: **every payment counts
exactly once, in event-time order, in the state behind the features**, whatever
is retried, resent, reordered, restarted or taken over on the way. Most of this
project is about that promise.

Paths below are relative to the repository (`internal/...`); line numbers are in
`PROJECT.json` under `map`.

## 1. Inventory

### 1.1 Stream pipeline (`internal/stream`)

Three stages, each a consumer group over Kafka topics, one task per input
partition, plus a stage for dispute events.

| part | state it keeps | operations | talks to |
|---|---|---|---|
| producer (`produce.go`) | next position per partition | write a payment, write heartbeats so that quiet partitions promise progress | payments topic |
| router (`route.go`) | last position of its partition, not persisted | split a payment into one event per entity, keyed by entity; after the batch is acknowledged, a watermark to every aggregator partition | entity topic |
| aggregator (`aggregate.go`, `merge.go`) | per upstream partition a high-water mark and a watermark; a heap of held events; the velocity state | drop duplicates, detect late events, hold events until the minimum watermark passes them, apply them in release order, emit one part per event | parts topic |
| joiner (`join.go`) | pending payments; a high-water mark per upstream partition | drop duplicate parts, collect the parts of a payment, score and decide when complete | decisions topic |
| labels stage (`runner.go` labelTask) | the label log | record disputes, idempotent per dispute | label store |
| runner (`runner.go`, `store.go`) | per partition: the task, its next offset, whether it is dirty; the snapshot store; the group's committed offset | poll, process, produce, flush, checkpoint (flush, put the snapshot, commit), assign and restore, revoke, lose, shut down, crash | consumer group, all of the above |

*Hard*: a crash between any two of send, flush, snapshot and commit; an instance
the group has replaced that goes on sending; batches sent again; reordering
between upstream partitions; a quiet partition that holds everything back;
retention and recreated topics under old snapshots.

*Correct* means: no event is applied twice or skipped; each aggregator applies
its events in the order a sequential replay would; a watermark is only passed
when everything before it is applied; saved state and saved offset agree; what
a saved state remembers having emitted is emitted; readers cannot tell that a
process crashed; and everything is eventually decided.

### 1.2 Assessment service (`internal/service`, `internal/webhook`)

| part | state it keeps | operations |
|---|---|---|
| assess (`assess.go`) | none of its own; the event-time guard | claim the idempotency key, take the cut, score and update, answer, settle the claim, log the decision |
| idempotency store (`idempotency.go`) | entries by key, in order of age, bounded in number and age | claim (owner, replay, mismatch or wait), finish, abandon, expire, snapshot, restore |
| snapshots (`snapshot.go`) | the snapshot file | copy the velocity state shard by shard, then the answers under the cut, the rules, deduper and labels; replace the file atomically; restore |
| rule store (`rulestore.go`) | live rules and lists, history directory, shadow rules | deploy, install, persist, restore, roll back, count shadow decisions |
| decision log (`decisionlog.go`, `audit.go`) | a bounded queue, a file | put (or drop), write, sync, close, replay for audit |
| labels (`labels.go`) | label log, labels by payment | record, replay, snapshot |
| webhook (`webhook/*.go`) | seen event ids, bounded in number and age | verify a signature, begin, commit, release |

*Hard*: concurrent requests with one key, an owner that panics, an entry evicted
while its owner runs, a snapshot cut through all of it, restarts, a rule deploy
that fails half way, a full queue, a partly written line.

*Correct* means: of the requests with one key one counts; a restored service
knows the answer of every payment its state contains; a replayed answer is the
answer; nobody waits for ever; no rule version names two texts; every decision
is written or counted as dropped; an event is seen only if it took effect.

### 1.3 Features, rules, model, backtest, data

| part | state | operations | hard |
|---|---|---|---|
| velocity states (`features/{exact,bucketed,sketch}.go`) | events or buckets per key and window | read windows, add, evict | window edges, equal times, late events, sketch error bounds |
| concurrent states (`features/concurrent.go`) | shards with locks; a map of entries with locks of their own | read-and-add, evict idle, snapshot, restore | update racing eviction, snapshot racing insertion |
| engine, replay (`features/{engine,replay}.go`) | the state | score, then update | order within a payment |
| rules (`rules/*.go`) | none | lex, parse, check, compile, evaluate in three-valued logic, lint | unknowns; rule order |
| backtest (`backtest/*.go`) | columns, bitmaps | evaluate rules over columns, diff, sweep, label delay | agreement with the row evaluator; label maturity |
| model (`model/*.go`) | trees, calibration | load, predict, explain, calibrate | which files are safe to walk; missing values; floating point |
| data, schema (`data`, `schema`) | a cache file | load, split, encode | files replaced while they are read; parsing |
| commands, load generator, Python | - | wiring, experiments, training | order of shutdown |

`PROJECT.json` lists all of these under `components`, with what is and is not
modelled, and under `hazards` each hard spot at its line.

## 2. The modules

```
 stream     Merger ------- RouteMerge ------ MCRouteMerge     2 runs   RouteMergeProofs
            StatefulStage <= Checkpoint ---- MCCheckpoint     2 runs   CheckpointProofs
            Scoring <====== Joiner --------- MCJoiner         1 run    JoinerProofs

 service    Idempotency -------------------- MCIdempotency    2 runs   IdempotencyProofs
            DecisionLog -------.
            SyncMap -----------|
            BacktestCache -----|------------ MCService        1 run    SharedStateProofs
            EventTimeGuard ----|                                       (of these four)
            Webhook -----------|                                       WebhookProofs
            RuleStore ---------'                                       RuleStoreProofs
            RuleStore ---------------------- MCRuleStore      2 runs (disagreements)
            Webhook ------------------------ MCWebhook        1 run  (a disagreement)

 sequential VelocityState -- KeyedState                                KeyedStateProofs
 code       RuleSyntax - RuleCompile - RuleLint, ColumnEval - MCRules
            VelocityState - Engine    Sketch    Report    Model    Dataset
                      `--- MCAlgorithms (extends      1 run
                           MCRules, KeyedState)
```

`<=` reads "is implemented by": the abstract module is on the left; a run checks
the refinement, and a theorem states it. The protocols and the keyed velocity
stores have their proofs in the module named on the right.

Three protocols carry the pipeline's promise, and each has a module. The first
puts payments of several partitions back in order (route, merge). The second
keeps a stage's state over failures (runner); it does not care what the stage
computes. The third pairs what the aggregators computed into decisions (join),
assuming of its input what the first two establish: each sender's parts come in
a fixed order and with fixed contents, and may come again from any earlier
point. The service's counterpart of all three is the idempotency store with its
snapshots; the other parts of the service are protocols of their own. What it
means for a payment to count is `KeyedState`'s. The other sequential code is
modelled as operators and checked over bounded inputs.

### 2.1 `Merger`, `RouteMerge`

`Merger` is `merge.go` as operators on a record: `Add`, `AdvanceWatermark`,
`Releasable`, `Pop`, named after the methods. The heap is a set with a least
element, ordered by `Less`. `RouteMerge` drives it:

| in the code | in the module |
|---|---|
| payments partition | `payments[s]`, an append-only sequence; offsets count from 1 |
| group offset of the router stage | `committed[s]` |
| group membership | `owner[s]` |
| a router instance | `router[r]`: whether it has the partition, next offset, last position, what it has still to send and the step of its batch |
| entity-events partition of an aggregator | `events[a]`, the messages in the order Kafka wrote them |
| aggregator | `agg[a]`, a merger and the events applied |
| `Runner.batch` of a stateless stage | `RouteBatch`, `SendEvent`*, `Flushed`, `SendWatermark`*, `Commit` |
| `assigned`, `revoked`, `lost`, process death | `Assign`, `Revoked`, `Lost`, `Crash` |
| `aggregator.handle`, `apply` | `HandleRecord`, `Release` |

The client's queue is in order per target partition, which is what idempotent
writes give; between partitions it is not, so `SendEvent` may overtake between
aggregators but not within one. A payment's entities are numbered and hashed to
aggregator partitions by `Routes`; an entity may be absent. `InOrder` says
whether producers keep the contract of `produce.go`, positions that move
forward within a partition.

### 2.2 `Checkpoint`, `StatefulStage`

One partition of a stage with state. What a task computes is a function of the
records it has handled, so its state *is* their sequence (`handled`), and an
output is its number and the state it was computed from. That makes "the same
output" and "the right state" visible without modelling aggregation or joining.

| in the code | in the module |
|---|---|
| `taskState{t, next, dirty}` | `proc[r].on`, `handled`, `next`, `dirty`; -1 is 0 |
| kgo producer's buffer, which outlives a task | `proc[r].buffer[d]` |
| downstream partitions | `out[d]` |
| `DirStore` entry | `snap`: state and offset, replaced at once |
| `checkpoint`: flush, put, commit | phases `flush`, `put`, `commit`; actions `Flushed`, `PutSnapshot`, `Commit` |
| `assigned` and `adjust` | `Assign`: restore the snapshot, fetch from its offset |
| a group that gave a live member's partition away | `Assign` while `~Unattended` |
| the contiguity check | `Upcoming`, `GapStop` |
| `revoked`, `shutdown` | `Leave`, then the same checkpoint with `leaving`; `HandoverFails` |

`StatefulStage` is the promise: one process that never fails handles its input
in order, and the readers, who drop what lies under their high-water mark, see
each output once. `ReadersSeeOneProcess` maps `Checkpoint` to it by what a
reader of `join.go` accepts of each log (`Accepted`).

### 2.3 `Idempotency`

| in the code | in the module |
|---|---|
| request with key and body hash | `key[r]`, `body[r]`, `phase[r]` |
| `idemEntry` | the request that claimed it: `Ready(e)` iff it has answered |
| `entries`, the list in order of age | `store`, with `at[e]` the order of claims |
| `claim` with its loop | `Claim`: own, replay, refuse a reused key, or wait on an entry; woken requests claim again |
| `cut` (RWMutex) | `Begin` takes it for reading, `CopyAnswers` for writing |
| `ScoreAndUpdate` over sharded state | `CountIn(r, s)`, shard by shard |
| `finish`, `abandon` (also after a panic) | `Finish`, `Abandon` |
| TTL and capacity | `old`, `Expired`; `MaxEntries`, `Evicted` |
| `Snapshot`, `writeSnapshot`, `writeAtomic`, `restoreSnapshot` | `StartSnapshot`, `CopyShard`, `CopyAnswers`, `WriteFile`, `Restart` |

`forgotten` is a history variable: the requests whose entries left the store by
age or at capacity.

### 2.4 `Joiner`, `Scoring`

`Scoring` is the promise of the whole pipeline about decisions: one engine that
scores the payments one after the other (`ScoreAndUpdate`), each decided once.
The state of a key is the set of payments added to it, so a decision shows
exactly which history each of its features was computed from.

| in the code | in the module |
|---|---|
| `router.handle` and its resends after a restart, also while a replaced instance goes on | `sender[s, i]`: instance 2 owns the partition, 1 is the one it replaced; `SendBase`, `TakeOver` |
| `aggregator.handle`, the numbered outputs, a restart from its checkpoint | `Emits[a]`, `aggNext[a]`; `SendEntity`, `RestartAgg` |
| the parts partition | `parts`, in the order Kafka wrote it |
| `joiner.pending`, `lastSrc`, `lastAgg` | the same names |
| `joiner.handle`: duplicate, base, entity, complete, decide | `Handle` |
| `snapshot`, `restore` | `Checkpoint`, `Restart` |

`DecidesSequentially` is `Scoring`'s specification, fairness included, with
`decided` mapped to the contents of the decisions topic. What the joiner takes
from the other two protocols is an assumption here: every aggregator releases
each event of its keys once, in event-time order (`ReleasedAssumption`; in
`RouteMerge`, `AppliedOnce` and `AppliedInOrder`).

### 2.5 `RuleStore`

| in the code | in the module |
|---|---|
| `handleRulesPut` reading the live lists before the lock | `HandleRulesPut` |
| `deploy`: number, compile, `persist`, `install` | `DeployBegin`, `SaveLists`, `SaveRules`, `DeployEnd` |
| `writeAtomic`, failing before or after its rename | `Save` |
| `ruleVersion`, `shadowStat`, counters by rule id | `cur`, `stats`, `counts`; a stat is `<<rule, version>>` of the deploy that made it, and knows the versions it counted for |
| assess: load the version and decide, count in it, log | `AssessLoad`, `AssessCount`, `AssessLog` |
| the decisions made, and the records of them that are in the log's file | `made`, a history variable; `logged`: a record may be dropped by `put`, fail to be written, or be lost with the buffer in a crash |
| snapshot of rules, then of the live shadow counters | `SnapshotRules`, `SnapshotWrite` |
| `New`: load the history directory, restore the snapshot, or else deploy the configured rules | `NewRules`, then `DeployBegin(Boot)`... |
| `Close`, a crash that loses any of the decision log's records | `Close`, `Crash` |

A rule text is a model value with the ids of its rules; which pairs of text and
lists compile is a constant. Which rule decides a payment is chosen. The store
has a history directory, as the properties are about it, and the counters a
request raises one by one (`assess.go:317-326`) are raised in one step, which is
where the properties take the decision to be made; a snapshot or a report between
two of those raises is not explored. `GET /v1/rules/shadow` compares the counters
with the log (`shadow.go:98-100`), and `ShadowAgrees` says when the two agree. The
report's own note on a disagreement looks only at what the present process
dropped, so a failed write or an earlier process's drops show without it.

### 2.6 `Webhook`

One action per point where another delivery, a snapshot or the end of the
process can come between.

| in the code | in the module |
|---|---|
| `Deduper`: the entries in order of age | `seen`; `Expire`, `InsertEntry`, `CommitEntry`, `ReleaseEntry` |
| handler: `Begin`, `Record`, `Commit` or `Release` | `Deliver`, then one of `RecordIgnored`, `RecordClosed`, `RecordInMemory`, `RecordAppend` and `RecordSync`, or their failures; `Commit`, `Fail` |
| `LabelStore`: labels, sequence number, mutex | `labels` (payments that succeeded; the latest state of each dispute), `seq`, `labelLock` |
| the label log, with a torn end | `file`, `frag` |
| the two copies of `writeSnapshot`, under different locks | `SnapshotDedupe`, `SnapshotLabels` |
| `New`: restore, then replay the log line by line | `NewLabels`, `ReplayLine`, `ReplayFails`, `ReplayEnd`; `pos` |
| `Close`, a crash at any point, also between a write and its fsync | `CloseLabels`, `Stop` |

The sender may deliver any event at any time, also after a 200. Its part of the
contract is `HookAssumption`: whole seconds, no dispute opened after it was
closed, and events that close one dispute in one second agree on the outcome.

### 2.7 `DecisionLog`, `SyncMap`, `BacktestCache`, `EventTimeGuard`

- `DecisionLog`: requests put records on a bounded channel (`PutSend`) or count
  them as dropped; the writer takes them, flushes and answers the barriers of
  `Sync`; `Close` waits for the write lock (`CloseLock`), which keeps new
  readers out, and for the writer. Writes may fail, after which bufio's error
  sticks (`broken`).
- `SyncMap`: one key of `features/concurrent.go`. A request loads or creates the
  entry and locks it in two steps; a sweeper finds, marks dead and deletes it in
  three. `ref` is the same key in a map that is never swept.
- `BacktestCache`: the label version is read before the lock, the labels
  themselves under it, and the cached backtester is filed under the former.
- `EventTimeGuard`: `checkCreated` with its load, comparison and
  compare-and-swap loop.

`MCService` extends all six service protocols. They share no state, so one run
explores them one at a time: the initial state chooses a `part`, and the
variables of the others stay as they start.

### 2.8 `VelocityState`, `KeyedState`

`VelocityState` has the two kinds of entry, `exact.go` and `bucketed.go`, and the
map of them, `keyed.go`, as operators on records, and what a history of payments
says by definition (`Recorded`, `HistoryRead`, `WithinABucket`). `Engine` uses
the operators; `KeyedState` puts them to use as a store is used:

| in the code | in the module |
|---|---|
| `keyed.m` of an exact and of a bucketed store, fed the same payments | `store["exact"]`, `store["bucketed"]`: a function from the keys that have an entry |
| the payments recorded for a key since it was last idle or swept | `history[k]`, a history variable |
| `addCard`, its table of cards and the sweep of the cards no window holds | `CountCard`, `SweepCards` in `AddCard`; `CardSlack` is the 64 of `bucketed.go:198` |
| `ReadAdd`: read, or start the key afresh, then expire and push | `Pay`, for a payment at any time, also a late one |
| `EvictIdle`, at another payment's time | `Sweep` |
| `Snapshot`, then `Restore` into a new process | `Restart` |
| `Read` | `ReadOf`, which changes nothing |

The properties speak of every read at every time: what the exact store answers is
what the history says (`ExactReads`), each count and sum the bucketed one answers
is that of the window asked for or of one up to a bucket longer, both of the same
one (`BucketedBound`). What is kept of a key is bounded, the table of cards
included, in which expired ones linger (`MemoryBounded`). Amounts may be
negative: `risk_fields.TransactionAmt`, which `assess.go:257-261` prefers, need
only be finite. Every snapshot is accepted and gives itself again
(`Restorable`). A restart changes no answer, a sweep none at the time of the
payment that brings it or later (`UpkeepInvisible`). `MCAlgorithms` explores the
stores as one of its subjects, `store`.

### 2.9 The other sequential code

`MCRules` and `MCAlgorithms` have two variables of their own: `subject`, the part
of the code looked at, and `input`, which grows step by step; the state of
`KeyedState` is the input of the subject `store`. An invariant says what the
code makes of every input reached.

| subject | module | input | reference it is compared with |
|---|---|---|---|
| text, tree | `RuleSyntax` | up to 5 tokens; every tree of two operators | the text printed from a tree parses to that tree |
| condition | `RuleCompile`, `RuleLint`, `ColumnEval` | generated conditions with missing operands | three-valued logic (`Truth`), row by row |
| set, rows | `RuleCompile`, `ColumnEval` | rule sets; tables of any length | the same set without shadow rules; the rows put in |
| shared | `Sketch` | events of keys that share cells | never below the exact count, exact when alone |
| payments | `Engine` | payments with parts missing | the payments strictly before, by definition |
| report | `Report` | rule sets over a table with label times; options that differ from those of the report before in one field or in several | deciding every row again with the rule added; a report of a new backtester; every fraud a rule would have caught |
| model, knots, contributions | `Model` | files of a tree, calibrations, contributions | the walk; the sum of contributions; the order of scores |
| csv, load, payload | `Dataset` | files; source files and a cache that come, go and are replaced during a load; payloads | the rows written; the files' versions |

Numbers are integers; hashes, the rounding of floats and the characters of text
are parameters or left out. A bitmap is the set of its set bits.

Two of these properties are weaker than a comment of the code, because the code
is. `Load` answers from the cache when `fingerprint` fails, and it fails when
either source file is missing: with one of the two gone the cache answers
although the other was replaced (`load.go:296-299`; the comment at `load.go:290`
speaks of both gone). `DataKept` therefore asks that a cache never stands for
files other than those it was read from *while both are in place*, and that with
one gone a second load answers what the first did. And the backtester's four views
of `CompareLabelDelay` share one cached window, as in the code: `ReportsTrue` asks
that each truth is every fraud the rule would have caught, whatever view came
before it.

## 3. What is checked

Twelve runs, nine that pass and three that end in the counterexample of a
disagreement. Each property of a passing run has a mutant in `PROJECT.json`: a
plausible slip in the mapped code (an operator defined right before the one it
stands for) under which TLC finds the property violated.

| run | asks | bounds |
|---|---|---|
| `route_merge` | are events applied in order, never late, complete below a passed watermark; is every promised event applied | 2 payments partitions, 2 router instances, 1 aggregator, 2 records at 2 positions, 1 disruption |
| `route_merge_split` | is every event applied at most once and none skipped, also when a producer repeats a position | 2 entities with shared, split or absent keys, 2 aggregators, 2 records, 1 disruption |
| `checkpoint` | do state and offset agree, is what a snapshot remembers delivered; is `StatefulStage` implemented | 2 processes, 2 downstream partitions, 3 records, 2 disruptions |
| `checkpoint_live` | are there holes; is every output delivered as long as no input was deleted | 1 downstream partition, 3 records, 1 disruption, 1 trim, 1 recreation |
| `idempotency` | does one request per key count, is the saved state covered by saved answers | 3 requests, 2 bodies, 2 shards, 2 snapshots, 1 restart, 1 expiry |
| `idempotency_live` | is every request answered | 3 requests, 2 keys, a store of one entry, 1 snapshot |
| `joiner` | does the pipeline decide as `Scoring` does; does a join stay open for nothing | 2 payments that share a card, one with an email, 1 source, 2 aggregators, 2 disruptions, the joiner at most 1 part behind |
| `service_parts` | the six service protocols, see below | see below |
| `algorithms` | the sequential code, see 2.9; of the velocity stores: does the exact one read as the history, the bucketed one within a bucket of it, is what they keep bounded, is every snapshot accepted and stable, are sweeps and restarts invisible | 5 tokens, 4 hits of the sketch, 3 payments, 2 live rules, 10 sets of report options, label delays up to 5 and maturities of 3 and 5, 3 knots, 3 rows, each of 2 files gone or in one of 2 versions at each of 4 moments; the stores with 2 keys, one that tracks cards, 3 cards and a missing one, 3 payments of 1, -2 and 4 at 5 times in any order, windows of 2, 4 and 6, buckets of 1, 2 and 3, distinct cards of the first, a cap of 1 and a slack of 0, any number of sweeps and restarts |
| `rules_audit` | (violated) are the lists of every decision in the history | 2 deploys, 1 snapshot, 1 stop, 1 failed write |
| `rules_lists` | (violated) does a PUT without lists keep the live ones | 2 PUTs at once |
| `labels_glued` | (violated) does every acknowledged label survive a short write | 1 short write |

`service_parts`, by part:

| part | asks | bounds |
|---|---|---|
| log | is every record written or counted (`Accounted`), does Sync see all (`SyncSeesAll`), does everyone get through (`AllReturn`) | 2 requests with 2 records each, 1 syncer, a channel of 1, 1 failed write |
| map | are evictions invisible (`EvictionInvisible`) | 3 requests, 2 sweepers, idle time 1 |
| cache | is a cached backtester ever stale (`NeverStale`) | 2 requests at once, 3 in all, 2 label changes, 2 rule versions |
| guard | is the latest accepted time exact (`LatestIsMax`) | 2 requests, times up to 3, skew 1 |
| hook | do acknowledged labels survive (`AckedSurvive`), is what is seen applied (`SeenHasLabel`) | an event opening and one closing a dispute in the same second, one of no interest; 2 deliveries, a deduper of 1 entry, 2 snapshots, 2 stops, 1 failed write |
| rules | can the audit find the rules (`HistoryHolds`), does the service start (`NewStarts`), do counters agree with the decisions and the log (`CountsAgree`, `ShadowAgrees`) | 1 PUT at a time, 2 deploys in all, 1 decision, 1 snapshot, 1 stop, 1 failed write; 3 texts, 2 list sets |

**Why the bounds are enough.** A *disruption* is a crash, a revocation or a
takeover from a live member. One is enough for a resend, for a takeover with two
concurrent senders, or for a crash at each point of a batch; `checkpoint` and
`joiner` take two, so that a crash may follow a failed handover, and a resend
may meet a restarted joiner. Two deliveries, two snapshots and two stops, with a
deduper of one entry, let an event be evicted between Begin and Commit, and a
replay follow a replay. Two payments partitions are the least for which a
minimum watermark differs from one partition's. Two entities are the least for
which the high-water mark must order (offset, entity), and a payment can be
complete in one part and not in the other; two aggregators for which the outputs
of a batch can overtake each other. Two payments with one card are the least for
which a feature depends on the order. Three requests are an owner, a waiter, and
a retry. Two shards are the least for which a snapshot can be cut between them.
A channel of one record with two senders is full and closing at once. Two
sweepers and three requests allow an entry to be evicted, created anew and swept
by the one that found the old. Two deploys are a failed one and the one that
takes its number. The five times of the velocity stores lie at every distance
from 1 to 7 of each other: on, inside and past the edge of each window and of
the idle time; three payments are one that leaves a window, one that is late,
and one of a card seen before; and with a cap of 1 and no slack the third card is one
too many, unless the table was swept. A maturity of 3 leaves out a label that a
maturity of 5, the longest delay, does not. Four hits put three keys in the
sketch's shared cells and past its ring. Word and chunk sizes of 2 and 4 rows
give a table of five rows a partial word and a partial chunk. What the theorems below cover,
they cover for every bound. All runs but `algorithms` disable deadlock checking:
with the bounds used up the systems may stop. That no goroutine waits for ever
is asked as liveness instead (`AllReturn`, `AlwaysAnswered`).

**Symmetry** is used in safety runs only: routers, processes, downstream
partitions, requests, keys, bodies and shards are interchangeable; aggregators
and sources are not, since routes and tie-breaks name them.

**Fairness.** `RouteMerge` and `Checkpoint`: a task polls and finishes what it
began (`Runner.Run` loops until it stops), a client sends what it holds, a lost
member is told, and the group assigns a partition that no live member holds -
each weakly fair. Producers, retention, crashes and revocations are not fair.
`Joiner`: the instance that owns a payments partition sends, aggregators send,
the joiner handles what it polls; takeovers and restarts are finitely many.
`Idempotency`: handlers and the snapshot loop are weakly fair; `Begin`, taking
the read lock, is strongly fair because Go's RWMutex lets the readers that wait
behind a writer in before the next writer. Clients need not give up (`Cancel` is
not fair): no request depends on it. `DecisionLog`: the runtime schedules the
goroutines that can run - the writer, a request in `put`, a `Sync` whose send has
room, `Close` once it may lock; the writer's ticker and new calls are not fair.

### Disagreements between the code and its documents

Each has a run that ends in the counterexample, and a finding in `PROJECT.json`.

1. *Lists the audit cannot find* (`rules_audit`). A deploy that fails after its
   rename leaves a file of the version the next deploy takes; with the same text,
   `persist` keeps that file and its lists (`rulestore.go:229`), although the
   version "is written there before it goes live, so no decision is ever made by
   rules the audit cannot find" (`rulestore.go:116-118`).
2. *Live lists not kept* (`rules_lists`). A PUT without lists copies the live
   lists before `deploy` takes the lock (`handlers.go:113`); lists deployed in
   between are replaced by the older ones, although "without lists the live lists
   are kept" (`handlers.go:86-87`).
3. *A label lost after a short write* (`labels_glued`). The next record is
   appended to the fragment a failed write left (`labels.go:222`); its webhook is
   acknowledged and no restart replays it (`labels.go:23-32` says startup does).

Some smaller ones were met while modelling. The models contain them; no run is
spent on them, and the properties above are stated so as to hold beside them.

- `router.last` starts over with each router, so a payment out of order across a
  restart is late at the aggregator and counted by no router
  (`route.go:94-96`). The late event is still applied once.
- A task restored from an old snapshot skips all records below its offset, so a
  recreated topic that has grown beyond it is taken for a contiguous continuation
  (`runner.go:332-339`). `StateIsPrefix` is proved for input that was not deleted.
- A request waiting for an entry that is evicted at capacity while its owner runs
  finds nothing and assesses the payment anew (`idempotency.go:127`), so that a
  retry which was not late counts twice (`idempotency.go:27-28`). `CountedOnce`
  excepts the forgotten entries.
- A sweep runs at another key's payment time (`keyed.go:64-73`). A payment late
  across it finds its key gone, which by its own time was still live, although
  idleness "is decided from event times alone, so when EvictIdle physically frees
  the memory changes nothing" (`state.go:112-115`). In `KeyedState`: a payment at
  10, a sweep at 16, a read at 13. For reads no earlier than the sweep it does
  change nothing (`UpkeepInvisible`, `EvictionInvisible`), which is proved.
- "Counts and sums therefore never undercount" (`bucketed.go:38-39`) fails for a
  sum when a payment in the extra part of a bucket has a negative amount, which
  `risk_fields` may carry (`assess.go:257-261`, `riskfields.go:182-216`).
  `BucketedBound` says of which payments a sum is instead.
- With one source file missing, `Load` answers from a cache that is older than
  the other (section 2.9).

## 4. What is proved

TLAPS checks the theorems below for every value of the constants: any number of
partitions, instances, requests, shards, records, crashes, payments. The
assumptions are the named `ASSUME`s of the modules, which TLC evaluates in the
runs: `None` is not a node, counts are naturals, a store holds at least one
entry, windows increase, buckets divide them and none is longer than the idle
time (what `init`, `checkTTL` and `NewBucketed` panic about otherwise); and,
where a component relies on another or on its clients, what it relies on
(`ReleasedAssumption` of `Joiner`, `HookAssumption` of `Webhook`,
`BootAssumption` of `RuleStore`: the configured rules compile). Every safety
invariant of a protocol and of the keyed stores that a run checks is the
`property` of a theorem, and both refinements are theorems, `Joiner`'s without
its liveness.

**`RouteMergeProofs`.** The inductive invariant follows the path of an event.
*In the log*: every logged event is one its partition owes (`LogGenuine`), comes
after all earlier events of its source (`LogClosed`), and a logged watermark is
preceded by all events, past and future, at or before its position
(`WatermarkTrue`). *In a router*: what it has passed is logged or still unsent
(`RouterOK`), and what is committed is logged (`CommittedLogged`). *In the
merger*: what is applied or held is what it has handled of its log, its marks
and watermarks are those of records it has handled (`MergerOK`), and what is
applied lies behind the release frontier, what is held ahead of it
(`FrontierOK`). The properties alone are not inductive: that no event is late
depends on watermarks already in the log, those on what the router had in flight
when it sent them, and that on where it restarted. From the invariant follow
`TypeCorrect`, `NeverLate`, `OrderRestored`, `ExactlyOnce`, `NoGap`, `LowHolds`
and the action property `WatermarksMonotone`.

**`CheckpointProofs`.** What a task remembers having emitted is downstream or
still in its client's buffer (`Accounted`); the buffer is empty while the
snapshot is put and committed (`EmptyAtPut`); what is buffered is in an order
that leaves no hole (`NoHoleInBuffer`). Hence `NothingForgotten` (the saved
state's outputs are delivered) and `ArrivesInOrder` (no hole under a reader's
mark), with trims and recreated topics included, and `Types`. As long as nothing
was trimmed or recreated (`Lossless`), a second invariant (`PrefixInv`) says
that every state, saved or running, is the input up to its offset, and every
output, sent or buffered, is that of a prefix of the input which ends in a
record for its partition. Hence `StateAgrees`; and since the longer of two such
prefixes has emitted more (`LongerEmitsMore`), a number determines its output:
`SameOutput`. It follows that a log without holes holds the outputs of a
prefix of the input, each perhaps several times: what is sent is then either
known to the reader, or `StatefulStage`'s next output (`NewIsNext`). Hence the
refinement, `SeesOneProcess`: `Spec /\ []Lossless => ReadersSeeOneProcess`.
The restriction is needed: a recreated topic that goes unnoticed
(section 3) gives a task a state that is no prefix of its input.

**`IdempotencyProofs`.** The store never holds two entries of one key, a counted
request is running, answered and stored, forgotten, or panicked (`Held`), and
while a snapshot is copied every request already copied is still accounted for
(`CutInv`), which needs the answers to be copied with no request between begin
and settle. Hence `CountsOnce` and `CutIsConsistent`; and `ReplaysAreAnswers`, which
no run checks: a replayed answer is that of a finished request with the same key
and body.

**`JoinerProofs`.** No part is in the partition before the parts its sender
numbered lower (`NoHoles`, `SentInOrder`), so the high-water marks say exactly
which parts were received (`Marks`), and the pending joins are those of the
payments of which some but not all parts were, holding what these parts hold
(`Joined`); the same is true of the joiner's checkpoint and its marks. Hence
`JoinsBounded` (`NoLeftovers`). An aggregator releases in event-time order, so
the values in a part are what the sequential engine computes (`EntityValues`), a
complete join yields `ScoreAndUpdate` of its payment, and a decision sent again
is the same decision. Hence `DecidesAsOneEngine`: `Joiner` implements the safety
of `Scoring`, `DecidesSequentially` without its fairness.

**`SharedStateProofs`**, of the four protocols about memory that requests share.
`EvictionUnseen`: at most one entry is alive, and it is the one the map holds;
it agrees with the map that is never swept, or it is fresh and the other is idle
at every time a sweep has used. `NoStaleBacktest`: the cached backtester is at
least as new as the version it is filed under, because that version was read
first. `LatestExact`: the word never falls below what a request loaded, so a
swap that succeeds never lowers it. The decision log: while no write failed,
what the channel accepted is in the file, in the write buffer or still in the
channel; what a barrier waits for is written or ahead of it; a reader has one
barrier on its way, exactly while it waits. When the writer takes a barrier
nothing is ahead of it, and the flush leaves nothing in the buffer:
`SyncComplete`. For `EveryRecordAccounted` the order counts: file, buffer and
channel without its barriers, one after the other, are what was accepted
(`InFile`, `InOrder`, `Queued`), and every record put was accepted, counted as
dropped, or is in `put` (`Balanced`). Assumes finitely many requests, told apart
from the readers.

**`RuleStoreProofs`.** Deploys take turns (`LockHeld`); a version's lists reach
the disk before its rules, and neither changes once the rules are there
(`FilesCompile`, `Saving`), so that whatever was live is on disk as it was live
(`OnDisk`, `Persisted`). Hence `AuditFindsRules` (`HistoryHolds`) and
`RestartNeverRefused` (`NewStarts`). Every number in use is in the history in
memory (`Numbered`), so a deploy's number is new and no decision bears it yet.
A rule's counter is the number of its decisions since the process started
(`CountsHold`): `RuleCountsAgree`. A shadow stat never counts more than the
decisions made by the versions it counted for, saved or restored, beside whatever
version (`StatHolds`, `Saved`); and until a process ends without `Close` it counts
all of them (`StatExact`), because only requests that loaded one of its versions
count in it, and they all do (`StatsOfVersion`, `OnlyStatsOf`). What is counted is
what was decided; whether the log agrees is then a question of what reached its
file, and `ShadowReportAgrees` says so: exactly when every record did. After a
crash the two may differ, as counters since the last snapshot and records in the
buffer are lost independently; never credited too much is what remains, and is
proved.

**`WebhookProofs`.** A label once reflected stays so whatever is applied later
(`ApplyKeeps`), and an applied event is reflected even when it was stale
(`ApplyReflects`); these need the sender's part. So what the deduper calls
processed is labelled, in memory, in a snapshot under way and in the saved one
(`Labelling`, `Saved`): `SeenAreLabelled`. An event acknowledged, or about to be,
is in the snapshot's labels or in a synced line after it (`Durable`); the numbers
in the log grow, and the next is above them all (`Sound`, `Numbering`), so that a
replay skips only what the snapshot has (`Replaying`): `AckedLabelsSurvive`.

**`KeyedStateProofs`.** What a store holds of a key follows from the key's
history. The inductive invariant says so: `TypeOK`, and `Holds` of each store,
by which a key has an entry exactly if its history is not empty and the entry
stands to the history as `ExactOf` or `BucketedOf` says. *Exact*: the entry's
events are the last of the history, a window starts where its events do, at the
time of the last commit (`Placed`); its totals are those of what is inside
(`Totals`); the table of cards holds the latest event of each card inside the
distinct window, and no other (`CardsKnown`). *Bucketed*: a window is a queue of
non-empty buckets in order that together hold the payments from the oldest
bucket on (`Queue`), the totals are theirs, each live card counts in the
bucket of one of its payments (`CardsOf`), and the table of cards, expired ones
included, has not outgrown twice the cap and the slack (`Roomy`), since a sweep
takes from it only what no read would count (`CardsSwept`). That reads are right is not
inductive: what the next read answers depends on totals, starts and tables that
no present read shows, and a snapshot leaves them out. The argument then has one
lemma per operation. The walk of a read and the commit of an add are the same
(`DropOldest` of each window's expired front), so a read equals the history's
count in the window and an add keeps the relation; a restart pushes every event
and drops to the same starts (`RestartOfExact`), or sums the saved buckets
(`RestartOfBucketed`); a sweep frees an entry only with its history. The bound
follows since a window lies inside its buckets' span, and the span inside a
window one bucket longer (`SpanWithin`). Hence `ExactReadsHold`,
`BucketedBoundHolds`, `RestorableHolds`, `MemoryBoundedHolds` and
`UpkeepInvisibleHolds`. A sum over a set is a fold of the community modules, and
what it computes is proved from its definition first (a set without one element
sums to the rest; disjoint sets, a shift, groups).

Where an argument needs induction over a finite set or a sequence (the k-th
index of a set, a count that goes up by one) the proofs take the least
counterexample (`LeastNat`, from `WFMin`), or make the step an action's:
the library's induction theorems cannot be applied with the provers at hand.

`TypeCorrect`, `WatermarksMonotone`, `Types`, `SameOutput`, `Typed` and
`ReplaysAreAnswers` are proved and not among the properties of the runs; TLC
found no counterexample to them on the instances above before they were proved.

**Only model-checked.** Liveness, which this prover cannot do:
`EventuallyApplied`, `EventuallyDelivered`, `AlwaysAnswered`, `AllReturn`, and
that `Joiner` keeps `Scoring`'s fairness. And what `MCRules` and `MCAlgorithms`
say of the other sequential code: `RoundTrips`, `Evaluates`, `SketchKept`,
`TrainServe`, `ReportsTrue`, `ScoresExplained` and `DataKept` are about what a
recursion or a fold computes for every tree, table or file, which needs
induction over the data; `RuleSyntax`, `RuleCompile` and `ColumnEval` also use
recursive operators, about which nothing can be proved here. The velocity stores
escape this because a store is built one payment at a time: induction over the
steps of `KeyedState` takes the place of induction over the history.

## 5. What is left out, and why

- *Content.* Amounts, features, scores and encodings are not modelled where a
  property does not tell them apart: an event is its place (partition, offset,
  entity, position), a state its history, a body its hash.
- *Stream.* `ArrivalOrder`, a switch for experiments that turns the merger off;
  records that name an unknown partition, on which the aggregator stops;
  unreadable snapshots, on which the runner stops; a `newTask` that fails, which
  leaves its partition without a task; several records in one poll are several
  polls; a checkpoint saves one partition, while the code's saves all the
  partitions of a process, one after the other. The labels stage has no state of
  its own: it records into the store `Webhook` models. Byte encodings, topic
  administration, metrics and the read-only tools keep no protocol state.
- *Service.* Requests without a key; JSON; GET handlers and reports, which only
  read; what the audit prints. The snapshot file is modelled in three parts, each
  with the part of the service it belongs to, not as one file. Body hashes do not
  collide. Webhook signatures and the parsing of an event are pure functions of
  their input with shared test vectors: only deliveries that pass reach the model.
- *Rules.* Characters, from which the lexer makes tokens; the wording and place of
  diagnostics; the random generator.
- *Features.* The hash functions, which are parameters; the estimate computed from
  a HyperLogLog register file; the bytes of a snapshot; the wraparound of int64
  sums, which 2^63 cents would need. The sketch's sums are checked for amounts that
  are not negative, for which alone its bound is meant.
- *Backtest, model, data.* File codecs, CSV quoting, interning, the rounding of
  float64, the parsing of numbers, benchmarks and formatting; `NewScorer`'s
  comparison of a model with its encoder, metadata and the catalog.
- *Kafka* is modelled by what the code relies on: partitions are logs, writes of
  one client to one partition arrive in order, an acknowledged write stays, and
  the group refuses commits of a replaced member. Files are replaced atomically
  (`writeAtomic` and `DirStore.Put` write, sync, rename, and sync the directory).
- *Not at all*: the synthetic generator, the load generator, the commands and the
  Python training code, each with its reason in `PROJECT.json`.

## 6. Plan

1. The service's shutdown order, which the commands wire: `Idempotency`,
   `DecisionLog`, `Webhook` and `RuleStore` closed one after the other.
2. The sketch as a store of `KeyedState`: the ring and its cells, like the buckets,
   change one payment at a time, so `SketchKept` could become an invariant that is
   proved; the estimates of distinct cards stay outside.
