----------------------------- MODULE RuleStore -----------------------------
(***************************************************************************)
(* The service's rule store: PUT /v1/rules, the versions it numbers,       *)
(* writes to the history directory and swaps in, the shadow rules'         *)
(* counters that follow a rule from version to version, the decisions      *)
(* requests make with the version they loaded, the snapshot, and what a    *)
(* restart finds on disk (internal/service: rulestore.go, handlers.go,     *)
(* snapshot.go, shadow.go and service.go's New and Close).                 *)
(*                                                                         *)
(* A rule set is a model value (a text) with the ids of its live and of    *)
(* its shadow rules; which rule decides a payment, and which shadow rules  *)
(* match it, depends on the payment and is chosen.  A decision's record    *)
(* may or may not reach the decision log's file: DecisionLog models how.   *)
(***************************************************************************)
EXTENDS Naturals, Sequences, FiniteSetsExt, Functions

CONSTANTS Puts,          \* the PUT requests that may be in progress at once
          Boot,          \* the deploy New makes when there is no snapshot
          Assesses,      \* the assess requests in progress at once
          Texts, Lists,  \* rule texts and named lists
          Compiles,      \* the pairs <<text, lists>> that compile
          Bodies,        \* the PUT bodies: pairs <<text, lists or None>>
          LiveRules,     \* [Texts -> set of ids of its enforced rules]
          ShadowRules,   \* [Texts -> set of ids of its shadow rules]
          BootText, BootLists,   \* cfg.Rules and cfg.ListsJSON: a pair of Compiles
          None,          \* nothing (no lists in a body, no rule, nobody), none of the above
          MaxDeploys, MaxDecisions, MaxSnapshots, MaxStops, MaxFailures

VARIABLES
  proc,       \* "down", "boot" (New is deploying) or "up"
  cur,        \* the live ruleVersion, with the stat each shadow rule counts in
  history,    \* version -> its text and lists, in memory
  stats,      \* every shadowStat since the process started: <<rule, version>> of
              \* the deploy that made it (0: restored) -> [rule, versions, evaluated, matched]
  shadows,    \* shadow rule id -> its stat
  counts,     \* enforced rule id -> decisions it made
  lock,       \* who holds ruleStore.mu
  deploying,  \* each deploy's progress
  assessing,  \* each assess request's progress
  snapping,   \* the version a snapshot in progress has copied, or None
  ruleFiles, listFiles,  \* the history directory: version -> contents
  snapFile,   \* the snapshot file, or None
  made,       \* every decision made and counted, in order
  logged,     \* those whose record is in the decision log's file
  since,      \* how many of them are older than this process
  crashed,    \* some process ended without Close
  deploys, snaps, stops, failures   \* bounded by the constants

memory == <<cur, history, stats, shadows, counts, lock, deploying, assessing, snapping>>
disk == <<ruleFiles, listFiles, snapFile, logged>>
bounds == <<deploys, snaps, stops, failures>>
ruleVars == <<proc, memory, disk, made, since, crashed, bounds>>

Deployers == Puts \cup {Boot}
Idle == [at |-> "idle"]
NoFun == [x \in {} |-> x]
Added(f, k, x) == [q \in DOMAIN f \cup {k} |-> IF q = k THEN x ELSE f[q]]

(* None is nothing else; deploy compiles before it numbers rules.          *)
ASSUME StoreAssumption ==
  /\ Boot \notin Puts /\ None \notin Puts \cup {Boot}
  /\ IsFiniteSet(Assesses)
  /\ \A c \in Compiles : None \notin LiveRules[c[1]]
ASSUME BootAssumption == <<BootText, BootLists>> \in Compiles

(***************************************************************************)
(* deploy, one action for each point where another goroutine, a crash or a *)
(* failing write can come between.                                         *)
(***************************************************************************)
NextVersion ==
  1 + Max({0} \cup DOMAIN history \cup (IF cur = None THEN {} ELSE {cur.version}))

(* The process is gone, and with it all it had in memory. *)
Exit ==
  /\ proc' = "down" /\ cur' = None /\ history' = NoFun
  /\ stats' = NoFun /\ shadows' = NoFun /\ counts' = NoFun
  /\ lock' = None /\ deploying' = [p \in Deployers |-> Idle]
  /\ assessing' = [r \in Assesses |-> Idle] /\ snapping' = None

(* deploy returns an error: the PUT is answered 422 or 500, and New fails. *)
Refuse(p) ==
  IF p = Boot THEN Exit
  ELSE /\ deploying' = [deploying EXCEPT ![p] = Idle]
       /\ lock' = IF lock = p THEN None ELSE lock
       /\ UNCHANGED <<proc, cur, history, stats, shadows, counts, assessing, snapping>>

(* The handler reads the body; without lists it takes the live ones. *)
HandleRulesPut(p, text, lists) ==
  /\ proc = "up" /\ deploying[p] = Idle /\ deploys < MaxDeploys
  /\ deploying' = [deploying EXCEPT ![p] =
       [at |-> "deploy", text |-> text, keeps |-> lists = None,
        lists |-> IF lists = None THEN cur.lists ELSE lists]]
  /\ deploys' = deploys + 1
  /\ UNCHANGED <<proc, cur, history, stats, shadows, counts, lock, assessing,
                 snapping, disk, made, since, crashed, snaps, stops, failures>>

(* persist finds a file of the version with other rules. *)
ConflictsNever(v, text) == FALSE
Conflicts(v, text) == v \in DOMAIN ruleFiles /\ ruleFiles[v] # text

(* deploy takes the lock, numbers the version, compiles, and persist looks *)
(* for a file of that version.                                             *)
DeployBegin(p) ==
  /\ deploying[p].at = "deploy" /\ lock = None
  /\ LET d == deploying[p]
         v == NextVersion
     IN  \/ /\ <<d.text, d.lists>> \notin Compiles \/ Conflicts(v, d.text)
            /\ Refuse(p)
         \/ /\ <<d.text, d.lists>> \in Compiles /\ ~Conflicts(v, d.text)
            /\ lock' = p
            /\ deploying' = [deploying EXCEPT ![p] =
                 [at |-> IF v \in DOMAIN ruleFiles THEN "install" ELSE "lists", v |-> v,
                  text |-> d.text, lists |-> d.lists, keeps |-> d.keeps]]
            /\ UNCHANGED <<proc, cur, history, stats, shadows, counts, assessing,
                           snapping>>
  /\ UNCHANGED <<disk, made, since, crashed, bounds>>

(* writeAtomic: it may fail before its rename or after it, when the        *)
(* directory cannot be opened or synced.                                   *)
Save(p, next, files, content, files2) ==
  \E ok, written \in BOOLEAN :
    /\ ok => written
    /\ ok \/ failures < MaxFailures
    /\ failures' = IF ok THEN failures ELSE failures + 1
    /\ files2 = IF written THEN Added(files, deploying[p].v, content) ELSE files
    /\ IF ok THEN /\ deploying' = [deploying EXCEPT ![p].at = next]
                  /\ UNCHANGED <<proc, cur, history, stats, shadows, counts, lock,
                                 assessing, snapping>>
             ELSE Refuse(p)

SaveLists(p) ==
  /\ deploying[p].at = "lists"
  /\ Save(p, "rules", listFiles, deploying[p].lists, listFiles')
  /\ UNCHANGED <<ruleFiles, snapFile, logged, made, since, crashed, deploys, snaps, stops>>

SaveRules(p) ==
  /\ deploying[p].at = "rules"
  /\ Save(p, "install", ruleFiles, deploying[p].text, ruleFiles')
  /\ UNCHANGED <<listFiles, snapFile, logged, made, since, crashed, deploys, snaps, stops>>

(* install: a shadow rule goes on counting in its stat only if the version *)
(* live until now (prev) has it; otherwise it starts a new one.            *)
Continues(r, prev, sts, shs) ==
  r \in DOMAIN shs /\ prev \in sts[shs[r]].versions

Installed(v, text, prev, sts, shs) ==
  LET kept == {r \in ShadowRules[text] : Continues(r, prev, sts, shs)}
      fresh == ShadowRules[text] \ kept
      shs2 == [r \in DOMAIN shs \cup fresh |-> IF r \in fresh THEN <<r, v>> ELSE shs[r]]
  IN  [stats |-> [x \in DOMAIN sts \cup (fresh \X {v}) |->
                    IF x[1] \in fresh /\ x[2] = v
                    THEN [rule |-> x[1], versions |-> {v}, evaluated |-> 0, matched |-> 0]
                    ELSE IF \E r \in kept : x = shs[r] THEN [sts[x] EXCEPT !.versions = @ \cup {v}]
                    ELSE sts[x]],
       shadows |-> shs2,
       live |-> [r \in ShadowRules[text] |-> shs2[r]]]

(* An enforced rule goes on with the counter of its id. *)
CountersNew(text, cts) ==
  [k \in LiveRules[text] \cup DOMAIN cts |-> IF k \in LiveRules[text] THEN 0 ELSE cts[k]]
Counters(text, cts) ==
  [k \in LiveRules[text] \cup DOMAIN cts |-> IF k \in DOMAIN cts THEN cts[k] ELSE 0]

Install(v, text, lists, prev, hist, sts, shs) ==
  LET new == Installed(v, text, prev, sts, shs)
  IN  /\ cur' = [version |-> v, text |-> text, lists |-> lists, live |-> new.live]
      /\ stats' = new.stats
      /\ shadows' = new.shadows
      /\ counts' = Counters(text, counts)
      /\ history' = Added(hist, v, [text |-> text, lists |-> lists])

(* The version goes live and the PUT is answered 200; New is done. *)
DeployEnd(p) ==
  /\ deploying[p].at = "install"
  /\ Install(deploying[p].v, deploying[p].text, deploying[p].lists,
             IF cur = None THEN None ELSE cur.version, history, stats, shadows)
  /\ deploying' = [deploying EXCEPT ![p] = Idle]
  /\ lock' = None
  /\ proc' = "up"
  /\ UNCHANGED <<assessing, snapping, disk, made, since, crashed, bounds>>

(***************************************************************************)
(* assess: load the live version, count in it, log.                        *)
(***************************************************************************)
Deciding == {r \in Assesses : assessing[r].at = "count"}

AssessLoad(r) ==
  /\ proc = "up" /\ assessing[r] = Idle
  /\ Len(made) + Cardinality(Deciding) < MaxDecisions
  /\ \E rule \in LiveRules[cur.text] \cup {None}, hit \in SUBSET ShadowRules[cur.text] :
       assessing' = [assessing EXCEPT ![r] = [at |-> "count", rv |-> cur, rule |-> rule, hit |-> hit]]
  /\ UNCHANGED <<proc, cur, history, stats, shadows, counts, lock, deploying,
                 snapping, disk, made, since, crashed, bounds>>

(* The stats a request counts in are those of the version it loaded. *)
StatsOfCurrent(r) == cur.live
StatsOf(r) == assessing[r].rv.live

Decision(a) == [version |-> a.rv.version, text |-> a.rv.text, lists |-> a.rv.lists,
                rule |-> a.rule, hit |-> a.hit]

AssessCount(r) ==
  /\ assessing[r].at = "count"
  /\ LET live == StatsOf(r)
         hits == {live[s] : s \in assessing[r].hit \cap DOMAIN live}
     IN  stats' = [i \in DOMAIN stats |->
           [rule |-> stats[i].rule, versions |-> stats[i].versions,
            evaluated |-> stats[i].evaluated + (IF i \in Range(live) THEN 1 ELSE 0),
            matched |-> stats[i].matched + (IF i \in hits THEN 1 ELSE 0)]]
  /\ counts' = [k \in DOMAIN counts |-> IF k = assessing[r].rule THEN counts[k] + 1 ELSE counts[k]]
  /\ made' = Append(made, Decision(assessing[r]))
  /\ assessing' = [assessing EXCEPT ![r] = [at |-> "log", i |-> Len(made) + 1]]
  /\ UNCHANGED <<proc, cur, history, shadows, lock, deploying, snapping, disk, since,
                 crashed, bounds>>

(* The record reaches the log's file, or it does not: put drops it when    *)
(* the queue is full or the log is closing, and a write may fail.          *)
AssessLog(r) ==
  /\ assessing[r].at = "log"
  /\ logged' = logged \cup {assessing[r].i} \/ logged' = logged
  /\ assessing' = [assessing EXCEPT ![r] = Idle]
  /\ UNCHANGED <<proc, cur, history, stats, shadows, counts, lock, deploying,
                 snapping, ruleFiles, listFiles, snapFile, made, since, crashed, bounds>>

(***************************************************************************)
(* The snapshot copies the live version, then, under the lock, the records *)
(* of the shadow rules live by then.                                       *)
(***************************************************************************)
SnapshotRules ==
  /\ proc = "up" /\ snapping = None /\ snaps < MaxSnapshots
  /\ snapping' = [version |-> cur.version, text |-> cur.text, lists |-> cur.lists]
  /\ snaps' = snaps + 1
  /\ UNCHANGED <<proc, cur, history, stats, shadows, counts, lock, deploying,
                 assessing, disk, made, since, crashed, deploys, stops, failures>>

ShadowRecords == {stats[i] : i \in Range(cur.live)}

SnapshotWrite ==
  /\ snapping # None /\ lock = None
  /\ snapFile' = [rules |-> snapping, shadows |-> ShadowRecords]
  /\ snapping' = None
  /\ UNCHANGED <<proc, cur, history, stats, shadows, counts, lock, deploying,
                 assessing, ruleFiles, listFiles, logged, made, since, crashed, bounds>>

(***************************************************************************)
(* Close, a crash, and New.                                                *)
(***************************************************************************)
Quiet == /\ \A p \in Deployers : deploying[p] = Idle
         /\ \A r \in Assesses : assessing[r] = Idle

(* A shutdown that requests outlive is a snapshot and then a Crash; one    *)
(* whose snapshot fails is a Crash.                                        *)
Close ==
  /\ proc = "up" /\ Quiet /\ snapping = None /\ stops < MaxStops
  /\ snapFile' = [rules |-> [version |-> cur.version, text |-> cur.text, lists |-> cur.lists],
                  shadows |-> ShadowRecords]
  /\ Exit
  /\ stops' = stops + 1
  /\ UNCHANGED <<ruleFiles, listFiles, logged, made, since, crashed, deploys, snaps, failures>>

(* What the log's buffer held is lost. *)
Crash ==
  /\ proc # "down" /\ stops < MaxStops
  /\ logged' \in SUBSET logged
  /\ Exit
  /\ stops' = stops + 1
  /\ crashed' = TRUE
  /\ UNCHANGED <<ruleFiles, listFiles, snapFile, made, since, deploys, snaps, failures>>

LoadHistory ==
  [v \in DOMAIN ruleFiles |->
     [text |-> ruleFiles[v], lists |-> IF v \in DOMAIN listFiles THEN listFiles[v] ELSE None]]

HistoryLoads == \A v \in DOMAIN ruleFiles :
                  <<LoadHistory[v].text, LoadHistory[v].lists>> \in Compiles

(* ruleStore.restore with the snapshot's version: the file of that version *)
(* must hold the same text.                                                *)
RestoreLoads ==
  snapFile # None =>
    LET s == snapFile.rules
    IN  /\ <<s.text, s.lists>> \in Compiles
        /\ s.version \in DOMAIN ruleFiles => ruleFiles[s.version] = s.text

(* The counters restored with a rule are those of the versions they were   *)
(* saved with, which need not be the snapshot's.                           *)
RestoredHere(s) ==
  [x \in {y.rule : y \in s.shadows} \X {0} |->
     [(CHOOSE y \in s.shadows : y.rule = x[1]) EXCEPT !.versions = {s.rules.version}]]
RestoredStats(s) ==
  [x \in {y.rule : y \in s.shadows} \X {0} |-> CHOOSE y \in s.shadows : y.rule = x[1]]

(* No deploy runs yet, so New's restore is one step. *)
NewRules ==
  /\ proc = "down" /\ HistoryLoads /\ RestoreLoads
  /\ since' = Len(made)
  /\ IF snapFile = None
     THEN /\ history' = LoadHistory
          /\ proc' = "boot"
          /\ deploying' = [deploying EXCEPT ![Boot] =
               [at |-> "deploy", text |-> BootText, lists |-> BootLists, keeps |-> FALSE]]
          /\ UNCHANGED <<cur, stats, shadows, counts, ruleFiles, listFiles>>
     ELSE LET s == snapFile.rules
          IN  /\ Install(s.version, s.text, s.lists, s.version, LoadHistory,
                         RestoredStats(snapFile),
                         [r \in {x.rule : x \in snapFile.shadows} |-> <<r, 0>>])
              /\ ruleFiles' = Added(ruleFiles, s.version, s.text)
              /\ listFiles' = IF s.version \in DOMAIN ruleFiles THEN listFiles
                              ELSE Added(listFiles, s.version, s.lists)
              /\ proc' = "up"
              /\ UNCHANGED deploying
  /\ UNCHANGED <<lock, assessing, snapping, snapFile, logged, made, crashed, bounds>>

RulesInit ==
  /\ proc = "down" /\ cur = None /\ history = NoFun
  /\ stats = NoFun /\ shadows = NoFun /\ counts = NoFun
  /\ lock = None /\ deploying = [p \in Deployers |-> Idle] /\ assessing = [r \in Assesses |-> Idle]
  /\ snapping = None /\ ruleFiles = NoFun /\ listFiles = NoFun /\ snapFile = None
  /\ made = <<>> /\ logged = {} /\ since = 0 /\ crashed = FALSE
  /\ deploys = 0 /\ snaps = 0 /\ stops = 0 /\ failures = 0

RulesNext ==
  \/ \E p \in Puts, body \in Bodies : HandleRulesPut(p, body[1], body[2])
  \/ \E p \in Deployers : DeployBegin(p) \/ SaveLists(p) \/ SaveRules(p) \/ DeployEnd(p)
  \/ \E r \in Assesses : AssessLoad(r) \/ AssessCount(r) \/ AssessLog(r)
  \/ SnapshotRules \/ SnapshotWrite
  \/ Close \/ Crash \/ NewRules

RulesSpec == RulesInit /\ [][RulesNext]_ruleVars
-----------------------------------------------------------------------------
(***************************************************************************)
(* Properties.                                                             *)
(***************************************************************************)
(* "No decision is ever made by rules the audit cannot find": the rules of *)
(* every decision are in the history directory under its version, and,     *)
(* unless some write of the directory failed, its lists too.  Deploys      *)
(* number versions from memory, so this relates the memory of one process  *)
(* to files left by earlier ones and by deploys that were refused.         *)
HistoryHolds ==
  \A i \in DOMAIN made :
    LET d == made[i]
    IN  /\ d.version \in DOMAIN ruleFiles
        /\ ruleFiles[d.version] = d.text
        /\ failures = 0 => d.version \in DOMAIN listFiles /\ listFiles[d.version] = d.lists

(* Whatever a crash or a failed write leaves on disk, New starts: every    *)
(* version in the directory compiles with its lists (they are written      *)
(* before the rules), and the snapshot's version is not on disk with other *)
(* rules.                                                                  *)
NewStarts == HistoryLoads /\ RestoreLoads

(* A live shadow rule is never credited with a decision that a version it  *)
(* was not live in made, or with a match it did not have: not when a       *)
(* deploy runs between a request's load and its count, and not when a      *)
(* restart restores counters saved beside another version's rules.  And    *)
(* until a process ends without Close, the report of GET /v1/rules/shadow, *)
(* read with nothing in flight, says it agrees with the log exactly when   *)
(* the log's file has the record of every decision of those versions.      *)
ShadowAgrees ==
  proc = "up" =>
    \A r \in DOMAIN cur.live :
      LET st == stats[cur.live[r]]
          of == {i \in DOMAIN made : made[i].version \in st.versions}
          hits == {i \in of : r \in made[i].hit}
          agree == /\ st.evaluated = Cardinality(of \cap logged)
                   /\ st.matched = Cardinality(hits \cap logged)
      IN  /\ st.evaluated <= Cardinality(of) /\ st.matched <= Cardinality(hits)
          /\ ~crashed /\ Quiet => (agree <=> of \subseteq logged)

(* A rule's decision counter follows it by id across versions: it is the   *)
(* number of decisions the rule has made since the process started, of     *)
(* whichever versions, also by requests that a deploy overtook.            *)
CountsAgree ==
  proc = "up" =>
    \A k \in DOMAIN counts :
      counts[k] = Cardinality({i \in DOMAIN made : i > since /\ made[i].rule = k})

(* The comment on deploy (rulestore.go:116): the version is written before *)
(* it goes live, so the audit can find the rules of any decision, lists    *)
(* included.                                                               *)
AuditFindsLists ==
  \A i \in DOMAIN made : listFiles[made[i].version] = made[i].lists

(* The comment on handleRulesPut (handlers.go:86): a PUT without lists     *)
(* keeps the live lists.                                                   *)
LiveListsKept ==
  [][\A p \in Puts : deploying[p].at = "install" /\ deploying[p].keeps /\ deploying'[p] = Idle /\ cur' # None
        => cur'.lists = cur.lists]_ruleVars
=============================================================================
