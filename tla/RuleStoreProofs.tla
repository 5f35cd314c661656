-------------------------- MODULE RuleStoreProofs ---------------------------
(***************************************************************************)
(* The audit finds the rules of every decision, New starts whatever a      *)
(* crash or a failed write left on disk, and the counters of rules and     *)
(* shadow rules count the decisions made, for any rules, deploys,          *)
(* requests, lost records, crashes and failures.                           *)
(*                                                                         *)
(* The argument.  Deploys take turns (LockHeld), and a version's lists     *)
(* reach the disk before its rules, neither to change again once the       *)
(* rules are there (FilesCompile, Saving): so a version that was ever live *)
(* is on disk as it was live (OnDisk).  Every number used since the        *)
(* process loaded the history is in memory (Numbered), so a deploy's       *)
(* number is new: no decision and no shadow rule has it yet.  A stat       *)
(* counts decisions of its versions only (StatHolds, StatsOfVersion), and, *)
(* until a process ends without Close, all of them (StatExact,             *)
(* OnlyStatsOf); a snapshot's records do too (SavedHolds).                 *)
(***************************************************************************)
EXTENDS RuleStore, FiniteSetTheorems, SequenceTheorems, WellFoundedInduction, TLAPS

-----------------------------------------------------------------------------
(* The inductive invariant.                                                *)

Holding == {"lists", "rules", "install"}

LockHeld ==
  /\ DOMAIN deploying = Deployers /\ DOMAIN assessing = Assesses
  /\ \A p \in Deployers :
       LET d == deploying[p]
       IN  /\ d = Idle \/ d.at \in {"deploy"} \cup Holding
           /\ d.at = "deploy" => d = [at |-> d.at, text |-> d.text, keeps |-> d.keeps, lists |-> d.lists]
           /\ d.at \in Holding =>
                d = [at |-> d.at, v |-> d.v, text |-> d.text, lists |-> d.lists, keeps |-> d.keeps]
           /\ d.at \in Holding <=> lock = p
  /\ lock \in Deployers \cup {None}
  /\ \A r \in Assesses :
       LET a == assessing[r]
       IN  \/ a = Idle
           \/ a.at = "log"
           \/ a.at = "count" /\ a = [at |-> a.at, rv |-> a.rv, rule |-> a.rule, hit |-> a.hit]

(* What each state of the process has in memory.                           *)
Processes ==
  /\ proc \in {"down", "boot", "up"}
  /\ proc # "up" => /\ cur = None /\ counts = NoFun /\ stats = NoFun /\ shadows = NoFun
                    /\ \A p \in Puts : deploying[p] = Idle
                    /\ \A r \in Assesses : assessing[r] = Idle
                    /\ snapping = None
  /\ proc = "down" => lock = None /\ deploying[Boot] = Idle
  /\ proc = "boot" => snapFile = None
  /\ proc = "up" => deploying[Boot] = Idle

FilesCompile ==
  /\ DOMAIN ruleFiles \subseteq DOMAIN listFiles
  /\ \A v \in DOMAIN ruleFiles : <<ruleFiles[v], listFiles[v]>> \in Compiles

(* A deploy that holds the lock has a new number.                          *)
Saving ==
  \A p \in Deployers :
    LET d == deploying[p]
    IN  d.at \in Holding =>
          /\ d.v \in Nat \ {0} /\ \A h \in DOMAIN history : h < d.v
          /\ <<d.text, d.lists>> \in Compiles
          /\ d.at \in {"lists", "rules"} => d.v \notin DOMAIN ruleFiles
          /\ d.at = "rules" => d.v \in DOMAIN listFiles /\ listFiles[d.v] = d.lists
          /\ d.at = "install" => /\ d.v \in DOMAIN ruleFiles /\ ruleFiles[d.v] = d.text
                                 /\ failures = 0 => listFiles[d.v] = d.lists

Bounded(S) == \E b \in Nat : \A x \in S : x \in 1..b

(* The numbers in use; no deploy is given one of them.                     *)
Numbered ==
  /\ DOMAIN history \subseteq DOMAIN ruleFiles
  /\ Bounded(DOMAIN history) /\ Bounded(DOMAIN ruleFiles)
  /\ proc = "up" => cur.version \in DOMAIN history
  /\ proc # "down" =>
       /\ \A i \in DOMAIN made : made[i].version \in DOMAIN history
       /\ failures = 0 =>
            \A v \in DOMAIN ruleFiles :
              v \in DOMAIN history \/ \E p \in Deployers : deploying[p].at = "install" /\ deploying[p].v = v

OnDisk(d) ==
  /\ d.version \in DOMAIN ruleFiles /\ ruleFiles[d.version] = d.text
  /\ failures = 0 => listFiles[d.version] = d.lists
OnDiskCompiling(d) == OnDisk(d) /\ <<d.text, d.lists>> \in Compiles

Persisted ==
  /\ made \in Seq(Range(made))
  /\ \A i \in DOMAIN made : OnDisk(made[i])
  /\ proc = "up" => OnDiskCompiling(cur)
  /\ snapping # None => OnDiskCompiling(snapping)
  /\ snapFile # None => OnDiskCompiling(snapFile.rules)
  /\ \A r \in Assesses : assessing[r].at = "count" =>
       OnDisk(assessing[r].rv) /\ assessing[r].rv.version \in DOMAIN history

(* Rule k's decisions in md after the first n.                             *)
MadeBy(md, n, k) == {i \in DOMAIN md : i > n /\ md[i].rule = k}

CountsAre(cts, md, n, req) ==
  /\ None \notin DOMAIN cts
  /\ \A i \in DOMAIN md : i > n => md[i].rule \in DOMAIN cts \cup {None}
  /\ \A r \in Assesses : req[r].at = "count" => req[r].rule \in DOMAIN cts \cup {None}
  /\ \A k \in DOMAIN cts : cts[k] = Cardinality(MadeBy(md, n, k))

CountsHold ==
  proc # "down" =>
    /\ since \in 0..Len(made)
    /\ proc = "up" => LiveRules[cur.text] \subseteq DOMAIN counts
    /\ CountsAre(counts, made, since, assessing)

(* Decisions of the versions vs, and those that shadow rule r matched.     *)
MadeIn(md, vs) == {i \in DOMAIN md : md[i].version \in vs}
MadeHits(md, vs, r) == {i \in DOMAIN md : md[i].version \in vs /\ r \in md[i].hit}

(* The stats version rv points to count it, and no others do.              *)
StatsOfVersion(sts, rv) ==
  /\ DOMAIN rv.live = ShadowRules[rv.text]
  /\ \A r \in DOMAIN rv.live : /\ rv.live[r] \in DOMAIN sts /\ rv.live[r][1] = r
                               /\ rv.version \in sts[rv.live[r]].versions
OnlyStatsOf(sts, rv) ==
  \A x \in DOMAIN sts : rv.version \in sts[x].versions => \E r \in DOMAIN rv.live : x = rv.live[r]

Shaped(st) == st = [rule |-> st.rule, versions |-> st.versions,
                    evaluated |-> st.evaluated, matched |-> st.matched]

(* H: the versions in use.                                                 *)
Uses(md, H) == \A i \in DOMAIN md : md[i].version \in H
StatsOver(sts, H) ==
  \A x \in DOMAIN sts : /\ x = <<x[1], x[2]>> /\ x[2] \in H \cup {0}
                        /\ sts[x].versions \subseteq H /\ Shaped(sts[x])
Counting(sts, shs) == \A r \in DOMAIN shs : shs[r] \in DOMAIN sts /\ shs[r][1] = r

(* A stat of shadow rule k counts decisions of its versions; all of them.  *)
StatHolds(k, st, md) ==
  /\ Shaped(st) /\ st.rule = k
  /\ st.evaluated \in Nat /\ st.evaluated <= Cardinality(MadeIn(md, st.versions))
  /\ st.matched \in Nat /\ st.matched <= Cardinality(MadeHits(md, st.versions, k))
StatExact(k, st, md) ==
  /\ st.evaluated = Cardinality(MadeIn(md, st.versions))
  /\ st.matched = Cardinality(MadeHits(md, st.versions, k))

StatsAre(sts, shs, H, md) ==
  /\ StatsOver(sts, H) /\ Counting(sts, shs)
  /\ \A x \in DOMAIN sts : StatHolds(x[1], sts[x], md)
StatsExact(sts, md) == \A x \in DOMAIN sts : StatExact(x[1], sts[x], md)

StatsHold ==
  /\ StatsAre(stats, shadows, DOMAIN history, made)
  /\ proc = "up" => StatsOfVersion(stats, cur)
  /\ \A r \in Assesses : assessing[r].at = "count" =>
       /\ StatsOfVersion(stats, assessing[r].rv)
       /\ assessing[r].hit \subseteq ShadowRules[assessing[r].rv.text]
  /\ ~crashed =>
       /\ StatsExact(stats, made)
       /\ proc = "up" => OnlyStatsOf(stats, cur)
       /\ \A r \in Assesses : assessing[r].at = "count" => OnlyStatsOf(stats, assessing[r].rv)

(* A snapshot's records count decisions of their versions, and those that  *)
(* Close left, all of them, for the shadow rules of its version.           *)
Saved(x, md) ==
  Shaped(x) /\ x.versions \subseteq DOMAIN ruleFiles /\ StatHolds(x.rule, x, md)
SavedByClose ==
  /\ {x.rule : x \in snapFile.shadows} = ShadowRules[snapFile.rules.text]
  /\ \A x \in snapFile.shadows :
       snapFile.rules.version \in x.versions /\ StatExact(x.rule, x, made)
SavedHolds ==
  snapFile # None =>
    /\ \A x \in snapFile.shadows : Saved(x, made)
    /\ ~crashed /\ proc # "up" => SavedByClose

Types == crashed \in BOOLEAN /\ failures \in Nat

StoreInv == /\ Types /\ LockHeld /\ Processes /\ FilesCompile /\ Saving /\ Numbered
            /\ Persisted /\ CountsHold /\ StatsHold /\ SavedHolds

-----------------------------------------------------------------------------
(* Numbers, sequences and cardinalities.                                   *)

LEMMA NatMin ==
    ASSUME NEW T, T \subseteq Nat, T # {}
    PROVE  \E x \in T : \A y \in T : x <= y
  <1> DEFINE R == OpToRel(<, Nat)
  <1>1. IsWellFoundedOn(R, Nat)
    BY NatLessThanWellFounded
  <1> HIDE DEF R
  <1>2. PICK x \in T : \A y \in T : <<y, x>> \notin R
    BY <1>1, WFMin
  <1>3. \A y \in T : ~(y < x)
    BY <1>2 DEF OpToRel, R
  <1> QED
    BY <1>3

LEMMA MaxIs ==
    ASSUME NEW S, NEW b \in Nat, S \subseteq 0..b, S # {}
    PROVE  Max(S) \in S /\ \A y \in S : y <= Max(S)
  <1> DEFINE T == {x \in Nat : \A y \in S : y <= x}
  <1>1. PICK m \in T : \A y \in T : m <= y
    <2>1. b \in T
      OBVIOUS
    <2> QED
      BY <2>1, NatMin
  <1>2. m \in S
    <2>1. SUFFICES ASSUME m \notin S
                   PROVE  FALSE
      OBVIOUS
    <2>2. \A y \in S : y \in Nat /\ y < m
      BY <1>1, <2>1
    <2>3. m - 1 \in T
      <3>1. PICK y \in S : TRUE
        OBVIOUS
      <3>2. m - 1 \in Nat /\ \A z \in S : z <= m - 1
        BY <1>1, <2>2, <3>1
      <3> QED
        BY <3>2
    <2> QED
      BY <1>1, <2>3
  <1>3. \A y \in S : m >= y
    BY <1>1
  <1>4. Max(S) \in S /\ \A y \in S : Max(S) >= y
    BY <1>2, <1>3 DEF Max
  <1> QED
    BY <1>4

LEMMA BoundedAdd ==
    ASSUME NEW S, Bounded(S), NEW v \in Nat \ {0}
    PROVE  Bounded(S \cup {v})
  <1>1. PICK b \in Nat : \A x \in S : x \in 1..b
    BY DEF Bounded
  <1>2. CASE v <= b
    BY <1>1, <1>2 DEF Bounded
  <1>3. CASE b < v
    <2>1. \A x \in S \cup {v} : x \in 1..v
      BY <1>1, <1>3
    <2> QED
      BY <2>1 DEF Bounded
  <1> QED
    BY <1>1, <1>2, <1>3

(* A deploy's number is larger than any in memory.                         *)
LEMMA NextVersionNew ==
    ASSUME Numbered, Processes
    PROVE  /\ NextVersion \in Nat \ {0}
           /\ \A h \in DOMAIN history : h < NextVersion
           /\ NextVersion \notin DOMAIN history
  <1> DEFINE S == {0} \cup DOMAIN history \cup (IF cur = None THEN {} ELSE {cur.version})
  <1>1. PICK b \in Nat : \A x \in DOMAIN history : x \in 1..b
    BY DEF Numbered, Bounded
  <1>2. S \subseteq 0..b /\ S # {}
    BY <1>1 DEF Numbered, Processes
  <1>3. Max(S) \in S /\ \A y \in S : y <= Max(S)
    BY <1>2, MaxIs
  <1>4. NextVersion = 1 + Max(S)
    BY DEF NextVersion
  <1>5. Max(S) \in Nat
    BY <1>1, <1>2, <1>3
  <1> HIDE DEF S
  <1>6. \A h \in DOMAIN history : h \in S /\ h \in Nat
    BY <1>1 DEF S
  <1>7. \A h \in DOMAIN history : h < NextVersion
    BY <1>3, <1>4, <1>5, <1>6
  <1> QED
    BY <1>4, <1>5, <1>6, <1>7

LEMMA RangeSeq ==
    ASSUME NEW S, NEW s \in Seq(S)
    PROVE  s \in Seq(Range(s))
  <1>1. \A i \in 1..Len(s) : s[i] \in Range(s)
    BY DEF Range
  <1>2. Len(s) \in Nat /\ s \in [1..Len(s) -> S]
    OBVIOUS
  <1>3. s \in [1..Len(s) -> Range(s)]
    BY <1>1, <1>2
  <1> QED
    BY <1>2, <1>3, SeqDef

LEMMA SeqAppend ==
    ASSUME NEW s, s \in Seq(Range(s)), NEW d
    PROVE  /\ Append(s, d) \in Seq(Range(Append(s, d)))
           /\ Len(s) \in Nat /\ DOMAIN s = 1..Len(s)
           /\ DOMAIN Append(s, d) = DOMAIN s \cup {Len(s) + 1}
           /\ Len(s) + 1 \notin DOMAIN s
           /\ Append(s, d)[Len(s) + 1] = d
           /\ \A i \in DOMAIN s : Append(s, d)[i] = s[i]
  <1> DEFINE R == Range(s) \cup {d}
  <1>1. s \in Seq(R)
    BY SeqMonotonic
  <1> HIDE DEF R
  <1>2. Append(s, d) \in Seq(R)
    BY <1>1 DEF R
  <1>3. Append(s, d) \in Seq(Range(Append(s, d)))
    BY <1>2, RangeSeq
  <1> QED
    BY <1>1, <1>3

(* What is counted is finite.                                              *)
LEMMA MadeFinite ==
    ASSUME NEW s, s \in Seq(Range(s)), NEW S, S \subseteq DOMAIN s
    PROVE  IsFiniteSet(S)
  <1>1. DOMAIN s = 1..Len(s) /\ Len(s) \in Nat
    OBVIOUS
  <1>2. IsFiniteSet(1..Len(s))
    BY <1>1, FS_Interval
  <1> QED
    BY <1>1, <1>2, FS_Subset

IsMade(md) == md \in Seq(Range(md))

LEMMA MadeNat ==
    ASSUME NEW md, IsMade(md), NEW vs, NEW k
    PROVE  Cardinality(MadeIn(md, vs)) \in Nat /\ Cardinality(MadeHits(md, vs, k)) \in Nat
  <1>1. MadeIn(md, vs) \subseteq DOMAIN md /\ MadeHits(md, vs, k) \subseteq DOMAIN md
    BY DEF MadeIn, MadeHits
  <1>2. IsFiniteSet(MadeIn(md, vs)) /\ IsFiniteSet(MadeHits(md, vs, k))
    BY <1>1, MadeFinite DEF IsMade
  <1> QED
    BY <1>2, FS_CardinalityType

LEMMA CountOne ==
    ASSUME NEW S, NEW x, IsFiniteSet(S), x \notin S
    PROVE  Cardinality(S) \in Nat /\ Cardinality(S \cup {x}) = Cardinality(S) + 1
  BY FS_CardinalityType, FS_AddElement

-----------------------------------------------------------------------------
(* What the other steps leave alone.                                       *)

LEMMA CountsKept ==
    ASSUME CountsHold, UNCHANGED <<since, made, cur, counts, assessing>>, proc' = proc
    PROVE  CountsHold'
  BY DEF CountsHold

LEMMA StatsKept ==
    ASSUME StatsHold, UNCHANGED <<proc, crashed, stats, made, cur, shadows, assessing, history>>
    PROVE  StatsHold'
  BY DEF StatsHold

LEMMA SavedKept ==
    ASSUME SavedHolds, UNCHANGED <<crashed, made, snapFile>>, proc' # "up" => proc # "up",
           DOMAIN ruleFiles \subseteq DOMAIN ruleFiles'
    PROVE  SavedHolds'
  BY DEF SavedHolds, Saved, SavedByClose

(* A step of a deploy, or of the snapshot, that touches none of the        *)
(* counters.                                                               *)
LEMMA StoreStep ==
    ASSUME StoreInv, UNCHANGED <<since, made, cur, counts, stats, shadows, history, assessing, crashed>>,
           proc' = proc, snapFile' = snapFile, DOMAIN ruleFiles \subseteq DOMAIN ruleFiles',
           failures' \in Nat, LockHeld', Processes', FilesCompile', Saving', Numbered', Persisted'
    PROVE  StoreInv'
  <1>1. CountsHold'
    BY CountsKept DEF StoreInv
  <1>2. StatsHold'
    BY StatsKept DEF StoreInv
  <1>3. SavedHolds'
    BY SavedKept DEF StoreInv
  <1> QED
    BY <1>1, <1>2, <1>3 DEF StoreInv, Types

(* The end of the process.                                                 *)
LEMMA ExitPreserves ==
    ASSUME StoreInv, Exit, Types', FilesCompile', Bounded(DOMAIN ruleFiles'),
           made' \in Seq(Range(made')), \A i \in DOMAIN made' : OnDisk(made[i])',
           snapFile' # None => OnDiskCompiling(snapFile.rules)', SavedHolds'
    PROVE  StoreInv'
  <1>1. /\ proc' = "down" /\ cur' = None /\ history' = NoFun /\ stats' = NoFun /\ shadows' = NoFun
        /\ counts' = NoFun /\ lock' = None /\ snapping' = None
        /\ DOMAIN deploying' = Deployers /\ \A p \in Deployers : deploying'[p] = Idle
        /\ DOMAIN assessing' = Assesses /\ \A r \in Assesses : assessing'[r] = Idle
    BY DEF Exit
  <1>2. DOMAIN NoFun = {} /\ Idle.at = "idle"
    BY DEF NoFun, Idle
  <1>3. None \notin Deployers /\ Boot \in Deployers /\ Puts \subseteq Deployers
    BY StoreAssumption DEF Deployers
  <1>4. LockHeld'
    BY <1>1, <1>2, <1>3 DEF LockHeld, Holding
  <1>5. Processes'
    BY <1>1, <1>3 DEF Processes
  <1>6. Saving'
    BY <1>1, <1>2 DEF Saving, Holding
  <1>7. Numbered'
    BY <1>1, <1>2 DEF Numbered, Bounded
  <1>8. Persisted'
    BY <1>1, <1>2 DEF Persisted
  <1>9. CountsHold' /\ StatsHold'
    BY <1>1, <1>2 DEF CountsHold, StatsHold, StatsAre, StatsExact, StatsOver, Counting
  <1> QED
    BY <1>4, <1>5, <1>6, <1>7, <1>8, <1>9 DEF StoreInv

-----------------------------------------------------------------------------
(* Deploys.                                                                *)

(* The history directory only grows, below the versions it has.            *)
FilesGrow ==
  /\ DOMAIN ruleFiles \subseteq DOMAIN ruleFiles'
  /\ \A v \in DOMAIN ruleFiles : ruleFiles'[v] = ruleFiles[v] /\ listFiles'[v] = listFiles[v]
  /\ failures' = 0 => failures = 0

LEMMA DeployerFacts ==
    ASSUME StoreInv, NEW p \in Deployers, deploying[p] # Idle
    PROVE  /\ p = Boot \/ p \in Puts
           /\ p = Boot => proc = "boot"
           /\ p \in Puts => proc = "up" /\ p # Boot
  <1>1. p = Boot \/ p \in Puts
    BY DEF Deployers
  <1> QED
    BY <1>1, StoreAssumption DEF StoreInv, Processes

LEMMA OnDiskGrows ==
    ASSUME StoreInv, FilesGrow, UNCHANGED <<proc, made, cur, snapping, snapFile, assessing, history>>
    PROVE  Persisted'
  <1>1. Persisted
    BY DEF StoreInv
  <1> QED
    BY <1>1 DEF Persisted, OnDisk, OnDiskCompiling, FilesGrow

LEMMA RefusePreserves ==
    ASSUME StoreInv, NEW p \in Deployers, deploying[p] # Idle, deploying[p].at # "install",
           lock \in {None, p}, Refuse(p), UNCHANGED <<since, made, crashed, snapFile>>,
           failures' \in Nat, FilesGrow, FilesCompile', Bounded(DOMAIN ruleFiles'),
           failures' = 0 => UNCHANGED ruleFiles
    PROVE  StoreInv'
  <1>1. CASE p = Boot
    <2>1. Exit /\ proc = "boot" /\ snapFile = None /\ proc' = "down"
      BY <1>1, DeployerFacts DEF Refuse, Exit, StoreInv, Processes
    <2>2. made \in Seq(Range(made)) /\ \A i \in DOMAIN made : OnDisk(made[i])
      BY DEF StoreInv, Persisted
    <2>3. made' \in Seq(Range(made')) /\ \A i \in DOMAIN made' : OnDisk(made[i])'
      BY <2>2 DEF OnDisk, FilesGrow
    <2>4. SavedHolds'
      BY <2>1 DEF StoreInv, SavedHolds
    <2>5. Types'
      BY DEF StoreInv, Types
    <2> QED
      BY <2>1, <2>3, <2>4, <2>5, ExitPreserves
  <1>2. CASE p \in Puts
    <2>1. /\ deploying' = [deploying EXCEPT ![p] = Idle]
          /\ lock' = IF lock = p THEN None ELSE lock
          /\ UNCHANGED <<proc, cur, history, stats, shadows, counts, assessing, snapping>>
          /\ proc = "up"
      BY <1>2, DeployerFacts DEF Refuse
    <2>2. /\ LockHeld /\ None \notin Deployers /\ lock' = None /\ Boot \in Deployers /\ Boot # p
          /\ DOMAIN deploying' = Deployers /\ deploying'[p] = Idle
          /\ \A q \in Deployers : q # p => deploying'[q] = deploying[q]
      BY <1>2, <2>1, StoreAssumption DEF StoreInv, LockHeld, Deployers
    <2>3. Idle.at = "idle"
      BY DEF Idle
    <2>4. \A q \in Deployers : deploying'[q].at \notin Holding
      BY <2>2, <2>3 DEF LockHeld, Holding
    <2>5. LockHeld'
      <3>1. \A q \in Deployers : q # p => deploying[q].at \notin Holding
        BY <2>2, <2>4
      <3>2. lock' # p /\ \A q \in Deployers : lock' # q
        BY <2>2
      <3> QED
        BY <2>1, <2>2, <2>3, <2>4, <3>1, <3>2 DEF LockHeld, Holding
    <2>6. Processes'
      BY <2>1, <2>2 DEF StoreInv, Processes
    <2>7. Saving'
      BY <2>4 DEF Saving
    <2>8. Numbered'
      <3>1. Numbered
        BY DEF StoreInv
      <3>2. failures' = 0 => \A v \in DOMAIN ruleFiles : v \in DOMAIN history
        BY <3>1, <2>1, <2>2 DEF Numbered, LockHeld, Holding, FilesGrow
      <3>3. DOMAIN history \subseteq DOMAIN ruleFiles'
        BY <3>1 DEF Numbered, FilesGrow
      <3> QED
        BY <3>1, <3>2, <3>3, <2>1 DEF Numbered
    <2>9. Persisted'
      BY <2>1, OnDiskGrows
    <2> QED
      BY <2>1, <2>5, <2>6, <2>7, <2>8, <2>9, StoreStep DEF FilesGrow
  <1> QED
    BY <1>1, <1>2, DeployerFacts

LEMMA PutPreserves ==
    ASSUME StoreInv, NEW p \in Puts, NEW text, NEW lists, HandleRulesPut(p, text, lists)
    PROVE  StoreInv'
  <1> DEFINE d == [at |-> "deploy", text |-> text, keeps |-> lists = None,
                   lists |-> IF lists = None THEN cur.lists ELSE lists]
  <1>1. /\ proc = "up" /\ deploying[p] = Idle
        /\ deploying' = [deploying EXCEPT ![p] = d]
        /\ UNCHANGED <<proc, cur, history, stats, shadows, counts, lock, assessing, snapping,
                       ruleFiles, listFiles, snapFile, made, since, crashed, failures>>
    BY DEF HandleRulesPut, disk
  <1>2. /\ LockHeld /\ p \in Deployers /\ p # Boot /\ Boot \in Deployers
        /\ DOMAIN deploying' = Deployers /\ deploying'[p] = d
        /\ \A q \in Deployers : q # p => deploying'[q] = deploying[q]
    BY <1>1, StoreAssumption DEF StoreInv, LockHeld, Deployers
  <1>3. /\ d.at = "deploy" /\ d # Idle /\ Idle.at = "idle"
        /\ d = [at |-> d.at, text |-> d.text, keeps |-> d.keeps, lists |-> d.lists]
    BY DEF Idle
  <1> HIDE DEF d
  <1>4. LockHeld'
    BY <1>1, <1>2, <1>3 DEF LockHeld, Holding
  <1>5. Processes'
    BY <1>1, <1>2 DEF StoreInv, Processes
  <1>6. Saving'
    BY <1>1, <1>2, <1>3 DEF StoreInv, Saving, Holding
  <1>7. Numbered'
    BY <1>1, <1>2, <1>3 DEF StoreInv, Numbered
  <1>8. FilesGrow
    BY <1>1 DEF FilesGrow
  <1>9. Persisted'
    BY <1>1, <1>8, OnDiskGrows
  <1>10. FilesCompile' /\ failures' \in Nat
    BY <1>1 DEF StoreInv, FilesCompile, Types
  <1> QED
    BY <1>1, <1>4, <1>5, <1>6, <1>7, <1>9, <1>10, StoreStep

LEMMA DeployBeginPreserves ==
    ASSUME StoreInv, NEW p \in Deployers, DeployBegin(p)
    PROVE  StoreInv'
  <1> DEFINE v == NextVersion
             d == deploying[p]
             e == [at |-> IF v \in DOMAIN ruleFiles THEN "install" ELSE "lists", v |-> v,
                   text |-> d.text, lists |-> d.lists, keeps |-> d.keeps]
  <1>1. /\ d.at = "deploy" /\ lock = None
        /\ UNCHANGED <<ruleFiles, listFiles, snapFile, made, since, crashed, failures>>
    BY DEF DeployBegin, disk, bounds
  <1>2. /\ d # Idle /\ FilesGrow /\ FilesCompile' /\ Bounded(DOMAIN ruleFiles') /\ failures' \in Nat
    BY <1>1 DEF Idle, FilesGrow, StoreInv, FilesCompile, Numbered, Types
  <1>3. CASE Refuse(p)
    BY <1>1, <1>2, <1>3, RefusePreserves
  <1>4. CASE /\ <<d.text, d.lists>> \in Compiles /\ ~Conflicts(v, d.text)
             /\ lock' = p /\ deploying' = [deploying EXCEPT ![p] = e]
             /\ UNCHANGED <<proc, cur, history, stats, shadows, counts, assessing, snapping>>
    <2>1. /\ LockHeld /\ None \notin Deployers
          /\ DOMAIN deploying' = Deployers /\ deploying'[p] = e
          /\ \A q \in Deployers : q # p => deploying'[q] = deploying[q]
          /\ \A q \in Deployers : deploying[q].at \notin Holding
      BY <1>1, <1>4, StoreAssumption DEF StoreInv, LockHeld, Deployers
    <2>2. /\ v \in Nat \ {0} /\ \A h \in DOMAIN history : h < v
      BY NextVersionNew DEF StoreInv
    <2> HIDE DEF v
    <2>3. /\ e.at \in {"lists", "install"} /\ e.v = v /\ e.text = d.text /\ e.lists = d.lists
          /\ e.at = "install" <=> v \in DOMAIN ruleFiles
          /\ e = [at |-> e.at, v |-> e.v, text |-> e.text, lists |-> e.lists, keeps |-> e.keeps]
          /\ e # Idle
      BY DEF Idle
    <2> HIDE DEF e
    <2>4. LockHeld'
      BY <1>4, <2>1, <2>3 DEF LockHeld, Holding
    <2>5. Processes'
      BY <1>1, <1>2, <1>4, <2>1, DeployerFacts DEF StoreInv, Processes
    <2>6. failures = 0 => \A w \in DOMAIN ruleFiles : w \in DOMAIN history
      <3>1. proc # "down"
        BY <1>2, DeployerFacts
      <3> QED
        BY <3>1, <2>1 DEF StoreInv, Numbered, Holding
    <2>7. failures = 0 => v \notin DOMAIN ruleFiles
      BY <2>2, <2>6
    <2>8. Saving'
      <3>1. e.at = "install" => ruleFiles[v] = d.text
        BY <1>4, <2>3 DEF Conflicts
      <3>2. \A q \in Deployers : q # p => deploying'[q].at \notin Holding
        BY <2>1
      <3> QED
        BY <1>1, <1>4, <2>1, <2>2, <2>3, <2>7, <3>1, <3>2 DEF Saving, Holding
    <2>9. Numbered'
      BY <1>1, <1>4, <2>6 DEF StoreInv, Numbered
    <2>10. Persisted'
      BY <1>1, <1>2, <1>4, OnDiskGrows
    <2> QED
      BY <1>1, <1>2, <1>4, <2>4, <2>5, <2>8, <2>9, <2>10, StoreStep
  <1> QED
    BY <1>3, <1>4 DEF DeployBegin

LEMMA NextStep ==
    ASSUME StoreInv, NEW p \in Deployers, deploying[p].at \in {"lists", "rules"},
           NEW next \in {"rules", "install"}, deploying' = [deploying EXCEPT ![p].at = next],
           UNCHANGED <<proc, cur, counts, stats, shadows, assessing, snapping, lock>>,
           snapFile' = snapFile
    PROVE  /\ LockHeld' /\ Processes' /\ deploying'[p].at = next
           /\ deploying'[p].v = deploying[p].v /\ deploying'[p].text = deploying[p].text
           /\ deploying'[p].lists = deploying[p].lists /\ deploying'[p].keeps = deploying[p].keeps
           /\ \A q \in Deployers : q # p => /\ deploying'[q] = deploying[q]
                                          /\ deploying[q].at \notin Holding
           /\ deploying[p].v \notin DOMAIN ruleFiles
  <1> DEFINE d == deploying[p]
             e == [at |-> next, v |-> d.v, text |-> d.text, lists |-> d.lists, keeps |-> d.keeps]
  <1>1. /\ LockHeld /\ lock = p /\ DOMAIN deploying' = Deployers
        /\ d = [at |-> d.at, v |-> d.v, text |-> d.text, lists |-> d.lists, keeps |-> d.keeps]
        /\ \A q \in Deployers : q # p => deploying'[q] = deploying[q] /\ deploying[q].at \notin Holding
    BY DEF StoreInv, LockHeld, Holding
  <1>2. deploying'[p] = [d EXCEPT !.at = next]
    BY <1>1 DEF LockHeld
  <1>3. [d EXCEPT !.at = next] = e
    <2> DEFINE D(a, v, t, l, k) == [at |-> a, v |-> v, text |-> t, lists |-> l, keeps |-> k]
    <2>1. \A a, v, t, l, k : [D(a, v, t, l, k) EXCEPT !.at = next] = D(next, v, t, l, k)
      OBVIOUS
    <2>2. d = D(d.at, d.v, d.text, d.lists, d.keeps)
      BY <1>1
    <2> QED
      BY <2>1, <2>2
  <1>4. /\ e.at = next /\ e.v = d.v /\ e.text = d.text /\ e.lists = d.lists /\ e.keeps = d.keeps
        /\ e # Idle /\ e = [at |-> e.at, v |-> e.v, text |-> e.text, lists |-> e.lists, keeps |-> e.keeps]
        /\ d # Idle /\ Idle.at = "idle"
    BY DEF Idle
  <1>5. deploying'[p] = e
    BY <1>2, <1>3
  <1> HIDE DEF e
  <1>6. LockHeld'
    BY <1>1, <1>4, <1>5 DEF LockHeld, Holding
  <1>7. Processes'
    BY <1>1, <1>4, DeployerFacts DEF StoreInv, Processes, Deployers
  <1>8. d.v \notin DOMAIN ruleFiles
    BY DEF StoreInv, Saving, Holding
  <1> QED
    BY <1>1, <1>4, <1>5, <1>6, <1>7, <1>8

LEMMA SaveListsPreserves ==
    ASSUME StoreInv, NEW p \in Deployers, SaveLists(p)
    PROVE  StoreInv'
  <1> DEFINE d == deploying[p]
  <1>1. /\ d.at = "lists" /\ UNCHANGED <<ruleFiles, snapFile, made, since, crashed>>
        /\ Save(p, "rules", listFiles, d.lists, listFiles')
    BY DEF SaveLists
  <1>2. PICK ok \in BOOLEAN, written \in BOOLEAN :
          /\ ok => written
          /\ failures' = IF ok THEN failures ELSE failures + 1
          /\ listFiles' = IF written THEN Added(listFiles, d.v, d.lists) ELSE listFiles
          /\ IF ok THEN /\ deploying' = [deploying EXCEPT ![p].at = "rules"]
                        /\ UNCHANGED <<proc, cur, history, stats, shadows, counts, lock, assessing, snapping>>
                   ELSE Refuse(p)
    BY <1>1 DEF Save
  <1>3. /\ LockHeld /\ Processes /\ FilesCompile /\ Saving /\ Numbered /\ failures \in Nat
    BY DEF StoreInv, Types
  <1>4. d.v \notin DOMAIN ruleFiles /\ d # Idle
    <2>1. Idle.at = "idle"
      BY DEF Idle
    <2> QED
      BY <1>1, <1>3, <2>1 DEF Saving, Holding
  <1>5. /\ DOMAIN listFiles \subseteq DOMAIN listFiles'
        /\ \A w \in DOMAIN listFiles : w # d.v => listFiles'[w] = listFiles[w]
        /\ written => d.v \in DOMAIN listFiles' /\ listFiles'[d.v] = d.lists
    <2>1. CASE written
      <3>1. listFiles' = Added(listFiles, d.v, d.lists)
        BY <1>2, <2>1
      <3> QED
        BY <3>1 DEF Added
    <2>2. CASE ~written
      BY <1>2, <2>2
    <2> QED
      BY <2>1, <2>2
  <1>6. /\ FilesGrow /\ FilesCompile' /\ Bounded(DOMAIN ruleFiles') /\ failures' \in Nat
    BY <1>1, <1>2, <1>3, <1>4, <1>5 DEF FilesGrow, FilesCompile, Numbered
  <1>7. CASE ~ok
    <2>1. lock \in {None, p}
      BY <1>1, <1>3 DEF LockHeld, Holding
    <2>2. failures' # 0
      BY <1>2, <1>3, <1>7
    <2> QED
      BY <1>1, <1>2, <1>4, <1>6, <1>7, <2>1, <2>2, RefusePreserves
  <1>8. CASE ok
    <2>1. /\ LockHeld' /\ Processes' /\ deploying'[p].at = "rules"
          /\ deploying'[p].v = d.v /\ deploying'[p].text = d.text
          /\ deploying'[p].lists = d.lists /\ deploying'[p].keeps = d.keeps
          /\ \A q \in Deployers : q # p => deploying'[q] = deploying[q] /\ deploying[q].at \notin Holding
      BY <1>1, <1>2, <1>8, NextStep
    <2>2. Saving'
      <3>1. \A q \in Deployers : q # p => deploying'[q].at \notin Holding
        BY <2>1
      <3> QED
        BY <1>1, <1>2, <1>3, <1>5, <1>8, <2>1, <3>1 DEF Saving, Holding
    <2>3. Numbered'
      BY <1>1, <1>2, <1>3, <1>8, <2>1 DEF Numbered, Holding
    <2>4. Persisted'
      BY <1>1, <1>2, <1>6, <1>8, OnDiskGrows
    <2> QED
      BY <1>1, <1>2, <1>6, <1>8, <2>1, <2>2, <2>3, <2>4, StoreStep
  <1> QED
    BY <1>7, <1>8

LEMMA SaveRulesPreserves ==
    ASSUME StoreInv, NEW p \in Deployers, SaveRules(p)
    PROVE  StoreInv'
  <1> DEFINE d == deploying[p]
  <1>1. /\ d.at = "rules" /\ UNCHANGED <<listFiles, snapFile, made, since, crashed>>
        /\ Save(p, "install", ruleFiles, d.text, ruleFiles')
    BY DEF SaveRules
  <1>2. PICK ok \in BOOLEAN, written \in BOOLEAN :
          /\ ok => written
          /\ failures' = IF ok THEN failures ELSE failures + 1
          /\ ruleFiles' = IF written THEN Added(ruleFiles, d.v, d.text) ELSE ruleFiles
          /\ IF ok THEN /\ deploying' = [deploying EXCEPT ![p].at = "install"]
                        /\ UNCHANGED <<proc, cur, history, stats, shadows, counts, lock, assessing, snapping>>
                   ELSE Refuse(p)
    BY <1>1 DEF Save
  <1>3. /\ LockHeld /\ Processes /\ FilesCompile /\ Saving /\ Numbered /\ failures \in Nat
    BY DEF StoreInv, Types
  <1>4. /\ d.v \notin DOMAIN ruleFiles /\ d # Idle /\ d.v \in Nat \ {0}
        /\ d.v \in DOMAIN listFiles /\ listFiles[d.v] = d.lists
        /\ <<d.text, d.lists>> \in Compiles
    BY <1>1, <1>3 DEF Saving, Holding, Idle
  <1>5. /\ DOMAIN ruleFiles \subseteq DOMAIN ruleFiles' /\ DOMAIN ruleFiles' \subseteq DOMAIN ruleFiles \cup {d.v}
        /\ \A w \in DOMAIN ruleFiles : ruleFiles'[w] = ruleFiles[w]
        /\ d.v \in DOMAIN ruleFiles' => ruleFiles'[d.v] = d.text
        /\ written => d.v \in DOMAIN ruleFiles'
    <2>1. CASE written
      <3>1. ruleFiles' = Added(ruleFiles, d.v, d.text)
        BY <1>2, <2>1
      <3> QED
        BY <1>4, <3>1 DEF Added
    <2>2. CASE ~written
      BY <1>2, <1>4, <2>2
    <2> QED
      BY <2>1, <2>2
  <1>6. /\ FilesGrow /\ FilesCompile' /\ failures' \in Nat
    BY <1>1, <1>2, <1>3, <1>4, <1>5 DEF FilesGrow, FilesCompile
  <1>7. Bounded(DOMAIN ruleFiles')
    <2>1. Bounded(DOMAIN ruleFiles \cup {d.v})
      BY <1>3, <1>4, BoundedAdd DEF Numbered
    <2> QED
      BY <1>5, <2>1 DEF Bounded
  <1>8. CASE ~ok
    <2>1. lock \in {None, p}
      BY <1>1, <1>3 DEF LockHeld, Holding
    <2>2. failures' # 0
      BY <1>2, <1>3, <1>8
    <2> QED
      BY <1>1, <1>2, <1>4, <1>6, <1>7, <1>8, <2>1, <2>2, RefusePreserves
  <1>9. CASE ok
    <2>1. /\ LockHeld' /\ Processes' /\ deploying'[p].at = "install"
          /\ deploying'[p].v = d.v /\ deploying'[p].text = d.text
          /\ deploying'[p].lists = d.lists /\ deploying'[p].keeps = d.keeps
          /\ \A q \in Deployers : q # p => deploying'[q] = deploying[q] /\ deploying[q].at \notin Holding
      BY <1>1, <1>2, <1>9, NextStep
    <2>2. Saving'
      <3>1. \A q \in Deployers : q # p => deploying'[q].at \notin Holding
        BY <2>1
      <3> QED
        BY <1>1, <1>2, <1>3, <1>4, <1>5, <1>9, <2>1, <3>1 DEF Saving, Holding
    <2>3. Numbered'
      <3>1. failures = 0 /\ proc # "down" => \A w \in DOMAIN ruleFiles : w \in DOMAIN history
        BY <1>1, <1>3, <2>1 DEF Numbered, Holding
      <3> QED
        BY <1>1, <1>2, <1>3, <1>5, <1>7, <1>9, <2>1, <3>1 DEF Numbered
    <2>4. Persisted'
      BY <1>1, <1>2, <1>6, <1>9, OnDiskGrows
    <2> QED
      BY <1>1, <1>2, <1>5, <1>6, <1>9, <2>1, <2>2, <2>3, <2>4, StoreStep
  <1> QED
    BY <1>8, <1>9

-----------------------------------------------------------------------------
(* A version goes live.                                                    *)

(* The stats with version v live: those of its new shadow rules are new    *)
(* and count v only, those it continues count v too, the others are as     *)
(* they were.                                                              *)
StartsIn(x, st, v) ==
  st = [rule |-> x[1], versions |-> {v}, evaluated |-> 0, matched |-> 0]
GoesOnIn(st, st2, v) ==
  st2 = [rule |-> st.rule, versions |-> st.versions \cup {v}, evaluated |-> st.evaluated, matched |-> st.matched]

LEMMA InstalledIs ==
    ASSUME NEW H, NEW v, NEW text, NEW prev, NEW sts, NEW shs,
           StatsOver(sts, H), Counting(sts, shs), \A x \in DOMAIN sts : x[2] # v,
           NEW I, I = Installed(v, text, prev, sts, shs)
    PROVE  /\ DOMAIN sts \subseteq DOMAIN I.stats
           /\ \A x \in DOMAIN I.stats :
                \/ x \notin DOMAIN sts /\ x = <<x[1], v>> /\ StartsIn(x, I.stats[x], v)
                \/ x \in DOMAIN sts /\ prev \in sts[x].versions /\ GoesOnIn(sts[x], I.stats[x], v)
                \/ x \in DOMAIN sts /\ I.stats[x] = sts[x]
           /\ Counting(I.stats, I.shadows)
           /\ DOMAIN I.live = ShadowRules[text]
           /\ \A r \in DOMAIN I.live : /\ I.live[r] \in DOMAIN I.stats /\ I.live[r][1] = r
                                       /\ v \in I.stats[I.live[r]].versions
           /\ v \notin H => \A x \in DOMAIN I.stats :
                             v \in I.stats[x].versions => \E r \in DOMAIN I.live : x = I.live[r]
  <1> DEFINE kept == {r \in ShadowRules[text] : Continues(r, prev, sts, shs)}
             fresh == ShadowRules[text] \ kept
             shs2 == [r \in DOMAIN shs \cup fresh |-> IF r \in fresh THEN <<r, v>> ELSE shs[r]]
             sts2 == [x \in DOMAIN sts \cup (fresh \X {v}) |->
                        IF x[1] \in fresh /\ x[2] = v
                        THEN [rule |-> x[1], versions |-> {v}, evaluated |-> 0, matched |-> 0]
                        ELSE IF \E r \in kept : x = shs[r] THEN [sts[x] EXCEPT !.versions = @ \cup {v}]
                        ELSE sts[x]]
             live2 == [r \in ShadowRules[text] |-> shs2[r]]
             More(st) == [rule |-> st.rule, versions |-> st.versions \cup {v},
                          evaluated |-> st.evaluated, matched |-> st.matched]
  <1>1. I.stats = sts2 /\ I.shadows = shs2 /\ I.live = live2
    BY DEF Installed
  <1>0. /\ \A x \in DOMAIN sts : /\ x = <<x[1], x[2]>> /\ x[2] \in H \cup {0}
                                 /\ sts[x].versions \subseteq H /\ Shaped(sts[x])
        /\ \A r \in DOMAIN shs : shs[r] \in DOMAIN sts /\ shs[r][1] = r
    BY DEF StatsOver, Counting
  <1> USE <1>0
  <1>2. \A r \in kept : r \in ShadowRules[text] /\ r \notin fresh /\ r \in DOMAIN shs
    BY DEF Continues
  <1>3. \A r \in ShadowRules[text] : r \in kept \/ r \in fresh
    OBVIOUS
  <1>4. DOMAIN sts2 = DOMAIN sts \cup (fresh \X {v}) /\ DOMAIN shs2 = DOMAIN shs \cup fresh
        /\ DOMAIN live2 = ShadowRules[text] /\ \A r \in ShadowRules[text] : live2[r] = shs2[r]
    OBVIOUS
  <1>5. \A r \in fresh : shs2[r] = <<r, v>> /\ <<r, v>> \in DOMAIN sts2
    OBVIOUS
  <1>6. \A r \in DOMAIN shs2 : r \notin fresh => r \in DOMAIN shs /\ shs2[r] = shs[r]
    OBVIOUS
  <1>7. \A x \in DOMAIN sts : x \in DOMAIN sts2 /\ x[2] # v /\ x = <<x[1], x[2]>>
    OBVIOUS
  <1>8. \A x \in DOMAIN sts2 : x \notin DOMAIN sts =>
          /\ x[1] \in fresh /\ x[2] = v /\ x = <<x[1], v>>
          /\ sts2[x] = [rule |-> x[1], versions |-> {v}, evaluated |-> 0, matched |-> 0]
    <2>1. \A x \in fresh \X {v} : x[1] \in fresh /\ x[2] = v /\ x = <<x[1], v>>
      OBVIOUS
    <2> QED
      BY <1>4, <2>1
  <1>9. \A x \in DOMAIN sts : (\E r \in kept : x = shs[r]) => sts2[x] = More(sts[x])
    <2>1. \A st : Shaped(st) => [st EXCEPT !.versions = @ \cup {v}] = More(st)
      <3> DEFINE D(a, b, c, d) == [rule |-> a, versions |-> b, evaluated |-> c, matched |-> d]
      <3>2. \A st : Shaped(st) => st = D(st.rule, st.versions, st.evaluated, st.matched)
        BY DEF Shaped
      <3> HIDE DEF D
      <3>3. ASSUME NEW st, Shaped(st)
            PROVE  [st EXCEPT !.versions = st.versions \cup {v}] = More(st)
        <4> DEFINE w == st.versions \cup {v}
        <4> HIDE DEF w
        <4>1. st = D(st.rule, st.versions, st.evaluated, st.matched)
          BY <3>2, <3>3
        <4>2. [D(st.rule, st.versions, st.evaluated, st.matched) EXCEPT !.versions = w]
                = D(st.rule, w, st.evaluated, st.matched)
          BY DEF D
        <4>3. [st EXCEPT !.versions = w] = D(st.rule, w, st.evaluated, st.matched)
          BY <4>1, <4>2
        <4> QED
          BY <4>3 DEF D, w
      <3> QED
        BY <3>3
    <2> QED
      BY <1>7, <2>1
  <1>10. \A x \in DOMAIN sts : ~(\E r \in kept : x = shs[r]) => sts2[x] = sts[x]
    BY <1>7
  <1> HIDE DEF kept, fresh, shs2, sts2, live2
  <1>11. \A x \in DOMAIN sts2 :
           \/ /\ x \notin DOMAIN sts /\ x = <<x[1], v>>
              /\ sts2[x] = [rule |-> x[1], versions |-> {v}, evaluated |-> 0, matched |-> 0]
           \/ x \in DOMAIN sts /\ prev \in sts[x].versions /\ sts2[x] = More(sts[x])
           \/ x \in DOMAIN sts /\ sts2[x] = sts[x]
    <2>1. \A r \in kept : prev \in sts[shs[r]].versions
      BY DEF kept, Continues
    <2> QED
      BY <1>8, <1>9, <1>10, <2>1
  <1>12. \A r \in DOMAIN shs2 : shs2[r] \in DOMAIN sts2 /\ shs2[r][1] = r
    <2>1. ASSUME NEW r \in DOMAIN shs2, r \in fresh
          PROVE  shs2[r] \in DOMAIN sts2 /\ shs2[r][1] = r
      <3>1. shs2[r] = <<r, v>> /\ <<r, v>>[1] = r
        BY <1>5, <2>1
      <3> QED
        BY <1>5, <2>1, <3>1
    <2>2. ASSUME NEW r \in DOMAIN shs2, r \notin fresh
          PROVE  shs2[r] \in DOMAIN sts2 /\ shs2[r][1] = r
      BY <1>6, <1>7, <2>2
    <2> QED
      BY <2>1, <2>2
  <1>13. \A r \in ShadowRules[text] : r \in DOMAIN shs2
    BY <1>2, <1>3, <1>4
  <1>14. ASSUME NEW r \in ShadowRules[text]
         PROVE  v \in sts2[shs2[r]].versions
    <2>1. CASE r \in fresh
      <3>1. shs2[r] = <<r, v>> /\ shs2[r] \in DOMAIN sts2 /\ <<r, v>>[2] = v
        BY <1>5, <2>1
      <3>2. shs2[r] \notin DOMAIN sts
        BY <1>7, <3>1
      <3>3. sts2[shs2[r]].versions = {v}
        BY <1>8, <3>1, <3>2
      <3> QED
        BY <3>3
    <2>2. CASE r \in kept
      <3>1. shs2[r] = shs[r] /\ shs[r] \in DOMAIN sts
        BY <1>2, <1>4, <1>6, <2>2
      <3>2. sts2[shs[r]] = More(sts[shs[r]])
        BY <1>9, <2>2, <3>1
      <3>3. sts2[shs[r]].versions = sts[shs[r]].versions \cup {v}
        BY <3>2
      <3> QED
        BY <3>1, <3>3
    <2> QED
      BY <1>3, <2>1, <2>2
  <1>15. ASSUME v \notin H, NEW x \in DOMAIN sts2, v \in sts2[x].versions
         PROVE  \E r \in ShadowRules[text] : x = shs2[r]
    <2>1. CASE x \notin DOMAIN sts
      <3>1. x[1] \in fresh /\ x = <<x[1], v>>
        BY <1>8, <2>1
      <3>2. x[1] \in ShadowRules[text] /\ x = shs2[x[1]]
        BY <1>5, <3>1 DEF fresh
      <3> QED
        BY <3>2
    <2>2. CASE x \in DOMAIN sts /\ \E r \in kept : x = shs[r]
      <3>1. PICK r \in kept : x = shs[r]
        BY <2>2
      <3>2. r \in ShadowRules[text] /\ x = shs2[r]
        BY <1>2, <1>4, <1>6, <3>1
      <3> QED
        BY <3>2
    <2>3. CASE x \in DOMAIN sts /\ ~\E r \in kept : x = shs[r]
      <3>1. v \notin sts2[x].versions
        BY <1>10, <1>15, <2>3
      <3> QED
        BY <1>15, <3>1
    <2> QED
      BY <2>1, <2>2, <2>3
  <1>16. /\ \A r \in DOMAIN live2 : /\ live2[r] \in DOMAIN sts2 /\ live2[r][1] = r
                                   /\ v \in sts2[live2[r]].versions
         /\ v \notin H => \A x \in DOMAIN sts2 : v \in sts2[x].versions => \E r \in DOMAIN live2 : x = live2[r]
    BY <1>4, <1>12, <1>13, <1>14, <1>15
  <1> QED
    BY <1>1, <1>4, <1>11, <1>12, <1>16 DEF StartsIn, GoesOnIn, Counting

(* No decision has the new version.                                        *)
LEMMA StatStarts ==
    ASSUME NEW v, NEW md, IsMade(md), NEW k, NEW x, x[1] = k, NEW st, StartsIn(x, st, v)
    PROVE  /\ StatHolds(k, st, md) /\ st.versions = {v}
           /\ \A H : (v \notin H /\ Uses(md, H)) => StatExact(k, st, md)
  <1>1. /\ st.rule = k /\ st.versions = {v} /\ st.evaluated = 0 /\ st.matched = 0 /\ Shaped(st)
    BY DEF Shaped, StartsIn
  <1>2. StatHolds(k, st, md)
    <2>1. Cardinality(MadeIn(md, st.versions)) \in Nat /\ Cardinality(MadeHits(md, st.versions, k)) \in Nat
      BY MadeNat
    <2> QED
      BY <1>1, <2>1 DEF StatHolds
  <1>3. ASSUME NEW H, v \notin H, Uses(md, H)
        PROVE  StatExact(k, st, md)
    <2>1. MadeIn(md, {v}) = {} /\ MadeHits(md, {v}, k) = {}
      BY <1>3 DEF MadeIn, MadeHits, Uses
    <2> QED
      BY <1>1, <2>1, FS_EmptySet DEF StatExact
  <1> QED
    BY <1>1, <1>2, <1>3

LEMMA StatGoesOn ==
    ASSUME NEW H, NEW v, NEW md, NEW k, NEW st, NEW st2, StatHolds(k, st, md), GoesOnIn(st, st2, v),
           \/ v \notin H /\ Uses(md, H)
           \/ v \in st.versions
    PROVE  /\ StatHolds(k, st2, md)
           /\ StatExact(k, st, md) => StatExact(k, st2, md)
  <1> DEFINE w == st.versions \cup {v}
  <1>1. MadeIn(md, w) = MadeIn(md, st.versions) /\ MadeHits(md, w, k) = MadeHits(md, st.versions, k)
    BY DEF MadeIn, MadeHits, Uses
  <1>2. /\ st2.rule = st.rule /\ st2.versions = w /\ st2.evaluated = st.evaluated
        /\ st2.matched = st.matched /\ Shaped(st2)
    BY DEF Shaped, GoesOnIn
  <1> HIDE DEF w
  <1> QED
    BY <1>1, <1>2 DEF StatHolds, StatExact

LEMMA InstallKeepsStats ==
    ASSUME NEW H, NEW v, NEW text, NEW prev, NEW sts, NEW shs, NEW md,
           IsMade(md), StatsAre(sts, shs, H, md), \A x \in DOMAIN sts : x[2] # v,
           (v \notin H /\ Uses(md, H)) \/ prev = v,
           NEW I, I = Installed(v, text, prev, sts, shs)
    PROVE  /\ StatsAre(I.stats, I.shadows, H \cup {v}, md)
           /\ v \notin H /\ Uses(md, H) /\ StatsExact(sts, md) => StatsExact(I.stats, md)
  <1>0. StatsOver(sts, H) /\ Counting(sts, shs) /\ \A x \in DOMAIN sts : StatHolds(x[1], sts[x], md)
    BY DEF StatsAre
  <1>1. /\ \A x \in DOMAIN I.stats :
             \/ x \notin DOMAIN sts /\ x = <<x[1], v>> /\ StartsIn(x, I.stats[x], v)
             \/ x \in DOMAIN sts /\ prev \in sts[x].versions /\ GoesOnIn(sts[x], I.stats[x], v)
             \/ x \in DOMAIN sts /\ I.stats[x] = sts[x]
        /\ Counting(I.stats, I.shadows)
    BY <1>0, InstalledIs
  <1> DEFINE Exact(x) == v \notin H /\ Uses(md, H) /\ StatsExact(sts, md) => StatExact(x[1], I.stats[x], md)
  <1>2. ASSUME NEW x \in DOMAIN I.stats
        PROVE  /\ x = <<x[1], x[2]>> /\ x[2] \in H \cup {v, 0}
               /\ I.stats[x].versions \subseteq H \cup {v} /\ StatHolds(x[1], I.stats[x], md)
               /\ Exact(x)
    <2>1. CASE x \notin DOMAIN sts /\ x = <<x[1], v>> /\ StartsIn(x, I.stats[x], v)
      <3> DEFINE k == x[1]
                 new == I.stats[x]
      <3> HIDE DEF k, new
      <3>1. x[1] = k /\ StartsIn(x, new, v)
        BY <2>1 DEF k, new
      <3>2. /\ StatHolds(k, new, md) /\ new.versions = {v}
            /\ \A G : v \notin G /\ Uses(md, G) => StatExact(k, new, md)
        BY <3>1, StatStarts
      <3>3. x = <<x[1], x[2]>> /\ x[2] = v
        BY <2>1
      <3> QED
        BY <3>2, <3>3 DEF k, new
    <2>2. CASE x \in DOMAIN sts /\ prev \in sts[x].versions /\ GoesOnIn(sts[x], I.stats[x], v)
      <3> DEFINE old == sts[x]
                 new == I.stats[x]
                 k == x[1]
      <3>1. /\ StatHolds(k, old, md) /\ GoesOnIn(old, new, v) /\ prev \in old.versions
            /\ x = <<x[1], x[2]>> /\ x[2] \in H \cup {0} /\ old.versions \subseteq H
        BY <1>0, <2>2 DEF StatsOver
      <3>2. StatsExact(sts, md) => StatExact(k, old, md)
        BY <2>2 DEF StatsExact
      <3> HIDE DEF old, new, k
      <3>3. StatHolds(k, new, md) /\ (StatExact(k, old, md) => StatExact(k, new, md))
        BY <3>1, StatGoesOn
      <3>4. new.versions = old.versions \cup {v}
        BY <3>1 DEF GoesOnIn
      <3>5. new.versions \subseteq H \cup {v} /\ x = <<x[1], x[2]>> /\ x[2] \in H \cup {v, 0}
        BY <3>1, <3>4
      <3> QED
        BY <3>2, <3>3, <3>5 DEF new, k
    <2>3. CASE x \in DOMAIN sts /\ I.stats[x] = sts[x]
      BY <1>0, <2>3 DEF StatsOver, StatsExact
    <2> QED
      BY <1>1, <2>1, <2>2, <2>3
  <1>3. StatsOver(I.stats, H \cup {v})
    <2>1. \A x \in DOMAIN I.stats : Shaped(I.stats[x])
      BY <1>2 DEF StatHolds
    <2> QED
      BY <1>2, <2>1 DEF StatsOver
  <1> QED
    BY <1>1, <1>2, <1>3 DEF StatsAre, StatsExact

LEMMA InstallStatsOfVersion ==
    ASSUME NEW H, NEW v, v \notin H, v # 0, NEW text, NEW prev, NEW sts, NEW shs,
           StatsOver(sts, H), Counting(sts, shs),
           NEW I, I = Installed(v, text, prev, sts, shs), NEW rv,
           \/ rv.version = v /\ rv.live = I.live /\ rv.text = text
           \/ StatsOfVersion(sts, rv) /\ rv.version \in H
    PROVE  /\ StatsOfVersion(I.stats, rv)
           /\ rv.version = v \/ OnlyStatsOf(sts, rv) => OnlyStatsOf(I.stats, rv)
  <1>0. \A x \in DOMAIN sts : x[2] # v
    BY DEF StatsOver
  <1>1. /\ DOMAIN sts \subseteq DOMAIN I.stats
        /\ \A x \in DOMAIN I.stats :
             \/ x \notin DOMAIN sts /\ x = <<x[1], v>> /\ StartsIn(x, I.stats[x], v)
             \/ x \in DOMAIN sts /\ prev \in sts[x].versions /\ GoesOnIn(sts[x], I.stats[x], v)
             \/ x \in DOMAIN sts /\ I.stats[x] = sts[x]
        /\ DOMAIN I.live = ShadowRules[text]
        /\ \A r \in DOMAIN I.live : /\ I.live[r] \in DOMAIN I.stats /\ I.live[r][1] = r
                                    /\ v \in I.stats[I.live[r]].versions
        /\ \A x \in DOMAIN I.stats : v \in I.stats[x].versions => \E r \in DOMAIN I.live : x = I.live[r]
    BY <1>0, InstalledIs
  <1>2. ASSUME NEW x \in DOMAIN I.stats
        PROVE  /\ x \notin DOMAIN sts => I.stats[x].versions = {v}
               /\ x \in DOMAIN sts => I.stats[x].versions \in {sts[x].versions, sts[x].versions \cup {v}}
    <2>1. StartsIn(x, I.stats[x], v) => I.stats[x].versions = {v}
      BY DEF StartsIn
    <2>2. GoesOnIn(sts[x], I.stats[x], v) => I.stats[x].versions = sts[x].versions \cup {v}
      BY DEF GoesOnIn
    <2> QED
      BY <1>1, <2>1, <2>2
  <1>3. ASSUME StatsOfVersion(sts, rv), rv.version \in H
        PROVE  /\ StatsOfVersion(I.stats, rv)
               /\ OnlyStatsOf(sts, rv) => OnlyStatsOf(I.stats, rv)
    <2>0. rv.version # v
      BY <1>3
    <2>1. \A x \in DOMAIN I.stats :
            rv.version \in I.stats[x].versions <=> x \in DOMAIN sts /\ rv.version \in sts[x].versions
      BY <1>2, <2>0
    <2> QED
      BY <1>1, <1>3, <2>1 DEF StatsOfVersion, OnlyStatsOf
  <1>4. ASSUME rv.version = v, rv.live = I.live, rv.text = text
        PROVE  StatsOfVersion(I.stats, rv) /\ OnlyStatsOf(I.stats, rv)
    BY <1>1, <1>4 DEF StatsOfVersion, OnlyStatsOf
  <1> QED
    BY <1>3, <1>4

LEMMA CountersInstalled ==
    ASSUME NEW cts, NEW text, None \notin LiveRules[text], NEW n, NEW md, NEW req,
           CountsAre(cts, md, n, req)
    PROVE  /\ LiveRules[text] \subseteq DOMAIN Counters(text, cts)
           /\ CountsAre(Counters(text, cts), md, n, req)
  <1>0. /\ None \notin DOMAIN cts
        /\ \A i \in DOMAIN md : i > n => md[i].rule \in DOMAIN cts \cup {None}
        /\ \A r \in Assesses : req[r].at = "count" => req[r].rule \in DOMAIN cts \cup {None}
        /\ \A k \in DOMAIN cts : cts[k] = Cardinality(MadeBy(md, n, k))
    BY DEF CountsAre
  <1>1. DOMAIN Counters(text, cts) = LiveRules[text] \cup DOMAIN cts
    BY DEF Counters
  <1>2. ASSUME NEW k \in LiveRules[text] \cup DOMAIN cts, k \notin DOMAIN cts
        PROVE  Counters(text, cts)[k] = Cardinality(MadeBy(md, n, k))
    <2>1. k # None
      BY <1>0, <1>2
    <2>2. MadeBy(md, n, k) = {}
      BY <1>0, <1>2, <2>1 DEF MadeBy
    <2>3. Counters(text, cts)[k] = 0
      BY <1>2 DEF Counters
    <2> QED
      BY <2>2, <2>3, FS_EmptySet
  <1>3. ASSUME NEW k \in DOMAIN cts
        PROVE  Counters(text, cts)[k] = cts[k]
    BY DEF Counters
  <1> QED
    BY <1>0, <1>1, <1>2, <1>3 DEF CountsAre

LEMMA DeployEndPreserves ==
    ASSUME StoreInv, NEW p \in Deployers, DeployEnd(p)
    PROVE  StoreInv'
  <1> DEFINE d == deploying[p]
             prev == IF cur = None THEN None ELSE cur.version
             I == Installed(d.v, d.text, prev, stats, shadows)
             H == DOMAIN history
  <1>1. /\ d.at = "install" /\ proc' = "up" /\ lock' = None
        /\ deploying' = [deploying EXCEPT ![p] = Idle]
        /\ UNCHANGED <<assessing, snapping, ruleFiles, listFiles, snapFile, made, since, crashed, failures>>
    BY DEF DeployEnd, disk, bounds
  <1>2. /\ cur' = [version |-> d.v, text |-> d.text, lists |-> d.lists, live |-> I.live]
        /\ stats' = I.stats /\ shadows' = I.shadows
        /\ counts' = Counters(d.text, counts)
        /\ history' = Added(history, d.v, [text |-> d.text, lists |-> d.lists])
    BY DEF DeployEnd, Install
  <1>3. /\ LockHeld /\ Processes /\ FilesCompile /\ Saving /\ Numbered /\ Persisted
        /\ CountsHold /\ StatsHold /\ Types
    BY DEF StoreInv
  <1>4. /\ d.v \in Nat \ {0} /\ d.v \notin H /\ <<d.text, d.lists>> \in Compiles
        /\ d.v \in DOMAIN ruleFiles /\ ruleFiles[d.v] = d.text
        /\ failures = 0 => listFiles[d.v] = d.lists
    <2>1. /\ d.v \in Nat \ {0} /\ \A h \in H : h < d.v
          /\ <<d.text, d.lists>> \in Compiles
          /\ d.v \in DOMAIN ruleFiles /\ ruleFiles[d.v] = d.text
          /\ failures = 0 => listFiles[d.v] = d.lists
      BY <1>1, <1>3 DEF Saving, Holding
    <2>2. ~(d.v < d.v)
      BY <2>1
    <2> QED
      BY <2>1, <2>2
  <1>5. /\ DOMAIN deploying' = Deployers /\ deploying'[p] = Idle /\ Idle.at = "idle" /\ d # Idle
        /\ \A q \in Deployers : q # p => deploying'[q] = deploying[q] /\ deploying[q].at \notin Holding
        /\ lock = p /\ \A q \in Deployers : lock' # q
    <2>1. Idle.at = "idle" /\ None \notin Deployers
      BY StoreAssumption DEF Idle, Deployers
    <2>2. lock = p
      BY <1>1, <1>3 DEF LockHeld, Holding
    <2>3. \A q \in Deployers : q # p => deploying[q].at \notin Holding
      BY <1>3, <2>2 DEF LockHeld
    <2> QED
      BY <1>1, <1>3, <2>1, <2>2, <2>3 DEF LockHeld
  <1>6. proc # "down"
    BY <1>5, DeployerFacts
  <1>7. /\ DOMAIN history' = H \cup {d.v} /\ cur'.version = d.v /\ cur'.text = d.text
        /\ cur'.lists = d.lists /\ cur'.live = I.live
    <2>1. DOMAIN history' = H \cup {d.v}
      BY <1>2 DEF Added
    <2> QED
      BY <1>2, <2>1
  <1>8. Uses(made, H) /\ IsMade(made)
    BY <1>3, <1>6 DEF Uses, Numbered, Persisted, IsMade
  <1> HIDE DEF I, H, prev
  <1>9. LockHeld'
    <2>1. \A q \in Deployers : deploying'[q].at \notin Holding
      BY <1>5 DEF Holding
    <2> QED
      BY <1>1, <1>3, <1>5, <2>1 DEF LockHeld
  <1>10. Processes'
    BY <1>1, <1>3, <1>5, StoreAssumption DEF Processes, Deployers
  <1>11. FilesCompile' /\ Types'
    BY <1>1, <1>3 DEF FilesCompile, Types
  <1>12. Saving'
    BY <1>5 DEF Saving, Holding
  <1>13. Numbered'
    <2>1. Bounded(DOMAIN history')
      BY <1>3, <1>4, <1>7, BoundedAdd DEF Numbered, H
    <2>2. failures = 0 => \A w \in DOMAIN ruleFiles : w \in DOMAIN history'
      BY <1>3, <1>5, <1>6, <1>7 DEF Numbered, Holding, H
    <2>3. DOMAIN history' \subseteq DOMAIN ruleFiles
      BY <1>3, <1>4, <1>7 DEF Numbered, H
    <2> QED
      BY <1>1, <1>3, <1>6, <1>7, <2>1, <2>2, <2>3 DEF Numbered, H
  <1>14. Persisted'
    <2>1. OnDiskCompiling(cur)'
      BY <1>1, <1>4, <1>7 DEF OnDisk, OnDiskCompiling
    <2> QED
      BY <1>1, <1>3, <1>7, <2>1 DEF Persisted, OnDisk, OnDiskCompiling, H
  <1>15. CountsHold'
    <2>1. None \notin LiveRules[d.text]
      BY <1>4, StoreAssumption
    <2>2. LiveRules[d.text] \subseteq DOMAIN counts' /\ CountsAre(counts', made, since, assessing)
      BY <1>2, <1>3, <1>6, <2>1, CountersInstalled DEF CountsHold
    <2> QED
      BY <1>1, <1>3, <1>6, <1>7, <2>2 DEF CountsHold
  <1>16. StatsHold'
    <2>1. /\ I = Installed(d.v, d.text, prev, stats, shadows) /\ d.v \notin H /\ d.v # 0
          /\ StatsAre(stats, shadows, H, made)
      BY <1>3, <1>4 DEF I, H, StatsHold
    <2>2. /\ StatsAre(I.stats, I.shadows, H \cup {d.v}, made)
          /\ StatsExact(stats, made) => StatsExact(I.stats, made)
      <3>1. \A x \in DOMAIN stats : x[2] # d.v
        BY <2>1 DEF StatsAre, StatsOver
      <3>2. (d.v \notin H /\ Uses(made, H)) \/ prev = d.v
        BY <1>8, <2>1
      <3> DEFINE v == d.v
                 text == d.text
      <3>3. /\ I = Installed(v, text, prev, stats, shadows) /\ v \notin H /\ \A x \in DOMAIN stats : x[2] # v
            /\ StatsAre(stats, shadows, H, made) /\ ((v \notin H /\ Uses(made, H)) \/ prev = v)
        BY <2>1, <3>1, <3>2
      <3> HIDE DEF v, text
      <3>4. /\ StatsAre(I.stats, I.shadows, H \cup {v}, made)
            /\ v \notin H /\ Uses(made, H) /\ StatsExact(stats, made) => StatsExact(I.stats, made)
        BY <1>8, <3>3, InstallKeepsStats
      <3> QED
        BY <1>8, <3>3, <3>4 DEF v
    <2>3. ASSUME NEW rv, \/ rv.version = d.v /\ rv.live = I.live /\ rv.text = d.text
                         \/ StatsOfVersion(stats, rv) /\ rv.version \in H
          PROVE  /\ StatsOfVersion(I.stats, rv)
                 /\ rv.version = d.v \/ OnlyStatsOf(stats, rv) => OnlyStatsOf(I.stats, rv)
      BY <2>1, <2>3, InstallStatsOfVersion DEF StatsAre
    <2>4. StatsOfVersion(stats', cur') /\ OnlyStatsOf(stats', cur')
      BY <1>2, <1>7, <2>3
    <2>5. ASSUME NEW r \in Assesses, assessing[r].at = "count"
          PROVE  /\ StatsOfVersion(stats', assessing[r].rv)
                 /\ assessing[r].hit \subseteq ShadowRules[assessing[r].rv.text]
                 /\ OnlyStatsOf(stats, assessing[r].rv) => OnlyStatsOf(stats', assessing[r].rv)
      <3>1. /\ StatsOfVersion(stats, assessing[r].rv) /\ assessing[r].rv.version \in H
            /\ assessing[r].hit \subseteq ShadowRules[assessing[r].rv.text]
        BY <1>3, <2>5 DEF StatsHold, Persisted, H
      <3> QED
        BY <1>2, <2>3, <3>1
    <2>6. /\ StatsAre(stats', shadows', DOMAIN history', made')
          /\ StatsExact(stats, made) => StatsExact(stats', made')
      BY <1>1, <1>2, <1>7, <2>2
    <2>7. ~crashed => /\ StatsExact(stats, made)
                      /\ \A r \in Assesses : assessing[r].at = "count" => OnlyStatsOf(stats, assessing[r].rv)
      BY <1>3 DEF StatsHold
    <2> QED
      BY <1>1, <2>4, <2>5, <2>6, <2>7 DEF StatsHold
  <1>17. SavedHolds'
    BY <1>1 DEF StoreInv, SavedHolds, Saved
  <1> QED
    BY <1>9, <1>10, <1>11, <1>12, <1>13, <1>14, <1>15, <1>16, <1>17 DEF StoreInv

-----------------------------------------------------------------------------
(* Decisions: counted, then logged or lost.                                *)

(* What decision d adds to the counts.                                     *)
OneBy(d, k) == IF d.rule = k THEN 1 ELSE 0
OneIn(d, vs) == IF d.version \in vs THEN 1 ELSE 0
OneHit(d, vs, s) == IF d.version \in vs /\ s \in d.hit THEN 1 ELSE 0

LEMMA MadeByGrows ==
    ASSUME NEW md, IsMade(md), NEW d, NEW n \in 0..Len(md), NEW k
    PROVE  /\ Cardinality(MadeBy(Append(md, d), n, k)) = Cardinality(MadeBy(md, n, k)) + OneBy(d, k)
           /\ Cardinality(MadeBy(md, n, k)) \in Nat
  <1> DEFINE S == MadeBy(md, n, k)
             x == Len(md) + 1
             md2 == Append(md, d)
  <1>1. /\ DOMAIN md2 = DOMAIN md \cup {x} /\ x \notin DOMAIN md /\ md2[x] = d
        /\ \A i \in DOMAIN md : md2[i] = md[i]
        /\ Len(md) \in Nat
    BY SeqAppend DEF IsMade
  <1>2. IsFiniteSet(S) /\ x \notin S
    BY <1>1, MadeFinite DEF MadeBy, IsMade
  <1>3. x > n
    BY <1>1
  <1> HIDE DEF md2, x
  <1>4. MadeBy(md2, n, k) = IF d.rule = k THEN S \cup {x} ELSE S
    BY <1>1, <1>3 DEF MadeBy
  <1> HIDE DEF S
  <1>5. Cardinality(S) \in Nat /\ Cardinality(S \cup {x}) = Cardinality(S) + 1
    BY <1>2, CountOne
  <1> QED
    BY <1>4, <1>5 DEF OneBy, S, md2

LEMMA MadeInGrows ==
    ASSUME NEW md, IsMade(md), NEW d, NEW vs
    PROVE  Cardinality(MadeIn(Append(md, d), vs)) = Cardinality(MadeIn(md, vs)) + OneIn(d, vs)
  <1> DEFINE S == MadeIn(md, vs)
             x == Len(md) + 1
             md2 == Append(md, d)
  <1>1. /\ DOMAIN md2 = DOMAIN md \cup {x} /\ x \notin DOMAIN md /\ md2[x] = d
        /\ \A i \in DOMAIN md : md2[i] = md[i]
    BY SeqAppend DEF IsMade
  <1>2. IsFiniteSet(S) /\ x \notin S
    BY <1>1, MadeFinite DEF MadeIn, IsMade
  <1> HIDE DEF md2, x
  <1>3. MadeIn(md2, vs) = IF d.version \in vs THEN S \cup {x} ELSE S
    BY <1>1 DEF MadeIn
  <1> HIDE DEF S
  <1>4. Cardinality(S) \in Nat /\ Cardinality(S \cup {x}) = Cardinality(S) + 1
    BY <1>2, CountOne
  <1> QED
    BY <1>3, <1>4 DEF OneIn, S, md2

LEMMA MadeHitsGrows ==
    ASSUME NEW md, IsMade(md), NEW d, NEW vs, NEW s
    PROVE  Cardinality(MadeHits(Append(md, d), vs, s)) = Cardinality(MadeHits(md, vs, s)) + OneHit(d, vs, s)
  <1> DEFINE S == MadeHits(md, vs, s)
             x == Len(md) + 1
             md2 == Append(md, d)
  <1>1. /\ DOMAIN md2 = DOMAIN md \cup {x} /\ x \notin DOMAIN md /\ md2[x] = d
        /\ \A i \in DOMAIN md : md2[i] = md[i]
    BY SeqAppend DEF IsMade
  <1>2. IsFiniteSet(S) /\ x \notin S
    BY <1>1, MadeFinite DEF MadeHits, IsMade
  <1> HIDE DEF md2, x
  <1>3. MadeHits(md2, vs, s) = IF d.version \in vs /\ s \in d.hit THEN S \cup {x} ELSE S
    BY <1>1 DEF MadeHits
  <1> HIDE DEF S
  <1>4. Cardinality(S) \in Nat /\ Cardinality(S \cup {x}) = Cardinality(S) + 1
    BY <1>2, CountOne
  <1> QED
    BY <1>3, <1>4 DEF OneHit, S, md2

(* st with e decisions and m matches more.                                 *)
CountsMore(st, e, m) ==
  [rule |-> st.rule, versions |-> st.versions, evaluated |-> st.evaluated + e, matched |-> st.matched + m]

(* A stat that counts at most decision d, or exactly d, is still a count   *)
(* of decisions of its versions, or of all of them.                        *)
LEMMA StatCounts ==
    ASSUME NEW md, IsMade(md), NEW d, NEW k, NEW st, StatHolds(k, st, md), NEW e \in {0, 1}, NEW m \in {0, 1},
           e = 1 => d.version \in st.versions, m = 1 => d.version \in st.versions /\ k \in d.hit
    PROVE  /\ StatHolds(k, CountsMore(st, e, m), Append(md, d))
           /\ StatExact(k, st, md) /\ e = OneIn(d, st.versions) /\ m = OneHit(d, st.versions, k)
                => StatExact(k, CountsMore(st, e, m), Append(md, d))
  <1> DEFINE vs == st.versions
             st2 == CountsMore(st, e, m)
  <1>1. /\ st2.rule = st.rule /\ st2.versions = vs /\ st2.evaluated = st.evaluated + e
        /\ st2.matched = st.matched + m /\ Shaped(st2)
    BY DEF CountsMore, Shaped
  <1> HIDE DEF st2, vs
  <1>2. /\ Cardinality(MadeIn(Append(md, d), vs)) = Cardinality(MadeIn(md, vs)) + OneIn(d, vs)
        /\ Cardinality(MadeHits(Append(md, d), vs, k)) = Cardinality(MadeHits(md, vs, k)) + OneHit(d, vs, k)
        /\ Cardinality(MadeIn(md, vs)) \in Nat /\ Cardinality(MadeHits(md, vs, k)) \in Nat
    BY MadeInGrows, MadeHitsGrows, MadeNat
  <1>3. /\ OneIn(d, vs) \in {0, 1} /\ OneHit(d, vs, k) \in {0, 1}
        /\ e <= OneIn(d, vs) /\ m <= OneHit(d, vs, k)
    BY DEF OneIn, OneHit, vs
  <1>4. /\ st.evaluated \in Nat /\ st.evaluated <= Cardinality(MadeIn(md, vs)) /\ st.rule = k
        /\ st.matched \in Nat /\ st.matched <= Cardinality(MadeHits(md, vs, k))
    BY DEF StatHolds, vs
  <1>5. StatHolds(k, st2, Append(md, d))
    <2>1. /\ st.evaluated + e \in Nat /\ st.evaluated + e <= Cardinality(MadeIn(md, vs)) + OneIn(d, vs)
          /\ st.matched + m \in Nat /\ st.matched + m <= Cardinality(MadeHits(md, vs, k)) + OneHit(d, vs, k)
      BY <1>2, <1>3, <1>4
    <2> QED
      BY <1>1, <1>2, <1>4, <2>1 DEF StatHolds
  <1>6. ASSUME StatExact(k, st, md), e = OneIn(d, vs), m = OneHit(d, vs, k)
        PROVE  StatExact(k, st2, Append(md, d))
    BY <1>1, <1>2, <1>6 DEF StatExact, vs
  <1> QED
    BY <1>5, <1>6 DEF st2, vs

(* What a step of a request leaves alone.                                  *)
LEMMA AssessStep ==
    ASSUME StoreInv, proc = "up",
           UNCHANGED <<proc, cur, history, lock, deploying, snapping, ruleFiles, listFiles, snapFile,
                       crashed, failures>>
    PROVE  Processes' /\ FilesCompile' /\ Saving' /\ Types' /\ (made' = made => SavedHolds')
  <1>1. made' = made => SavedHolds'
    BY SavedKept DEF StoreInv
  <1> QED
    BY <1>1 DEF StoreInv, Processes, FilesCompile, Saving, Types

LEMMA Running ==
    ASSUME StoreInv, NEW r \in Assesses, assessing[r] # Idle
    PROVE  /\ proc = "up"
           /\ assessing[r].at = "count" =>
                /\ assessing[r] = [at |-> assessing[r].at, rv |-> assessing[r].rv,
                                   rule |-> assessing[r].rule, hit |-> assessing[r].hit]
                /\ OnDisk(assessing[r].rv) /\ assessing[r].rv.version \in DOMAIN history
  <1>1. Idle.at = "idle"
    BY DEF Idle
  <1> QED
    BY <1>1 DEF StoreInv, Processes, LockHeld, Persisted

LEMMA AssessLoadPreserves ==
    ASSUME StoreInv, NEW r \in Assesses, AssessLoad(r)
    PROVE  StoreInv'
  <1>1. PICK rule \in LiveRules[cur.text] \cup {None}, hit \in SUBSET ShadowRules[cur.text] :
          assessing' = [assessing EXCEPT ![r] = [at |-> "count", rv |-> cur, rule |-> rule, hit |-> hit]]
    BY DEF AssessLoad
  <1> DEFINE a == [at |-> "count", rv |-> cur, rule |-> rule, hit |-> hit]
  <1>2. /\ proc = "up" /\ assessing[r] = Idle
        /\ UNCHANGED <<proc, cur, history, stats, shadows, counts, lock, deploying, snapping, ruleFiles,
                       listFiles, snapFile, made, since, crashed, failures>>
    BY DEF AssessLoad, disk, bounds
  <1>3. LockHeld /\ Numbered /\ Persisted /\ CountsHold /\ StatsHold
    BY DEF StoreInv
  <1>4. /\ a.at = "count" /\ a.rv = cur /\ a.rule = rule /\ a.hit = hit /\ a # Idle /\ Idle.at = "idle"
        /\ a = [at |-> a.at, rv |-> a.rv, rule |-> a.rule, hit |-> a.hit]
    BY DEF Idle
  <1> HIDE DEF a
  <1>5. /\ DOMAIN assessing' = Assesses /\ assessing'[r] = a
        /\ \A q \in Assesses : q # r => assessing'[q] = assessing[q]
    BY <1>1, <1>3 DEF LockHeld, a
  <1>6. LockHeld'
    BY <1>2, <1>3, <1>4, <1>5 DEF LockHeld
  <1>7. Numbered'
    BY <1>2, <1>3 DEF Numbered
  <1>8. Persisted'
    BY <1>2, <1>3, <1>4, <1>5 DEF Persisted, OnDisk, OnDiskCompiling, Numbered
  <1>9. CountsHold'
    <2>1. \A q \in Assesses : assessing'[q].at = "count" => assessing'[q].rule \in DOMAIN counts \cup {None}
      BY <1>2, <1>3, <1>4, <1>5 DEF CountsHold, CountsAre
    <2> QED
      BY <1>2, <1>3, <2>1 DEF CountsHold, CountsAre
  <1>10. StatsHold'
    BY <1>2, <1>3, <1>4, <1>5 DEF StatsHold
  <1> QED
    BY <1>2, <1>6, <1>7, <1>8, <1>9, <1>10, AssessStep DEF StoreInv

LEMMA AssessLogPreserves ==
    ASSUME StoreInv, NEW r \in Assesses, AssessLog(r)
    PROVE  StoreInv'
  <1>1. /\ assessing[r].at = "log" /\ assessing' = [assessing EXCEPT ![r] = Idle]
        /\ UNCHANGED <<proc, cur, history, stats, shadows, counts, lock, deploying, snapping, ruleFiles,
                       listFiles, snapFile, made, since, crashed, failures>>
    BY DEF AssessLog, bounds
  <1>2. Idle.at = "idle" /\ assessing[r] # Idle
    BY <1>1 DEF Idle
  <1>3. proc = "up"
    BY <1>2, Running
  <1>4. LockHeld /\ Numbered /\ Persisted /\ CountsHold /\ StatsHold
    BY DEF StoreInv
  <1>5. /\ DOMAIN assessing' = Assesses /\ assessing'[r] = Idle
        /\ \A q \in Assesses : q # r => assessing'[q] = assessing[q]
    BY <1>1, <1>4 DEF LockHeld
  <1>6. LockHeld' /\ Numbered'
    BY <1>1, <1>4, <1>5 DEF LockHeld, Numbered
  <1>7. Persisted'
    BY <1>1, <1>2, <1>4, <1>5 DEF Persisted, OnDisk, OnDiskCompiling
  <1>8. CountsHold' /\ StatsHold'
    BY <1>1, <1>2, <1>4, <1>5 DEF CountsHold, CountsAre, StatsHold
  <1> QED
    BY <1>1, <1>3, <1>6, <1>7, <1>8, AssessStep DEF StoreInv

(* A request counts in the stats of the version it loaded, and in no       *)
(* others.                                                                 *)
LEMMA AssessCountPreserves ==
    ASSUME StoreInv, NEW r \in Assesses, AssessCount(r)
    PROVE  StoreInv'
  <1> DEFINE a == assessing[r]
             b == [at |-> "log", i |-> Len(made) + 1]
             d == Decision(a)
             live == a.rv.live
             hits == {live[s] : s \in a.hit \cap DOMAIN live}
             E(x) == IF x \in Range(live) THEN 1 ELSE 0
             M(x) == IF x \in hits THEN 1 ELSE 0
  <1>1. /\ a.at = "count" /\ assessing' = [assessing EXCEPT ![r] = b] /\ made' = Append(made, d)
        /\ stats' = [x \in DOMAIN stats |-> CountsMore(stats[x], E(x), M(x))]
        /\ counts' = [k \in DOMAIN counts |-> IF k = a.rule THEN counts[k] + 1 ELSE counts[k]]
        /\ UNCHANGED <<proc, cur, history, shadows, lock, deploying, snapping, ruleFiles,
                       listFiles, snapFile, since, crashed, failures>>
    BY DEF AssessCount, StatsOf, CountsMore, disk, bounds
  <1>2. Idle.at = "idle" /\ a # Idle /\ b.at = "log" /\ b # Idle
    BY <1>1 DEF Idle
  <1>3. /\ proc = "up" /\ OnDisk(a.rv) /\ a.rv.version \in DOMAIN history
    BY <1>1, <1>2, Running
  <1>4. LockHeld /\ Numbered /\ Persisted /\ CountsHold /\ StatsHold /\ SavedHolds /\ IsMade(made)
    BY DEF StoreInv, Persisted, IsMade
  <1>5. /\ d.version = a.rv.version /\ d.text = a.rv.text /\ d.lists = a.rv.lists
        /\ d.rule = a.rule /\ d.hit = a.hit
    BY DEF Decision
  <1> HIDE DEF b, d, live, hits
  <1>6. /\ DOMAIN assessing' = Assesses /\ assessing'[r] = b
        /\ \A q \in Assesses : q # r => assessing'[q] = assessing[q]
    BY <1>1, <1>4 DEF LockHeld
  <1>7. /\ IsMade(made)' /\ Len(made) \in Nat /\ Len(made') = Len(made) + 1
        /\ DOMAIN made' = DOMAIN made \cup {Len(made) + 1} /\ made'[Len(made) + 1] = d
        /\ \A i \in DOMAIN made : made'[i] = made[i]
    BY <1>1, <1>4, SeqAppend DEF IsMade
  <1>8. LockHeld'
    BY <1>1, <1>2, <1>4, <1>6 DEF LockHeld
  <1>9. Numbered'
    <2>1. \A i \in DOMAIN made' : made'[i].version \in DOMAIN history
      BY <1>3, <1>4, <1>5, <1>7 DEF Numbered
    <2> QED
      BY <1>1, <1>4, <2>1 DEF Numbered
  <1>10. Persisted'
    <2>1. OnDisk(d)
      BY <1>3, <1>5 DEF OnDisk
    <2>2. \A i \in DOMAIN made' : OnDisk(made'[i])
      BY <1>4, <1>7, <2>1 DEF Persisted
    <2> QED
      BY <1>1, <1>2, <1>4, <1>6, <1>7, <2>2 DEF Persisted, OnDisk, OnDiskCompiling, IsMade
  <1>11. CountsHold'
    <2>1. since \in 0..Len(made) /\ CountsAre(counts, made, since, assessing)
      BY <1>3, <1>4 DEF CountsHold
    <2>2. ASSUME NEW k \in DOMAIN counts
          PROVE  counts'[k] = Cardinality(MadeBy(made', since, k))
      <3>1. counts[k] = Cardinality(MadeBy(made, since, k))
        BY <2>1 DEF CountsAre
      <3>2. /\ Cardinality(MadeBy(made', since, k)) = Cardinality(MadeBy(made, since, k)) + OneBy(d, k)
            /\ Cardinality(MadeBy(made, since, k)) \in Nat
        BY <1>1, <1>4, <2>1, MadeByGrows
      <3>3. counts'[k] = counts[k] + OneBy(d, k)
        BY <1>1, <1>5, <3>1, <3>2 DEF OneBy
      <3> QED
        BY <3>1, <3>2, <3>3
    <2>3. /\ \A i \in DOMAIN made' : i > since => made'[i].rule \in DOMAIN counts \cup {None}
          /\ \A q \in Assesses : assessing'[q].at = "count" => assessing'[q].rule \in DOMAIN counts \cup {None}
      BY <1>1, <1>2, <1>5, <1>6, <1>7, <2>1 DEF CountsAre
    <2>4. DOMAIN counts' = DOMAIN counts
      BY <1>1
    <2>5. CountsAre(counts', made', since, assessing')
      BY <2>1, <2>2, <2>3, <2>4 DEF CountsAre
    <2> QED
      BY <1>1, <1>4, <1>7, <2>1, <2>4, <2>5 DEF CountsHold
  <1>12. StatsHold'
    <2>1. /\ StatsOver(stats, DOMAIN history) /\ Counting(stats, shadows)
          /\ \A x \in DOMAIN stats : StatHolds(x[1], stats[x], made)
          /\ StatsOfVersion(stats, a.rv)
          /\ ~crashed => StatsExact(stats, made) /\ OnlyStatsOf(stats, a.rv)
      BY <1>1, <1>4 DEF StatsHold, StatsAre
    <2>2. DOMAIN stats' = DOMAIN stats /\ \A x \in DOMAIN stats : stats'[x] = CountsMore(stats[x], E(x), M(x))
      BY <1>1
    <2>3. ASSUME NEW x \in DOMAIN stats
          PROVE  /\ x \in Range(live) => d.version \in stats[x].versions
                 /\ x \in hits => d.version \in stats[x].versions /\ x[1] \in d.hit
                 /\ ~crashed /\ d.version \in stats[x].versions => x \in Range(live)
                 /\ ~crashed /\ d.version \in stats[x].versions /\ x[1] \in d.hit => x \in hits
      <3>1. \A s \in DOMAIN live : live[s][1] = s /\ d.version \in stats[live[s]].versions
        BY <1>5, <2>1 DEF StatsOfVersion, live
      <3>2. ~crashed /\ d.version \in stats[x].versions => \E s \in DOMAIN live : x = live[s]
        BY <1>5, <2>1 DEF OnlyStatsOf, live
      <3>3. x \in Range(live) <=> \E s \in DOMAIN live : x = live[s]
        BY DEF Range
      <3>4. x \in hits <=> \E s \in DOMAIN live : x = live[s] /\ x[1] \in d.hit
        BY <1>5, <3>1 DEF hits
      <3> QED
        BY <3>1, <3>2, <3>3, <3>4
    <2>4. ASSUME NEW x \in DOMAIN stats
          PROVE  /\ StatHolds(x[1], stats'[x], made') /\ stats'[x].versions = stats[x].versions
                 /\ Shaped(stats'[x]) /\ (~crashed => StatExact(x[1], stats'[x], made'))
      <3> DEFINE st == stats[x]
                 k == x[1]
                 e == E(x)
                 m == M(x)
      <3>1. /\ StatHolds(k, st, made) /\ e \in {0, 1} /\ m \in {0, 1}
            /\ e = 1 => d.version \in st.versions
            /\ m = 1 => d.version \in st.versions /\ k \in d.hit
        BY <2>1, <2>3
      <3>2. ~crashed => /\ StatExact(k, st, made) /\ e = OneIn(d, st.versions)
                        /\ m = OneHit(d, st.versions, k)
        BY <2>1, <2>3 DEF StatsExact, OneIn, OneHit
      <3>3. stats'[x] = CountsMore(st, e, m)
        BY <2>2
      <3> HIDE DEF st, k, e, m
      <3>4. /\ StatHolds(k, CountsMore(st, e, m), made')
            /\ ~crashed => StatExact(k, CountsMore(st, e, m), made')
        BY <1>1, <1>4, <3>1, <3>2, StatCounts
      <3>5. CountsMore(st, e, m).versions = st.versions /\ Shaped(CountsMore(st, e, m))
        BY DEF CountsMore, Shaped
      <3> QED
        BY <3>3, <3>4, <3>5 DEF st, k
    <2>5. StatsAre(stats', shadows', DOMAIN history', made') /\ (~crashed => StatsExact(stats', made'))
      BY <1>1, <2>1, <2>2, <2>4 DEF StatsAre, StatsOver, Counting, StatsExact
    <2>6. \A rv : /\ StatsOfVersion(stats, rv) => StatsOfVersion(stats', rv)
                  /\ OnlyStatsOf(stats, rv) => OnlyStatsOf(stats', rv)
      BY <2>2, <2>4 DEF StatsOfVersion, OnlyStatsOf
    <2>7. \A q \in Assesses : assessing'[q].at = "count" => q # r /\ assessing'[q] = assessing[q]
      BY <1>2, <1>6
    <2>8. /\ StatsOfVersion(stats, cur)
          /\ \A q \in Assesses : assessing[q].at = "count" =>
               /\ StatsOfVersion(stats, assessing[q].rv)
               /\ assessing[q].hit \subseteq ShadowRules[assessing[q].rv.text]
          /\ ~crashed => /\ OnlyStatsOf(stats, cur)
                         /\ \A q \in Assesses : assessing[q].at = "count" => OnlyStatsOf(stats, assessing[q].rv)
      BY <1>3, <1>4 DEF StatsHold
    <2> QED
      BY <1>1, <2>5, <2>6, <2>7, <2>8 DEF StatsHold
  <1>13. SavedHolds'
    <2>1. ASSUME NEW k, NEW st, StatHolds(k, st, made), Shaped(st)
          PROVE  StatHolds(k, st, made')
      <3>1. CountsMore(st, 0, 0) = st
        BY <2>1 DEF CountsMore, Shaped, StatHolds
      <3>2. StatHolds(k, CountsMore(st, 0, 0), made')
        BY <1>1, <1>4, <2>1, StatCounts
      <3> QED
        BY <3>1, <3>2
    <2> QED
      BY <1>1, <1>3, <1>4, <2>1 DEF SavedHolds, Saved
  <1> QED
    BY <1>1, <1>3, <1>8, <1>9, <1>10, <1>11, <1>12, <1>13, AssessStep DEF StoreInv

-----------------------------------------------------------------------------
(* The snapshot, Close, a crash, and New.                                  *)

LEMMA SnapshotRulesPreserves ==
    ASSUME StoreInv, SnapshotRules
    PROVE  StoreInv'
  <1> DEFINE s == [version |-> cur.version, text |-> cur.text, lists |-> cur.lists]
  <1>1. /\ proc = "up" /\ snapping' = s
        /\ UNCHANGED <<proc, cur, history, stats, shadows, counts, lock, deploying, assessing,
                       ruleFiles, listFiles, snapFile, made, since, crashed, failures>>
    BY DEF SnapshotRules, disk
  <1>2. s.version = cur.version /\ s.text = cur.text /\ s.lists = cur.lists
    OBVIOUS
  <1> HIDE DEF s
  <1>3. LockHeld' /\ Processes' /\ FilesCompile' /\ Saving' /\ failures' \in Nat
    BY <1>1 DEF StoreInv, LockHeld, Processes, FilesCompile, Saving, Types
  <1>4. Numbered'
    BY <1>1 DEF StoreInv, Numbered
  <1>5. Persisted'
    BY <1>1, <1>2 DEF StoreInv, Persisted, OnDisk, OnDiskCompiling
  <1> QED
    BY <1>1, <1>3, <1>4, <1>5, StoreStep

(* The live shadow rules' records count decisions of their versions.       *)
LEMMA RecordsSaved ==
    ASSUME StoreInv, proc = "up"
    PROVE  /\ \A x \in ShadowRecords : Saved(x, made)
           /\ ~crashed => /\ {x.rule : x \in ShadowRecords} = ShadowRules[cur.text]
                          /\ \A x \in ShadowRecords : cur.version \in x.versions /\ StatExact(x.rule, x, made)
  <1>1. /\ StatsOver(stats, DOMAIN history) /\ \A x \in DOMAIN stats : StatHolds(x[1], stats[x], made)
        /\ StatsOfVersion(stats, cur) /\ (~crashed => StatsExact(stats, made))
        /\ DOMAIN history \subseteq DOMAIN ruleFiles
    BY DEF StoreInv, StatsHold, StatsAre, Numbered
  <1>2. ASSUME NEW r \in DOMAIN cur.live
        PROVE  /\ stats[cur.live[r]] \in ShadowRecords
               /\ stats[cur.live[r]].rule = r /\ cur.version \in stats[cur.live[r]].versions
               /\ Saved(stats[cur.live[r]], made)
               /\ ~crashed => StatExact(r, stats[cur.live[r]], made)
    <2> DEFINE i == cur.live[r]
               st == stats[i]
    <2>1. i \in DOMAIN stats /\ i[1] = r /\ cur.version \in st.versions
      BY <1>1 DEF StatsOfVersion
    <2>2. st \in ShadowRecords
      BY DEF ShadowRecords, Range
    <2>3. /\ StatHolds(r, st, made) /\ Shaped(st) /\ st.versions \subseteq DOMAIN ruleFiles
          /\ ~crashed => StatExact(r, st, made)
      BY <1>1, <2>1 DEF StatsOver, StatsExact
    <2> HIDE DEF i, st
    <2>4. st.rule = r
      BY <2>3 DEF StatHolds
    <2> QED
      BY <2>1, <2>2, <2>3, <2>4 DEF i, st, Saved
  <1>3. \A x \in ShadowRecords : \E r \in DOMAIN cur.live : x = stats[cur.live[r]]
    BY DEF ShadowRecords, Range
  <1>4. DOMAIN cur.live = ShadowRules[cur.text]
    BY <1>1 DEF StatsOfVersion
  <1>5. {x.rule : x \in ShadowRecords} = ShadowRules[cur.text]
    BY <1>2, <1>3, <1>4
  <1> QED
    BY <1>2, <1>3, <1>5

LEMMA SnapshotWritePreserves ==
    ASSUME StoreInv, SnapshotWrite
    PROVE  StoreInv'
  <1>1. /\ snapping # None /\ snapFile' = [rules |-> snapping, shadows |-> ShadowRecords]
        /\ snapping' = None
        /\ UNCHANGED <<proc, cur, history, stats, shadows, counts, lock, deploying, assessing,
                       ruleFiles, listFiles, made, since, crashed, failures>>
    BY DEF SnapshotWrite, bounds
  <1>2. snapFile'.rules = snapping /\ snapFile'.shadows = ShadowRecords /\ proc = "up"
    BY <1>1 DEF StoreInv, Processes
  <1>3. LockHeld' /\ Processes' /\ FilesCompile' /\ Saving' /\ Types'
    BY <1>1, <1>2 DEF StoreInv, LockHeld, Processes, FilesCompile, Saving, Types
  <1>4. Numbered'
    BY <1>1 DEF StoreInv, Numbered
  <1>5. Persisted'
    BY <1>1, <1>2 DEF StoreInv, Persisted, OnDisk, OnDiskCompiling
  <1>6. CountsHold' /\ StatsHold'
    BY <1>1, CountsKept, StatsKept DEF StoreInv
  <1>7. SavedHolds'
    <2>1. \A x \in ShadowRecords : Saved(x, made)
      BY <1>2, RecordsSaved
    <2> QED
      BY <1>1, <1>2, <2>1 DEF SavedHolds, Saved
  <1> QED
    BY <1>3, <1>4, <1>5, <1>6, <1>7 DEF StoreInv

LEMMA ClosePreserves ==
    ASSUME StoreInv, Close
    PROVE  StoreInv'
  <1> DEFINE s == [version |-> cur.version, text |-> cur.text, lists |-> cur.lists]
             S == ShadowRecords
  <1>1. /\ proc = "up" /\ \A r \in Assesses : assessing[r] = Idle
        /\ Exit /\ snapFile' = [rules |-> s, shadows |-> S]
        /\ UNCHANGED <<ruleFiles, listFiles, made, since, crashed, failures>>
    BY DEF Close, Quiet
  <1>2. /\ s.version = cur.version /\ s.text = cur.text /\ s.lists = cur.lists
        /\ snapFile'.rules = s /\ snapFile'.shadows = S
    BY <1>1
  <1> HIDE DEF s, S
  <1>3. Types' /\ FilesCompile' /\ Bounded(DOMAIN ruleFiles')
    BY <1>1 DEF StoreInv, Types, FilesCompile, Numbered
  <1>4. made' \in Seq(Range(made')) /\ \A i \in DOMAIN made' : OnDisk(made[i])'
    BY <1>1 DEF StoreInv, Persisted, OnDisk
  <1>5. OnDiskCompiling(snapFile.rules)'
    BY <1>1, <1>2 DEF StoreInv, Persisted, OnDisk, OnDiskCompiling
  <1>6. SavedHolds'
    <2>1. /\ \A x \in S : Saved(x, made)
          /\ ~crashed => /\ {x.rule : x \in S} = ShadowRules[s.text]
                         /\ \A x \in S : s.version \in x.versions /\ StatExact(x.rule, x, made)
      BY <1>1, <1>2, RecordsSaved DEF S
    <2> QED
      BY <1>1, <1>2, <2>1 DEF SavedHolds, Saved, SavedByClose
  <1> QED
    BY <1>1, <1>3, <1>4, <1>5, <1>6, ExitPreserves

LEMMA CrashPreserves ==
    ASSUME StoreInv, Crash
    PROVE  StoreInv'
  <1>1. /\ Exit /\ crashed' = TRUE
        /\ UNCHANGED <<ruleFiles, listFiles, snapFile, made, since, failures>>
    BY DEF Crash
  <1>2. Types' /\ FilesCompile' /\ Bounded(DOMAIN ruleFiles')
    BY <1>1 DEF StoreInv, Types, FilesCompile, Numbered
  <1>3. made' \in Seq(Range(made')) /\ \A i \in DOMAIN made' : OnDisk(made[i])'
    BY <1>1 DEF StoreInv, Persisted, OnDisk
  <1>4. snapFile' # None => OnDiskCompiling(snapFile.rules)'
    BY <1>1 DEF StoreInv, Persisted, OnDisk, OnDiskCompiling
  <1>5. SavedHolds'
    BY <1>1 DEF StoreInv, SavedHolds, Saved
  <1> QED
    BY <1>1, <1>2, <1>3, <1>4, <1>5, ExitPreserves

(* The shadow rules' records S of a snapshot of version v, restored: each  *)
(* shadow rule goes on with the record that has its name.                  *)
Restored(S) == [x \in {y.rule : y \in S} \X {0} |-> CHOOSE y \in S : y.rule = x[1]]
RestoredTo(S) == [r \in {y.rule : y \in S} |-> <<r, 0>>]
Recorded(S, v, text) ==
  /\ {y.rule : y \in S} = ShadowRules[text]
  /\ \A y \in S : Shaped(y) /\ v \in y.versions

LEMMA RestoredIs ==
    ASSUME NEW S, NEW v, NEW text, Recorded(S, v, text),
           NEW I, I = Installed(v, text, v, Restored(S), RestoredTo(S))
    PROVE  /\ DOMAIN I.shadows = ShadowRules[text] /\ DOMAIN I.live = ShadowRules[text]
           /\ \A r \in ShadowRules[text] : I.shadows[r] = <<r, 0>> /\ I.live[r] = <<r, 0>>
           /\ DOMAIN I.stats = ShadowRules[text] \X {0}
           /\ \A x \in DOMAIN I.stats : I.stats[x] \in S /\ I.stats[x].rule = x[1]
  <1> DEFINE R == ShadowRules[text]
             sts == Restored(S)
             shs == RestoredTo(S)
             kept == {r \in R : Continues(r, v, sts, shs)}
             fresh == R \ kept
             shs2 == [r \in DOMAIN shs \cup fresh |-> IF r \in fresh THEN <<r, v>> ELSE shs[r]]
             sts2 == [x \in DOMAIN sts \cup (fresh \X {v}) |->
                        IF x[1] \in fresh /\ x[2] = v
                        THEN [rule |-> x[1], versions |-> {v}, evaluated |-> 0, matched |-> 0]
                        ELSE IF \E r \in kept : x = shs[r] THEN [sts[x] EXCEPT !.versions = @ \cup {v}]
                        ELSE sts[x]]
             live2 == [r \in R |-> shs2[r]]
  <1>1. I.stats = sts2 /\ I.shadows = shs2 /\ I.live = live2
    BY DEF Installed
  <1>2. /\ DOMAIN sts = R \X {0} /\ DOMAIN shs = R /\ \A r \in R : shs[r] = <<r, 0>>
        /\ \A x \in R \X {0} : sts[x] = CHOOSE y \in S : y.rule = x[1]
    BY DEF Recorded, Restored, RestoredTo
  <1>3. ASSUME NEW x \in R \X {0}
        PROVE  /\ sts[x] \in S /\ sts[x].rule = x[1] /\ Shaped(sts[x]) /\ v \in sts[x].versions
               /\ [sts[x] EXCEPT !.versions = sts[x].versions \cup {v}] = sts[x]
    <2>1. \E y \in S : y.rule = x[1]
      BY DEF Recorded
    <2> DEFINE st == sts[x]
    <2>2. st \in S /\ st.rule = x[1]
      BY <1>2, <2>1
    <2>3. Shaped(st) /\ v \in st.versions
      BY <2>2 DEF Recorded
    <2> HIDE DEF st
    <2>4. [st EXCEPT !.versions = st.versions \cup {v}] = st
      <3> DEFINE D(a, b, c, d) == [rule |-> a, versions |-> b, evaluated |-> c, matched |-> d]
                 w == st.versions \cup {v}
      <3>1. st = D(st.rule, st.versions, st.evaluated, st.matched)
        BY <2>3 DEF Shaped
      <3>2. w = st.versions
        BY <2>3
      <3> HIDE DEF w, D
      <3>3. [D(st.rule, st.versions, st.evaluated, st.matched) EXCEPT !.versions = w]
              = D(st.rule, w, st.evaluated, st.matched)
        BY DEF D
      <3>4. [st EXCEPT !.versions = w] = D(st.rule, w, st.evaluated, st.matched)
        BY <3>1, <3>3
      <3> QED
        BY <3>1, <3>2, <3>4 DEF w
    <2> QED
      BY <2>2, <2>3, <2>4 DEF st
  <1>4. \A r \in R : Continues(r, v, sts, shs)
    <2>1. \A r \in R : <<r, 0>> \in R \X {0}
      OBVIOUS
    <2> QED
      BY <1>2, <1>3, <2>1 DEF Continues
  <1>5. fresh = {}
    BY <1>4
  <1> HIDE DEF kept
  <1>6. /\ DOMAIN shs2 = R /\ DOMAIN sts2 = R \X {0} /\ DOMAIN live2 = R
        /\ \A r \in R : shs2[r] = <<r, 0>> /\ live2[r] = <<r, 0>>
    <2>1. fresh \X {v} = {}
      BY <1>5
    <2> HIDE DEF fresh
    <2>2. DOMAIN shs2 = R /\ DOMAIN sts2 = R \X {0} /\ DOMAIN live2 = R
      BY <1>2, <1>5, <2>1
    <2>3. \A r \in R : shs2[r] = shs[r]
      BY <1>2, <1>5
    <2> QED
      BY <1>2, <2>2, <2>3
  <1>7. ASSUME NEW x \in R \X {0}
        PROVE  sts2[x] = sts[x]
    <2>1. x \in DOMAIN sts2 /\ x[1] \notin fresh
      BY <1>2, <1>5
    <2>2. sts2[x] = IF \E r \in kept : x = shs[r] THEN [sts[x] EXCEPT !.versions = @ \cup {v}] ELSE sts[x]
      BY <2>1
    <2> QED
      BY <1>3, <2>2
  <1> HIDE DEF sts, shs, shs2, sts2, live2
  <1> QED
    BY <1>1, <1>3, <1>6, <1>7

(* Restored counters count decisions of the versions they were saved with, *)
(* whatever version is restored beside them; those that Close left count   *)
(* all of them.                                                            *)
LEMMA RestoredHold ==
    ASSUME NEW H, NEW md, IsMade(md), NEW S, NEW v \in H, v # 0, NEW text,
           \A y \in S : StatHolds(y.rule, y, md) /\ y.versions \subseteq H,
           NEW I, I = Installed(v, text, v, Restored(S), RestoredTo(S)),
           NEW rv, rv.version = v, rv.text = text, rv.live = I.live
    PROVE  /\ StatsAre(I.stats, I.shadows, H, md) /\ StatsOfVersion(I.stats, rv)
           /\ (Recorded(S, v, text) /\ \A y \in S : StatExact(y.rule, y, md))
                => StatsExact(I.stats, md) /\ OnlyStatsOf(I.stats, rv)
  <1> DEFINE sts == Restored(S)
             shs == RestoredTo(S)
  <1>1. ASSUME NEW x \in DOMAIN sts
        PROVE  /\ x = <<x[1], x[2]>> /\ x[2] = 0
               /\ sts[x] \in S /\ sts[x].rule = x[1]
    <2>1. x \in {y.rule : y \in S} \X {0} /\ sts[x] = CHOOSE y \in S : y.rule = x[1]
      BY DEF Restored
    <2>2. \E y \in S : y.rule = x[1]
      BY <2>1
    <2> QED
      BY <2>1, <2>2
  <1>2. /\ DOMAIN sts = {y.rule : y \in S} \X {0} /\ DOMAIN shs = {y.rule : y \in S}
        /\ \A r \in DOMAIN shs : shs[r] = <<r, 0>>
    BY DEF Restored, RestoredTo
  <1> HIDE DEF sts, shs
  <1>3. StatsAre(sts, shs, H, md)
    <2>1. StatsOver(sts, H)
      <3>1. \A x \in DOMAIN sts : Shaped(sts[x]) /\ sts[x].versions \subseteq H
        BY <1>1 DEF StatHolds
      <3>2. \A x \in DOMAIN sts : x = <<x[1], x[2]>> /\ x[2] \in H \cup {0}
        BY <1>1
      <3> QED
        BY <3>1, <3>2 DEF StatsOver
    <2>2. Counting(sts, shs)
      <3>1. ASSUME NEW r \in DOMAIN shs
            PROVE  shs[r] \in DOMAIN sts /\ shs[r][1] = r
        <4>1. shs[r] = <<r, 0>> /\ r \in {y.rule : y \in S}
          BY <1>2
        <4>2. <<r, 0>> \in DOMAIN sts
          BY <1>2, <4>1
        <4> QED
          BY <4>1, <4>2
      <3> QED
        BY <3>1 DEF Counting
    <2>3. \A x \in DOMAIN sts : StatHolds(x[1], sts[x], md)
      BY <1>1
    <2> QED
      BY <2>1, <2>2, <2>3 DEF StatsAre
  <1>4. I = Installed(v, text, v, sts, shs) /\ \A x \in DOMAIN sts : x[2] # v
    BY <1>1 DEF sts, shs
  <1>5. StatsAre(I.stats, I.shadows, H, md)
    <2>1. StatsAre(I.stats, I.shadows, H \cup {v}, md)
      BY <1>3, <1>4, InstallKeepsStats
    <2>2. H \cup {v} = H
      OBVIOUS
    <2> QED
      BY <2>1, <2>2
  <1>6. StatsOfVersion(I.stats, rv)
    <2>1. /\ DOMAIN I.live = ShadowRules[text]
          /\ \A r \in DOMAIN I.live : /\ I.live[r] \in DOMAIN I.stats /\ I.live[r][1] = r
                                      /\ v \in I.stats[I.live[r]].versions
      BY <1>3, <1>4, InstalledIs DEF StatsAre
    <2> QED
      BY <2>1 DEF StatsOfVersion
  <1>7. ASSUME Recorded(S, v, text), \A y \in S : StatExact(y.rule, y, md)
        PROVE  StatsExact(I.stats, md) /\ OnlyStatsOf(I.stats, rv)
    <2>1. /\ DOMAIN I.live = ShadowRules[text]
          /\ \A r \in ShadowRules[text] : I.live[r] = <<r, 0>>
          /\ DOMAIN I.stats = ShadowRules[text] \X {0}
          /\ \A x \in DOMAIN I.stats : I.stats[x] \in S /\ I.stats[x].rule = x[1]
      BY <1>7, RestoredIs
    <2>2. StatsExact(I.stats, md)
      BY <1>7, <2>1 DEF StatsExact
    <2>3. OnlyStatsOf(I.stats, rv)
      <3>1. \A x \in ShadowRules[text] \X {0} : x[1] \in ShadowRules[text] /\ x = <<x[1], 0>>
        OBVIOUS
      <3> QED
        BY <2>1, <3>1 DEF OnlyStatsOf
    <2> QED
      BY <2>2, <2>3
  <1> QED
    BY <1>5, <1>6, <1>7

(* The files New starts from.                                              *)
LEMMA BootPreserves ==
    ASSUME StoreInv, NewRules, snapFile = None
    PROVE  StoreInv'
  <1> DEFINE d == [at |-> "deploy", text |-> BootText, lists |-> BootLists, keeps |-> FALSE]
  <1>1. /\ proc = "down" /\ since' = Len(made) /\ history' = LoadHistory /\ proc' = "boot"
        /\ deploying' = [deploying EXCEPT ![Boot] = d]
        /\ UNCHANGED <<cur, stats, shadows, counts, ruleFiles, listFiles, lock, assessing, snapping,
                       snapFile, made, crashed, failures>>
    BY DEF NewRules, bounds
  <1>2. /\ cur = None /\ counts = NoFun /\ stats = NoFun /\ shadows = NoFun /\ snapping = None
        /\ lock = None /\ \A p \in Deployers : deploying[p] = Idle
        /\ \A r \in Assesses : assessing[r] = Idle
    BY <1>1 DEF StoreInv, Processes, Deployers
  <1>3. LockHeld /\ FilesCompile /\ Numbered /\ Persisted /\ Types
    BY DEF StoreInv
  <1>4. /\ d.at = "deploy" /\ d # Idle /\ Idle.at = "idle"
        /\ d = [at |-> d.at, text |-> d.text, keeps |-> d.keeps, lists |-> d.lists]
    BY DEF Idle
  <1> HIDE DEF d
  <1>5. /\ Boot \in Deployers /\ Boot \notin Puts /\ Puts \subseteq Deployers
        /\ DOMAIN deploying' = Deployers /\ deploying'[Boot] = d
        /\ \A p \in Deployers : p # Boot => deploying'[p] = Idle
    BY <1>1, <1>2, <1>3, StoreAssumption DEF LockHeld, Deployers
  <1>6. \A p \in Deployers : deploying'[p].at \notin Holding
    BY <1>4, <1>5 DEF Holding
  <1>7. LockHeld'
    <2>1. None \notin Deployers
      BY StoreAssumption DEF Deployers
    <2> QED
      BY <1>1, <1>2, <1>3, <1>4, <1>5, <1>6, <2>1 DEF LockHeld
  <1>8. Processes'
    BY <1>1, <1>2, <1>5 DEF Processes
  <1>9. FilesCompile' /\ Types' /\ Saving'
    BY <1>1, <1>3, <1>6 DEF FilesCompile, Types, Saving
  <1>10. DOMAIN history' = DOMAIN ruleFiles
    BY <1>1 DEF LoadHistory
  <1>11. Numbered'
    BY <1>1, <1>3, <1>10 DEF Numbered, Persisted, OnDisk
  <1>12. Persisted'
    BY <1>1, <1>2, <1>3, <1>4 DEF Persisted, OnDisk, OnDiskCompiling
  <1>13. DOMAIN NoFun = {}
    BY DEF NoFun
  <1>14. CountsHold'
    <2>1. Len(made) \in Nat /\ DOMAIN made = 1..Len(made)
      BY <1>3 DEF Persisted
    <2>2. Len(made) \in 0..Len(made) /\ \A i \in DOMAIN made : ~(i > Len(made))
      BY <2>1
    <2>3. CountsAre(NoFun, made, Len(made), assessing)
      BY <1>2, <1>4, <1>13, <2>2 DEF CountsAre
    <2> QED
      BY <1>1, <1>2, <2>2, <2>3 DEF CountsHold
  <1>15. StatsHold'
    BY <1>1, <1>2, <1>4, <1>13 DEF StatsHold, StatsAre, StatsExact, StatsOver, Counting
  <1>16. SavedHolds'
    BY <1>1 DEF SavedHolds
  <1> QED
    BY <1>7, <1>8, <1>9, <1>11, <1>12, <1>14, <1>15, <1>16 DEF StoreInv

LEMMA RestorePreserves ==
    ASSUME StoreInv, NewRules, snapFile # None
    PROVE  StoreInv'
  <1> DEFINE s == snapFile.rules
             S == snapFile.shadows
             v == s.version
             I == Installed(v, s.text, v, Restored(S), RestoredTo(S))
  <1>1. /\ proc = "down" /\ since' = Len(made) /\ proc' = "up"
        /\ ruleFiles' = Added(ruleFiles, v, s.text)
        /\ listFiles' = IF v \in DOMAIN ruleFiles THEN listFiles ELSE Added(listFiles, v, s.lists)
        /\ UNCHANGED <<deploying, lock, assessing, snapping, snapFile, made, crashed, failures>>
    BY DEF NewRules, bounds
  <1>2. /\ cur' = [version |-> v, text |-> s.text, lists |-> s.lists, live |-> I.live]
        /\ stats' = I.stats /\ shadows' = I.shadows
        /\ counts' = Counters(s.text, counts)
        /\ history' = Added(LoadHistory, v, [text |-> s.text, lists |-> s.lists])
    BY DEF NewRules, Install, RestoredStats, Restored, RestoredTo
  <1>3. /\ counts = NoFun /\ snapping = None
        /\ lock = None /\ \A p \in Deployers : deploying[p] = Idle
        /\ \A r \in Assesses : assessing[r] = Idle
    BY <1>1 DEF StoreInv, Processes, Deployers
  <1>4. LockHeld /\ FilesCompile /\ Numbered /\ Persisted /\ Types /\ SavedHolds
    BY DEF StoreInv
  <1>5. OnDisk(s) /\ <<s.text, s.lists>> \in Compiles /\ v \in DOMAIN ruleFiles
    BY <1>4 DEF Persisted, OnDiskCompiling, OnDisk
  <1>6. /\ DOMAIN ruleFiles' = DOMAIN ruleFiles /\ listFiles' = listFiles
        /\ \A w \in DOMAIN ruleFiles : ruleFiles'[w] = ruleFiles[w]
    BY <1>1, <1>5 DEF OnDisk, Added
  <1>7. /\ cur'.version = v /\ cur'.text = s.text /\ cur'.lists = s.lists /\ cur'.live = I.live
        /\ DOMAIN history' = DOMAIN ruleFiles
    <2>1. DOMAIN history' = DOMAIN ruleFiles
      BY <1>2, <1>5 DEF Added, LoadHistory
    <2> QED
      BY <1>2, <2>1
  <1> HIDE DEF I
  <1>8. Idle.at = "idle" /\ DOMAIN NoFun = {}
    BY DEF Idle, NoFun
  <1>9. LockHeld' /\ Processes' /\ Types' /\ Saving'
    BY <1>1, <1>3, <1>4, <1>8, StoreAssumption
       DEF LockHeld, Processes, Types, Saving, Holding, Deployers
  <1>10. FilesCompile'
    BY <1>4, <1>6 DEF FilesCompile
  <1>11. Numbered'
    BY <1>1, <1>4, <1>5, <1>6, <1>7 DEF Numbered, Persisted, OnDisk, Bounded
  <1>12. Persisted'
    BY <1>1, <1>3, <1>4, <1>5, <1>6, <1>7, <1>8 DEF Persisted, OnDisk, OnDiskCompiling
  <1>13. IsMade(made) /\ Len(made) \in Nat /\ DOMAIN made = 1..Len(made)
    BY <1>4 DEF Persisted, IsMade
  <1>14. CountsHold'
    <2>1. Len(made) \in 0..Len(made) /\ \A i \in DOMAIN made : ~(i > Len(made))
      BY <1>13
    <2>2. /\ DOMAIN counts' = LiveRules[s.text]
          /\ \A k \in LiveRules[s.text] : counts'[k] = 0
      BY <1>2, <1>3, <1>8 DEF Counters
    <2>3. None \notin LiveRules[s.text]
      BY <1>5, StoreAssumption
    <2>4. ASSUME NEW k
          PROVE  Cardinality(MadeBy(made, Len(made), k)) = 0
      <3>1. MadeBy(made, Len(made), k) = {}
        BY <2>1 DEF MadeBy
      <3> QED
        BY <3>1, FS_EmptySet
    <2>5. CountsAre(counts', made, Len(made), assessing)
      BY <1>3, <1>8, <2>1, <2>2, <2>3, <2>4 DEF CountsAre
    <2> QED
      BY <1>1, <1>7, <2>1, <2>2, <2>5 DEF CountsHold
  <1>15. v # 0
    BY <1>4, <1>5 DEF Numbered, Bounded
  <1>16. /\ StatsAre(I.stats, I.shadows, DOMAIN ruleFiles, made) /\ StatsOfVersion(I.stats, cur')
         /\ ~crashed => StatsExact(I.stats, made) /\ OnlyStatsOf(I.stats, cur')
    <2>1. \A y \in S : /\ StatHolds(y.rule, y, made) /\ y.versions \subseteq DOMAIN ruleFiles
                        /\ Shaped(y)
      BY <1>4 DEF SavedHolds, Saved
    <2>2. /\ StatsAre(I.stats, I.shadows, DOMAIN ruleFiles, made) /\ StatsOfVersion(I.stats, cur')
          /\ (Recorded(S, v, s.text) /\ \A y \in S : StatExact(y.rule, y, made))
               => StatsExact(I.stats, made) /\ OnlyStatsOf(I.stats, cur')
      BY <1>5, <1>7, <1>13, <1>15, <2>1, RestoredHold DEF I
    <2>3. ~crashed => Recorded(S, v, s.text) /\ \A y \in S : StatExact(y.rule, y, made)
      BY <1>1, <1>4, <2>1 DEF SavedHolds, SavedByClose, Recorded
    <2> QED
      BY <2>2, <2>3
  <1>17. StatsHold'
    BY <1>1, <1>2, <1>3, <1>7, <1>8, <1>16 DEF StatsHold
  <1>18. SavedHolds'
    BY <1>1, <1>4, <1>6 DEF SavedHolds, Saved
  <1> QED
    BY <1>9, <1>10, <1>11, <1>12, <1>14, <1>17, <1>18 DEF StoreInv

-----------------------------------------------------------------------------
(* The invariant.                                                          *)

LEMMA StoreInvInit ==
    ASSUME RulesInit
    PROVE  StoreInv
  <1>1. DOMAIN NoFun = {} /\ Idle.at = "idle"
    BY DEF NoFun, Idle
  <1>2. None \notin Deployers /\ Boot \in Deployers /\ Puts \subseteq Deployers
    BY StoreAssumption DEF Deployers
  <1>3. /\ DOMAIN deploying = Deployers /\ \A p \in Deployers : deploying[p] = Idle
        /\ DOMAIN assessing = Assesses /\ \A r \in Assesses : assessing[r] = Idle
    BY DEF RulesInit
  <1>4. LockHeld /\ Processes /\ Saving
    BY <1>1, <1>2, <1>3 DEF RulesInit, LockHeld, Processes, Saving, Holding
  <1>5. Types /\ FilesCompile
    BY <1>1 DEF RulesInit, Types, FilesCompile
  <1>6. Numbered
    BY <1>1 DEF RulesInit, Numbered, Bounded
  <1>7. Persisted
    <2>1. made = <<>> /\ DOMAIN made = {} /\ made \in Seq(Range(made))
      BY DEF RulesInit
    <2> QED
      BY <1>1, <1>3, <2>1 DEF RulesInit, Persisted
  <1>8. CountsHold /\ StatsHold /\ SavedHolds
    BY <1>1, <1>3 DEF RulesInit, CountsHold, StatsHold, StatsAre, StatsExact, StatsOver, Counting, SavedHolds
  <1> QED
    BY <1>4, <1>5, <1>6, <1>7, <1>8 DEF StoreInv

LEMMA StoreInvNext ==
    ASSUME StoreInv, [RulesNext]_ruleVars
    PROVE  StoreInv'
  <1>1. CASE UNCHANGED ruleVars
    <2>1. UNCHANGED <<proc, cur, history, stats, shadows, counts, lock, deploying, assessing, snapping,
                      ruleFiles, listFiles, snapFile, made, since, crashed, failures>>
      BY <1>1 DEF ruleVars, memory, disk, bounds
    <2>2. LockHeld' /\ Processes' /\ FilesCompile' /\ Saving' /\ failures' \in Nat
      BY <2>1 DEF StoreInv, LockHeld, Processes, FilesCompile, Saving, Types
    <2>3. Numbered'
      BY <2>1 DEF StoreInv, Numbered
    <2>4. Persisted'
      BY <2>1 DEF StoreInv, Persisted, OnDisk, OnDiskCompiling
    <2> QED
      BY <2>1, <2>2, <2>3, <2>4, StoreStep
  <1>2. CASE \E p \in Puts, body \in Bodies : HandleRulesPut(p, body[1], body[2])
    BY <1>2, PutPreserves
  <1>3. CASE \E p \in Deployers : DeployBegin(p)
    BY <1>3, DeployBeginPreserves
  <1>4. CASE \E p \in Deployers : SaveLists(p)
    BY <1>4, SaveListsPreserves
  <1>5. CASE \E p \in Deployers : SaveRules(p)
    BY <1>5, SaveRulesPreserves
  <1>6. CASE \E p \in Deployers : DeployEnd(p)
    BY <1>6, DeployEndPreserves
  <1>7. CASE \E r \in Assesses : AssessLoad(r)
    BY <1>7, AssessLoadPreserves
  <1>8. CASE \E r \in Assesses : AssessCount(r)
    BY <1>8, AssessCountPreserves
  <1>9. CASE \E r \in Assesses : AssessLog(r)
    BY <1>9, AssessLogPreserves
  <1>10. CASE SnapshotRules
    BY <1>10, SnapshotRulesPreserves
  <1>11. CASE SnapshotWrite
    BY <1>11, SnapshotWritePreserves
  <1>12. CASE Close
    BY <1>12, ClosePreserves
  <1>13. CASE Crash
    BY <1>13, CrashPreserves
  <1>14. CASE NewRules
    BY <1>14, BootPreserves, RestorePreserves
  <1> QED
    BY <1>1, <1>2, <1>3, <1>4, <1>5, <1>6, <1>7, <1>8, <1>9, <1>10, <1>11, <1>12, <1>13, <1>14
       DEF RulesNext

LEMMA StoreInvHolds == RulesSpec => []StoreInv
  <1>1. RulesInit => StoreInv
    BY StoreInvInit
  <1>2. StoreInv /\ [RulesNext]_ruleVars => StoreInv'
    BY StoreInvNext
  <1> QED
    BY <1>1, <1>2, PTL DEF RulesSpec

-----------------------------------------------------------------------------
(* The audit finds the rules of every decision, whatever crashes, failed   *)
(* writes and refused deploys left in the history directory (rulestore.go, *)
(* deploy and persist).                                                    *)
THEOREM AuditFindsRules == RulesSpec => []HistoryHolds
  <1>1. StoreInv => HistoryHolds
    BY DEF StoreInv, Persisted, FilesCompile, OnDisk, HistoryHolds
  <1> QED
    BY <1>1, StoreInvHolds, PTL

(* New never refuses what an earlier process left on disk: every version   *)
(* compiles with its lists, and the snapshot's version is not there with   *)
(* other rules (rulestore.go, loadHistory and restore).                    *)
THEOREM RestartNeverRefused == RulesSpec => []NewStarts
  <1>1. ASSUME StoreInv
        PROVE  NewStarts
    <2>1. FilesCompile /\ Persisted
      BY <1>1 DEF StoreInv
    <2>2. HistoryLoads
      BY <2>1 DEF FilesCompile, HistoryLoads, LoadHistory
    <2>3. RestoreLoads
      BY <2>1 DEF Persisted, OnDisk, OnDiskCompiling, RestoreLoads
    <2> QED
      BY <2>2, <2>3 DEF NewStarts
  <1> QED
    BY <1>1, StoreInvHolds, PTL

(* A live shadow rule's counters never count a decision that none of its   *)
(* versions made, nor a match it did not have, whatever was restored; and  *)
(* until a process ends without Close they agree with the log exactly when *)
(* no record of its versions is missing from it (shadow.go, install,       *)
(* restore).                                                               *)
THEOREM ShadowReportAgrees == RulesSpec => []ShadowAgrees
  <1>1. ASSUME StoreInv
        PROVE  ShadowAgrees
    <2>1. SUFFICES ASSUME proc = "up", NEW r \in DOMAIN cur.live
                   PROVE  LET st == stats[cur.live[r]]
                              of == {i \in DOMAIN made : made[i].version \in st.versions}
                              hits == {i \in of : r \in made[i].hit}
                              agree == /\ st.evaluated = Cardinality(of \cap logged)
                                       /\ st.matched = Cardinality(hits \cap logged)
                          IN  /\ st.evaluated <= Cardinality(of) /\ st.matched <= Cardinality(hits)
                              /\ ~crashed => (agree <=> of \subseteq logged)
      BY DEF ShadowAgrees
    <2>2. /\ StatsAre(stats, shadows, DOMAIN history, made) /\ StatsOfVersion(stats, cur)
          /\ (~crashed => StatsExact(stats, made)) /\ IsMade(made)
      BY <1>1, <2>1 DEF StoreInv, StatsHold, Persisted, IsMade
    <2> DEFINE x == cur.live[r]
               st == stats[x]
               of == {i \in DOMAIN made : made[i].version \in st.versions}
               hits == {i \in of : r \in made[i].hit}
    <2>3. x \in DOMAIN stats /\ x[1] = r
      BY <2>2 DEF StatsOfVersion
    <2>4. StatHolds(r, st, made) /\ (~crashed => StatExact(r, st, made))
      BY <2>2, <2>3 DEF StatsAre, StatsExact
    <2> HIDE DEF x, st
    <2>5. MadeIn(made, st.versions) = of /\ MadeHits(made, st.versions, r) = hits
      BY DEF MadeIn, MadeHits
    <2>6. of \subseteq DOMAIN made /\ hits \subseteq of
      OBVIOUS
    <2>7. st.evaluated <= Cardinality(of) /\ st.matched <= Cardinality(hits)
      BY <2>4, <2>5 DEF StatHolds
    <2>8. ~crashed => st.evaluated = Cardinality(of) /\ st.matched = Cardinality(hits)
      BY <2>4, <2>5 DEF StatExact
    <2> HIDE DEF of, hits
    <2>9. IsFiniteSet(of)
      BY <2>2, <2>6, MadeFinite DEF IsMade
    <2>10. of \subseteq logged <=> Cardinality(of) = Cardinality(of \cap logged)
      <3>1. of \cap logged \subseteq of
        OBVIOUS
      <3>2. Cardinality(of \cap logged) = Cardinality(of) => of \cap logged = of
        BY <2>9, <3>1, FS_Subset
      <3>3. of \subseteq logged <=> of \cap logged = of
        OBVIOUS
      <3> QED
        BY <3>2, <3>3
    <2>11. of \subseteq logged => hits \cap logged = hits
      BY <2>6
    <2> QED
      BY <2>7, <2>8, <2>10, <2>11 DEF x, st, of, hits
  <1> QED
    BY <1>1, StoreInvHolds, PTL

(* A rule's decision counter is the number of decisions the rule made      *)
(* since the process started, whatever versions it went through            *)
(* (rulestore.go, install).                                                *)
THEOREM RuleCountsAgree == RulesSpec => []CountsAgree
  <1>1. ASSUME StoreInv
        PROVE  CountsAgree
    <2>1. SUFFICES ASSUME proc = "up", NEW k \in DOMAIN counts
                   PROVE  counts[k] = Cardinality({i \in DOMAIN made : i > since /\ made[i].rule = k})
      BY DEF CountsAgree
    <2>2. counts[k] = Cardinality(MadeBy(made, since, k))
      BY <1>1, <2>1 DEF StoreInv, CountsHold, CountsAre
    <2> QED
      BY <2>2 DEF MadeBy
  <1> QED
    BY <1>1, StoreInvHolds, PTL
=============================================================================
