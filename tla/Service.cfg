SPECIFICATION Spec
CONSTANTS
  succ = succ
  open = open
  close1 = close1
  noise = noise
  pay = pay
  dis = dis
  t0 = t0
  t1 = t1
  t2 = t2
  la = la
  lb = lb
  block = block
  trial = trial
  probe = probe
  Putters = {p1, p2}
  Syncers = {s1}
  Buffer = 1
  BufSize = 1
  MaxPuts = 2
  MaxErrors = 1
  Requests = {p1, p2, p3}
  Sweepers = {s1, s2}
  TTL = 1
  MaxClock = 1
  NoEntry = NoEntry
  Testers = {p1, p2}
  MaxLabels = 2
  MaxRules = 2
  MaxTests = 3
  Nothing = Nothing
  Checks = {p1, p2}
  MaxCreated = 3
  MaxSkew = 1
  Events = {open, close1, noise}
  EventInfo <- MCInfo
  Deliveries = {p1, p2}
  DedupeTTL = 1
  MaxEntries = 1
  Nil = Nil
  MaxTime = 1
  MaxDeliveries = 2
  MaxHookSnapshots = 2
  MaxHookStops = 2
  MaxHookFailures = 1
  MaxShorts = 0
  Puts = {p1}
  Boot = Boot
  Assesses = {p1}
  Texts = {t0, t1, t2}
  Lists = {la, lb}
  Compiles <- MCCompiles
  Bodies <- MCBodies
  LiveRules <- MCLiveRules
  ShadowRules <- MCShadowRules
  BootText = t1
  BootLists = la
  None = None
  MaxDeploys = 2
  MaxDecisions = 1
  MaxSnapshots = 1
  MaxStops = 1
  MaxFailures = 1
INVARIANTS Accounted SyncSeesAll EvictionInvisible NeverStale LatestIsMax AckedSurvive SeenHasLabel
  HistoryHolds NewStarts ShadowAgrees CountsAgree
PROPERTY AllReturn
CHECK_DEADLOCK FALSE
