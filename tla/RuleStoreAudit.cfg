SPECIFICATION RulesSpec
CONSTANTS
  Boot = Boot
  None = None
  t0 = t0
  t1 = t1
  t2 = t2
  la = la
  lb = lb
  block = block
  trial = trial
  probe = probe
  Texts <- MCTexts
  Lists <- MCLists
  Compiles <- MCCompiles
  LiveRules <- MCLiveRules
  ShadowRules <- MCShadowRules
  Bodies <- MCBodies
  BootText = t1
  BootLists = la
  MaxDeploys = 2
  MaxDecisions = 1
  MaxSnapshots = 1
  MaxStops = 1
  MaxFailures = 1
  Assesses = {r1}
  Puts = {p1, p2}
INVARIANT AuditFindsLists
CHECK_DEADLOCK FALSE
