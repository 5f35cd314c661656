SPECIFICATION HookSpec
CONSTANTS
  succ = succ
  open = open
  close = close
  noise = noise
  pay = pay
  dis = dis
  Nil = Nil
  Events = {open, close, noise}
  EventInfo <- MCInfo
  Deliveries = {x, y}
  DedupeTTL = 1
  MaxEntries = 2
  MaxTime = 1
  MaxDeliveries = 3
  MaxHookSnapshots = 0
  MaxHookStops = 1
  MaxHookFailures = 0
  MaxShorts = 1
INVARIANT AckedSurviveShortWrite
CHECK_DEADLOCK FALSE
