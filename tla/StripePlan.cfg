CONSTANTS
  Procs = {w, h}
  Worker = w
  FreeLimit = 0
  BasicLimit = 1
  MaxStored = 2
  MaxRequests = 1
  MaxRenewals = 1
  Reruns = TRUE
SPECIFICATION Spec
INVARIANTS
  ActivePlanFits
  PendingFits
CHECK_DEADLOCK FALSE
