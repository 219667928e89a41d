CONSTANTS
  Procs = {w, h}
  Worker = w
  FreeLimit = 0
  BasicLimit = 1
  MaxStored = 1
  MaxRequests = 2
  MaxRenewals = 0
  Reruns = FALSE
SPECIFICATION Spec
INVARIANT
  QueuedDowngradeIsKnown
CHECK_DEADLOCK FALSE
