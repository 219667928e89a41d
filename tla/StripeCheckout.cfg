CONSTANTS
  Procs = {w, h}
  Worker = w
  MaxSessions = 2
  MaxSubs = 2
  MaxChanges = 1
  MaxEvents = 1
  MaxFaults = 1
SPECIFICATION Spec
INVARIANTS
  OneLiveSubscription
  RecordedWithEffect
PROPERTIES
  NeverOlder
CHECK_DEADLOCK FALSE
