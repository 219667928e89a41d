CONSTANTS
  w = w
  h = h
  Procs = {w, h}
  Worker = w
  MonthDays <- Days
  DayTicks = 2
  Minute = 2
  Second = 2
  AnchorDay = 3
  AnchorTime = 1
  Begins = {6, 8}
  SubmitLimit = 2
  MaxTime = 9
  MaxUsages = 1
  MaxFaults = 1
SPECIFICATION Spec
INVARIANTS
  PeriodsTile
  TimestampInLine
  MeteredExactlyOnce
PROPERTIES
  EveryRowSettled
  
CHECK_DEADLOCK FALSE
