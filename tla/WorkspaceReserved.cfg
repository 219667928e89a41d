SPECIFICATION Spec
CONSTANTS
  FreeFiles = 0
  BasicFiles = 0
  PremiumFiles = 0
  BasicSeats = 1
  Price = 50
  EmployeePrice = 500
  PremiumBase = 30000
  Files = {}
  MaxPeriods = 1
  Emails = {e1, e2}
  MaxInvites = 2
  NoEmail = NoEmail
  TTL = 2
  Cooldown = 1
  MaxLag = 1
  MaxClock = 4
INVARIANTS
  SeatsAreReserved
CHECK_DEADLOCK FALSE
