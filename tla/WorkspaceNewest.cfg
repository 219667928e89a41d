SPECIFICATION Spec
CONSTANTS
  FreeFiles = 1
  BasicFiles = 2
  PremiumFiles = 2
  BasicSeats = 0
  Price = 50
  EmployeePrice = 500
  PremiumBase = 30000
  Files = {f1, f2, f3}
  MaxPeriods = 1
  Emails = {}
  MaxInvites = 0
  NoEmail = NoEmail
  TTL = 2
  Cooldown = 1
  MaxLag = 0
  MaxClock = 0
PROPERTIES
  CleanupKeepsTheNewest
CHECK_DEADLOCK FALSE
