SPECIFICATION Spec
CONSTANTS
  FreeFiles = 0
  BasicFiles = 0
  PremiumFiles = 0
  BasicSeats = 1
  Price = 50
  EmployeePrice = 500
  PremiumBase = 30000
  Files = {}
  MaxPeriods = 1
  Emails = {e1, e2}
  MaxInvites = 3
  NoEmail = NoEmail
  TTL = 2
  Cooldown = 1
  MaxLag = 1
  MaxClock = 3
SYMMETRY Symmetry
INVARIANTS
  MembersWithinPlan
  OneSeatPerAddress
  SlotsAreTold
PROPERTIES
  CleanupKeepsTheOldest
CHECK_DEADLOCK FALSE
