CONSTANTS
  Owners = {o}
  Admins = {a, b}
  MaxLinks = 2
  MaxSecrets = 3
  MaxTokens = 1
  MaxSignIns = 2
  MaxCalls = 2
  MaxStatusChanges = 2
SPECIFICATION Spec
SYMMETRY Symmetry
INVARIANTS
  SessionsEndWithReset
  LinksWorkOnce
  NewestLinkWorks
  AuditTellsHistory
CHECK_DEADLOCK FALSE
