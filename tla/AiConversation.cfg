CONSTANTS
  Requests = {r1, r2, r3}
  Convs = {c1, c2}
  Tools = {t1}
  Providers = {"openrouter", "gemini"}
  MaxTools = 1
  MaxMessages = 6
  MaxHistory = 2
  MaxConvs = 2
  MaxFaults = 1
SPECIFICATION Spec
SYMMETRY Symmetry
INVARIANTS
  AiTypeOK
  ExchangesSerialized
  StoredTogether
  ReplyIsTrue
CHECK_DEADLOCK FALSE
