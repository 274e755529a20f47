SPECIFICATION Spec
CONSTANTS
  Rows = {"a", "b"}
  MaxCalls = 3
  MaxMoves = 1
  Things = {t, u}
  MaxSent = 4
  MaxOthers = 1
  Texts = {"", "a", "a ", "b"}
  MaxAsked = 5
  Picks = {"m", "n"}
  Fields = {"", "m"}
  MaxRuns = 3
  Deps = {"1h", "6h"}
  MaxLoads = 4
  MAX_RETRY = 2
  MaxRequests = 3
  Full = 2
  Healths = {"crit", "unknown"}
  MaxHops = 3
  MaxActions = 2
  MAX_STACK = 2
  DEFAULT_DURATION = 2
  MaxToasts = 4
INVARIANT ClientErrorIsFinal
CHECK_DEADLOCK FALSE
