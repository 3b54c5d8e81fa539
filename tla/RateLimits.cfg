CONSTANTS
  Clients = {a1, a2}
  standard = standard
  wide = wide
  Limiters <- TwoLimiters
  Standard = standard
  Limit <- Limits
  Window <- Windows
  DefaultLimit = 2
  DefaultWindow = 1
  MaxTime = 4
  MaxPasses = 4
  None = None
SPECIFICATION RateSpec
SYMMETRY Symmetry
INVARIANTS RateInv
PROPERTIES RefusedAtLimit
CHECK_DEADLOCK FALSE
