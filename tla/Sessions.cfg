CONSTANTS
  Customers = {u1, u2}
  SessionIds = {s1, s2}
  Logins = {l1}
  Requests = {q1}
  SessionTTL = 2
  MaxTime = 3
  Faults = TRUE
  None = None
SPECIFICATION SessionSpec
SYMMETRY Symmetry
INVARIANTS SessionInv NoLateAuthentication
PROPERTIES SessionKept
CHECK_DEADLOCK FALSE
