CONSTANTS
  Customers = {u1}
  Clients = {a1}
  Uris = {x1}
  Scopes = {s1, s2}
  RequestIds = {r1}
  ConsentIds = {c1, c2}
  CodeIds = {k1}
  TokenIds = {t1}
  RequestTTL = 0
  ConsentTTL = 1
  CodeTTL = 1
  TokenTTL = 1
  MaxTime = 2
  Faults = TRUE
  Deciders = {d1, d2}
  Revokers = {v1}
  AllowedScopes <- AllScopesAllowed
  RedirectUris <- AllUrisRegistered
  None = None
  Deleted = Deleted
SPECIFICATION FlowSpec
SYMMETRY Symmetry
INVARIANTS FlowInv
PROPERTIES NeverResurrected LifecycleSpec
CHECK_DEADLOCK FALSE
