CONSTANTS
  Customers = {u1}
  Clients = {a1}
  Uris = {x1}
  Scopes = {s1}
  RequestIds = {r1}
  ConsentIds = {c1}
  CodeIds = {k1}
  TokenIds = {t1, t2}
  RequestTTL = 1
  ConsentTTL = 1
  CodeTTL = 1
  TokenTTL = 1
  MaxTime = 2
  Faults = FALSE
  Deciders = {d1}
  Revokers = {v1}
  Exchangers = {e1, e2}
  AllowedScopes <- AllScopesAllowed
  RedirectUris <- AllUrisRegistered
  None = None
  Deleted = Deleted
SPECIFICATION ServerSpec
SYMMETRY Symmetry
INVARIANTS OneTokenPerCode
CHECK_DEADLOCK FALSE
