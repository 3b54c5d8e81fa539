CONSTANTS
  Customers = {u1}
  Clients = {a1}
  Uris = {x1}
  Scopes = {s1}
  RequestIds = {r1}
  ConsentIds = {c1, c2}
  CodeIds = {k1, k2}
  TokenIds = {t1}
  RequestTTL = 1
  ConsentTTL = 1
  CodeTTL = 1
  TokenTTL = 1
  MaxTime = 2
  Faults = FALSE
  Deciders = {d1, d2}
  Revokers = {v1}
  Exchangers = {e1}
  AllowedScopes <- AllScopesAllowed
  RedirectUris <- AllUrisRegistered
  None = None
  Deleted = Deleted
SPECIFICATION ServerSpec
SYMMETRY Symmetry
INVARIANTS OneCodePerRequest
CHECK_DEADLOCK FALSE
