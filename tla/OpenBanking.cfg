CONSTANTS
  s1 = s1
  s2 = s2
  accounts = accounts
  transactions = transactions
  balance = balance
  other = other
  Customers = {u1}
  Clients = {a1}
  Uris = {x1}
  Scopes = {s1, s2}
  RequestIds = {r1}
  ConsentIds = {c1}
  CodeIds = {k1}
  TokenIds = {t1}
  RequestTTL = 1
  ConsentTTL = 1
  CodeTTL = 1
  TokenTTL = 2
  MaxTime = 3
  Faults = TRUE
  Deciders = {d1}
  Revokers = {v1}
  Exchangers = {e1}
  Requests = {g1}
  CacheTTL = 1
  Endpoints = {accounts, transactions, balance, other}
  Required <- RequiredScopes
  Explicit = {balance}
  AllowedScopes <- OneScopeAllowed
  RedirectUris <- AllUrisRegistered
  None = None
  Deleted = Deleted
SPECIFICATION BankSpec
SYMMETRY Symmetry
INVARIANTS BankInv ReplayRevokes NoAccessWithoutConsent RefusalsDeserved ReasonsTrue ServedAsGranted
PROPERTIES LifecycleSpec
CHECK_DEADLOCK FALSE
