CONSTANTS
  s1 = s1
  s2 = s2
  accounts = accounts
  transactions = transactions
  balance = balance
  other = other
  Customers = {u1}
  Clients = {a1}
  Uris = {x1}
  Scopes = {s1, s2}
  RequestIds = {r1}
  ConsentIds = {c1}
  CodeIds = {k1}
  TokenIds = {t1}
  RequestTTL = 0
  ConsentTTL = 0
  CodeTTL = 0
  TokenTTL = 1
  MaxTime = 1
  Faults = FALSE
  Deciders = {d1}
  Revokers = {v1}
  Exchangers = {e1}
  Requests = {g1, g2}
  CacheTTL = 0
  Endpoints = {accounts, balance}
  Required <- RequiredScopes
  Explicit = {balance}
  AllowedScopes <- OneScopeAllowed
  RedirectUris <- AllUrisRegistered
  None = None
  Deleted = Deleted
SPECIFICATION FairBankSpec
INVARIANTS NoAccessWithoutConsent InvalidTokensDead
PROPERTIES DeadTokenStaysOut RequestsAudited
CHECK_DEADLOCK FALSE
