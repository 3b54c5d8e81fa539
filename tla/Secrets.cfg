CONSTANTS
  jwt = jwt
  dsn = dsn
  Names = {jwt, dsn}
  Required = {jwt}
  LoadOrder <- RequiredFirst
  Callers = {g1}
  Loaders = {l1}
  CacheTTL = 1
  MaxFlight = 1
  MaxTime = 3
  MaxWrites = 2
  Faults = TRUE
  None = None
SPECIFICATION SecretsSpec
INVARIANTS SecretsInv BoundedStaleness NeverIncomplete ReloadFresh
