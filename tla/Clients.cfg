SPECIFICATION RegistrySpec
CONSTANTS
  c1 = c1
  c2 = c2
  w1 = w1
  w2 = w2
  None = None
  Clients = {c1, c2}
  Workers = {w1, w2}
  MaxTime = 2
  MaxSecrets = 3
  Faults = TRUE
SYMMETRY Symmetry
INVARIANTS RegistryInv OwnSecretsOnly RotationTrail
