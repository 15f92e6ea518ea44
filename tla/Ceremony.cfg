SPECIFICATION Spec
CONSTANTS
  Parties = {p0, p1, p2}
  Signing = {p0, p1}
  Rounds = 2
  MaxDamage = 2
  Procs = {q1, q2}
  Counts = {2, 3}
  MaxKeygens = 3
  Exchanges = {e1, e2}
  Q = 3
  Secrets = {1, 2}
  MaxResponses = 2
INVARIANTS
  LoadIsOneKeygen
  SharesMultiply
PROPERTY SessionsComplete
CHECK_DEADLOCK FALSE
