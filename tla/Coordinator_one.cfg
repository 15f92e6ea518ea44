\* One session: every kind of share blob and threshold.
SPECIFICATION BoundedSpec
CONSTANTS
  a = a
  b = b
  c1 = c1
  c2 = c2
  g1 = g1
  g2 = g2
  junk = junk
  big = big
  m1 = m1
  m2 = m2
  NotComparable = NotComparable
  Absent = Absent
  Signers = {a, b}
  Commitments = {c1, c2}
  Blobs = {g1, g2, junk, big}
  Genuine = {g1, g2}
  Oversized = {big}
  Messages = {m1}
  Thresholds <- AllThresholds
  Schemes = {"CMP20-ECDSA-P256", "FROST-ed25519"}
  Ids = {1, 2}
  MaxSessions = 1
INVARIANTS SignatureNeedsQuorum StateIsJustified AuditMatchesSignatures RetryExtendsShares
PROPERTIES SubmissionsAreFinal RaiseLeavesRegistry
