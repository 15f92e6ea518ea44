\* What the class comment says of StateNeverRegresses.
SPECIFICATION BoundedSpec
CONSTANTS
  a = a
  b = b
  c1 = c1
  c2 = c2
  g1 = g1
  g2 = g2
  junk = junk
  big = big
  m1 = m1
  m2 = m2
  NotComparable = NotComparable
  Absent = Absent
  Signers = {a, b}
  Commitments = {c1}
  Blobs = {g1, g2}
  Genuine = {g1, g2}
  Oversized = {}
  Messages = {m1}
  Thresholds = {1, 2}
  Schemes = {"CMP20-ECDSA-P256"}
  Ids = {1, 2}
  MaxSessions = 1
PROPERTY StateNeverRegresses
