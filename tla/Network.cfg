SPECIFICATION Spec
CONSTANTS
  a = a
  b = b
  k1 = k1
  g1 = g1
  g2 = g2
  big = big
  m1 = m1
  m2 = m2
  c1 = c1
  c2 = c2
  Absent = Absent
  NotComparable = NotComparable
  Nobody = Nobody
  Signers = {a, b}
  Commitments = {k1}
  Blobs = {g1, g2, big}
  Genuine = {g1, g2}
  Oversized = {big}
  Messages = {m1, m2}
  Thresholds = {0, 1, 2, NotComparable}
  Schemes = {"CMP20-ECDSA-P256", "RSA"}
  Ids = {1}
  Conns = {c1, c2}
  Scripts <- MCScripts
  DirectCalls <- MCDirectCalls
INVARIANTS
  AcknowledgedIsRecorded
  RepliesAreBacked
  ErrorIsFinal
PROPERTIES
  ImplementsCoordinator
  ConnectionsEnd
CHECK_DEADLOCK FALSE
