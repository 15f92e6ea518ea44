SPECIFICATION MCSpec
CONSTANTS
  Threads = {t1, t2}
  Callers = {t1, t2}
  Digests = {d1}
  Nil = Nil
  MaxRuns = 2
INVARIANTS
  BorrowIsCallInFlight
  ClearedIsZeroed
  CallsAloneAreSound
  HandlesAreClosed
PROPERTIES
  ZeroedForGood
  ProbeEndsOrIsStuck
CHECK_DEADLOCK FALSE
