SPECIFICATION Spec
CONSTANTS
  MaxStarts = 3
  Clients = {c1, c2}
  Nobody = Nobody
INVARIANTS
  NoOrphanListener
  RunningAccepts
  QuietAfterStop
PROPERTIES
  QueuedIsSettled
  AcceptorsEnd
