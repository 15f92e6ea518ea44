SPECIFICATION Spec
CONSTANTS
  o1 = o1
  o2 = o2
  o3 = o3
  Ops = {o1, o2}
  Retries = 1
  Choices = {"nil", "memory", "file", "otlp", "proc"}
INVARIANTS AuditNeverBreaksSigning NoSilentLoss RepeatsFollowRefusals DroppedIsExact
PROPERTIES OperationsEnd
