SPECIFICATION Spec
CONSTANTS
  o1 = o1
  o2 = o2
  o3 = o3
  Ops = {o1}
  Retries = 2
  Choices = {"otlp"}
PROPERTIES DropsAfterTheRetries
