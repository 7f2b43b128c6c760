SPECIFICATION Spec
CONSTANTS
  Requests = {q1, q2, q3}
  None = None
PROPERTY OneRenderPerSession
CHECK_DEADLOCK FALSE
