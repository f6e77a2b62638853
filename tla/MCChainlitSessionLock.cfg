SPECIFICATION Spec
CONSTANTS
  s1 = s1
  m1 = m1
  m2 = m2
  m3 = m3
  None = None
  Sessions <- MCSessions
  Messages <- MCMessages
  SessionOf <- MCSessionOf
  Signatures = {memory, opensearch}
  MaxClarifications = 1
  MaxChanges = 1
INVARIANTS
  SessionSerialized
CHECK_DEADLOCK FALSE
