SPECIFICATION Spec
CONSTANTS
  Runs = {r1, r2}
  Queries = {q1, q2}
  None = None
  TTL = 0
  MaxRows = 1
  MaxAttestations = 1
  MaxClock = 1
  MaxEpoch = 2
INVARIANTS
  OpenJobsAreInFlight
