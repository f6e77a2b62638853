SPECIFICATION Spec
CONSTANTS
  m1 = m1
  m2 = m2
  q1 = q1
  q2 = q2
  day = day
  week = week
  month = month
  unknown = unknown
  None = None
  Metrics <- MCMetrics
  Ranges <- MCRanges
  OfferedRanges <- MCRanges
  Grains <- MCGrains
  Supports <- MCSupports
  Proposals <- MCProposals
  SortKeys = {m1, day, month, unknown}
  MaxRetrievalRounds = 2
  MaxRepairAttempts = 2
  MaxEpoch = 2
INVARIANTS
  ReleasedUnderBoundEpoch
CHECK_DEADLOCK FALSE
