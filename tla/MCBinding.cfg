CONSTANTS
  Tables = {1, 2, 3, 4}
  Columns <- CatalogColumns
  TableOf <- CatalogTableOf
  Relationships = {1, 2, 3, 4, 5}
  None = None
  Rules = {1, 2, 3}
  slot = slot
  low = low
  high = high
  Slots = {slot}
  Values = {low, high}
  MaxClosureRounds = 3
  MaxHops = 2
  MaxCandidates = 32
  Graphs <- SomeGraphs
  Books <- SomeBooks
  Permissions <- SomePermissions
  Requests <- SomeRequests
SPECIFICATION Spec
CHECK_DEADLOCK FALSE
INVARIANTS
  TypeOK
  EveryActiveRuleApplied
  NoRuleUncalledFor
  GivesUpOnLongChainsOnly
  PlanConnects
  PlanIsShortest
  RefusedWithoutPathOnly
  BoundPlanMeetsRules
