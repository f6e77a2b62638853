SPECIFICATION OneDiscoverySpec
CONSTANTS
  Resources <- SomeResources
  Below <- SomeBelow
  Principals = {analyst, guest}
  Requests = {q1, q2}
  Metrics = {revenue}
  Closure <- SomeClosure
  Dimensions <- SomeDimensions
  Asks <- SomeAsks
  MaxEpoch = 2
  Policies <- SomePolicies
  Providers = {"inmemory", "opensearch"}
  InDomain <- Everything
  Spelt <- SomeSpelt
  analyst = analyst
  guest = guest
  revenue = revenue
  by_region = by_region
  orders = orders
  amount = amount
  status = status
  region = region
INVARIANTS
  ProvidersAgree
