SPECIFICATION Spec
CONSTANTS
  Nodes = {1, 2, 3}
  SumLimit = 5
  Facts <- MCFacts
  Preds <- MCPreds
  PredOf <- MCPredOf
  IdbPreds <- MCIdb
  Snapshots <- MCSnapshots
  PolicyFacts <- MCPolicy
  Rules <- MCRules
  Instances <- MCInstances
  Stratum <- MCStratum
  MaxStratum = 1
  Stratified = TRUE
  MaxDepth = 2
  PlannerMayFail = FALSE
  Capacity = 12
  PerPredicate = 9
INVARIANTS
  PerfectModel
  RoundsMatchNaive
  DepthFailureIsReal
  AcceptsWithinDepth
PROPERTIES
  Terminates
CHECK_DEADLOCK FALSE
