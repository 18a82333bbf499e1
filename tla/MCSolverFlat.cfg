SPECIFICATION Spec
CONSTANTS
  Numbers = {0, 1, 2, 3}
  NotANumber = 3
  Succs <- MCSuccs
  Facts <- MCFacts
  Preds <- MCPreds
  PredOf <- MCPredOf
  IdbPreds <- MCIdb
  Snapshots <- MCSnapshots
  PolicyFacts = {}
  Rules <- MCRules
  Instances <- MCInstances
  Stratum <- MCStratum
  MaxStratum = 0
  Stratified = FALSE
  MaxDepth = 5
  PlannerMayFail = TRUE
  Capacity = 7
  PerPredicate = 3
INVARIANTS
  PerfectModel
  DepthFailureIsReal
  AcceptsWithinDepth
  OverflowIsReal
CHECK_DEADLOCK FALSE
