SPECIFICATION Spec
SYMMETRY FactSymmetry
CONSTANTS
  f1 = f1
  f2 = f2
  f3 = f3
  ghost = ghost
  own = own
  s1 = s1
  q1 = q1
  q2 = q2
  Facts = {f1, f2, f3, ghost}
  Vocabulary = {f1, f2, f3}
  FactCapacity = 2
  AdditionCapacity = 2
  RemovalCapacity = 2
  TransactionSolve = TRUE
  Slots = {s1}
  Workspace = own
  Queries = {q1}
  MaxGeneration = 3
  MaxIncarnation = 2
  MaxResults = 4
INVARIANTS
  CallbacksNeverNest
  BackendInStep
  ResultMatchesInputs
  AppliesToTheSetItNames
PROPERTIES
  KeepsLease
  AbortLeavesNoTrace
CHECK_DEADLOCK FALSE
