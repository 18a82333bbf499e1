SPECIFICATION Spec
CONSTANTS
  f1 = f1
  f2 = f2
  ghost = ghost
  own = own
  s1 = s1
  q1 = q1
  q2 = q2
  Facts = {f1, f2, ghost}
  Vocabulary = {f1, f2}
  FactCapacity = 1
  AdditionCapacity = 2
  RemovalCapacity = 2
  TransactionSolve = FALSE
  Slots = {own, s1}
  Workspace = own
  Queries = {q1, q2}
  MaxGeneration = 2
  MaxIncarnation = 1
  MaxResults = 3
INVARIANTS
  CachePointsAtAHandle
  HandlesBelongToTheLease
  TextAnswersTheQuery
PROPERTIES
  CallsReturn
CHECK_DEADLOCK FALSE
