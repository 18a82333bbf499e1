SPECIFICATION Spec
CONSTANTS
  MaxPredicates = 3
  MaxStrata = 2
  Programs <- MCPrograms
INVARIANTS
  LeastStratification
  RejectsExactlyCycles
  CulpritOnCycle
CHECK_DEADLOCK FALSE
