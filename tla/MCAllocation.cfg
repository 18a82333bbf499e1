SPECIFICATION Spec
CONSTANTS
  a1 = a1
  a2 = a2
  a3 = a3
  Addresses = {a1, a2, a3}
  Charges = {2, 3}
  Cap = 8
  Fixed = 1
SYMMETRY Symmetry
INVARIANTS
  AccountsExact
  NothingLeaks
PROPERTIES
  AdoptedSurvives
CHECK_DEADLOCK FALSE
