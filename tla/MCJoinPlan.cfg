SPECIFICATION Spec
CONSTANTS
  Vars <- MCVars
  Named <- MCNamed
  Const = Const
  Rules <- MCRules
INVARIANTS
  NeverStuck
  OrderIsSafe
  LocalsStayLocal
CHECK_DEADLOCK FALSE
