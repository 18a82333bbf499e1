SPECIFICATION Spec
CONSTANTS
  x = x
  p = p
  Capacity = 2
  StaticFacts = {x}
  StaticCapacity = 1
  Payloads = {p}
  Times = {1, 2}
  First = 0
  MaxOccurrence = 2
INVARIANTS
  OneLease
  ResultMatchesWindow
  InArrivalOrder
PROPERTIES
  ImplementsSlidingWindow
  OperationsEnd
