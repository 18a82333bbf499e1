SPECIFICATION WinSpec
CONSTANTS
  p = p
  x = x
  q = q
  Capacity = 2
  StaticLists <- MCStaticLists
  Payloads = {p, q}
  Times = {1, 2, 3}
  First = 0
  MaxOccurrence = 4
INVARIANTS
  WindowPromise
