SPECIFICATION Spec
CONSTANTS
  f1 = f1
  f2 = f2
  f3 = f3
  Groups = 2
  Contributions = 3
  UniqueFacts = 2
  Facts <- MCFacts
  Payloads <- MCPayloads
  StaticLists <- MCStaticLists
  Times = {1, 2}
  First = 0
  MaxGroup = 2
INVARIANT ResultMatchesUnion
PROPERTY ImplementsSlidingWindow
