SPECIFICATION Spec
CONSTANTS
  te = te
  ta = ta
  tb = tb
  tc = tc
  number = number
  malformed = malformed
  Texts <- MCTexts
  Size <- MCSize
  Hash <- MCHash
  Number = number
  Malformed = malformed
  MaxTerms = 1
  MaxGeneration = 3
  IndexThreshold = 3
  Capacities <- MCCapacities
  Batches <- MCBatches
INVARIANTS
  IndexMatchesArena
  MeasureIsExact
PROPERTY AppendsExactly
