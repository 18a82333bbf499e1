SPECIFICATION Spec
CONSTANTS
  Threads = {t1, t2}
  Blocks = {b1, b2, b3}
  NULL = NULL
  Sizes = {1, 2, 3}
  Bound = 2
SYMMETRY MCSymmetry
INVARIANT OneOwner
