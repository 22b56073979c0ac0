SPECIFICATION Spec
CONSTANTS
  a = a
  b = b
  pin = pin
  e1 = e1
  n1 = n1
  n2 = n2
  Pass = {p1, p2}
  p1 = p1
  p2 = p2
  Old = {a, b, pin}
  Pinned = {pin}
  Contradicts <- MCNoted
  Episode = {e1}
  News = {x}
  Later = {y}
  Fresh = {n1, n2}
  None = None
  Nobody = Nobody
  Threshold = 1
  ClusterMin = 3
  MergeMin = 2
  MaxPasses = 2
  MaxManual = 1
  MaxProposals = 2
  MaxFailures = 0
INVARIANT
  Surfaced
SYMMETRY Symmetry
CHECK_DEADLOCK FALSE
