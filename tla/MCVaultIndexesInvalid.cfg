SPECIFICATION MCSpec
CONSTANTS
  go = go
  stop = stop
  Text = {go, stop}
  Id = {a, b}
  None = None
  Process = {p, q}
  Lexical <- MCLexical
  Overlap <- MCOverlap
  Tie <- MCTie
  Needing = {stop}
  EdgeLimit = 8
  MinEdgeScore = 18
  Denies <- MCDenies
  Matching <- MCMatching
  RecallLimit = 2
  Scopes <- MCScopes
  MaxOperations = 2
  MaxIncidents = 1
INVARIANT InvalidNotRecalled
SYMMETRY Symmetry
CHECK_DEADLOCK FALSE
