SPECIFICATION MCSpec
CONSTANTS
  go = go
  stop = stop
  Text = {go, stop}
  Id = {a, b}
  None = None
  Process = {p, q}
  Lexical <- MCLexical
  Overlap <- MCOverlap
  Tie <- MCTie
  Needing = {stop}
  EdgeLimit = 8
  MinEdgeScore = 18
  Denies <- MCDenies
  Matching <- MCMatching
  RecallLimit = 2
  Scopes <- MCScopes
  MaxOperations = 3
  MaxIncidents = 1
INVARIANTS
  TypeOK
  RowsFollow
  LinesFollow
  EdgesFollow
  GoneNotRecalled
SYMMETRY Symmetry
CHECK_DEADLOCK FALSE
