SPECIFICATION MCSpec
CONSTANTS
  red = red
  blue = blue
  Word = {red, blue}
  Query = {red, blue}
  Says <- MCSays
  Session = {s, t}
  Indexer = {p, q}
  NoSession = NoSession
  ScriptLength = 4
  ShortLength = 1
  LongLength = 3
  FileCap = 2
  MaxIndexings = 2
  MaxIncidents = 1
INVARIANTS
  TranscriptsTypeOK
  RowsWhole
  NothingMissed
PROPERTIES
  NeverBack
SYMMETRY Symmetry
CHECK_DEADLOCK FALSE
