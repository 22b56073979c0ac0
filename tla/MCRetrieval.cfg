SPECIFICATION MCSpec
CONSTANTS
  a = a
  b = b
  c = c
  d = d
  home = home
  away = away
  Id = {a, b, c, d}
  Project = {home, away}
  None = None
  Order <- MCOrder
  Of <- MCOf
  Related <- MCRelated
  Importance <- MCImportance
  Usage <- MCUsage
  Similarity <- MCSimilarity
  Literal = {a, b}
  InWindow = {b, c}
  InUse = {a}
  Asked <- MCAsked
  K = 2
  PoolSize = 3
  LiteralMax = 1
  Seeds = 2
  Scale = 10000000
  MaxWrites = 2
INVARIANTS
  TypeOK
  NoneTwice
  BetterFirst
PROPERTIES
  IndexLive
CHECK_DEADLOCK FALSE
