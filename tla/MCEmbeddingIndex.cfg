SPECIFICATION FairSpec
CONSTANTS
  Memory = {m1, m2}
  NoMemory = NoMemory
  Process = {server, miner}
  Reader = {prompt}
  Nobody = Nobody
  None = None
  MaxOperations = 3
  MaxFailures = 1
INVARIANTS
  TypeOK
  PairSound
  RowsKept
PROPERTIES
  ReadersCatchUp
CHECK_DEADLOCK FALSE
