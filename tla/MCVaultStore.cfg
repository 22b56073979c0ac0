SPECIFICATION FairSpec
CONSTANTS
  server = server
  miner = miner
  Process = {server, miner}
  Stamper = {miner}
  Deleter = {miner}
  NoProcess = NoProcess
  Absent = Absent
  MaxOperations = 3
  Throttle = TRUE
  MaxFailures = 1
INVARIANTS
  TypeOK
  OneFile
  CacheHonest
  Kept
PROPERTIES
  CachesConverge
CHECK_DEADLOCK FALSE
