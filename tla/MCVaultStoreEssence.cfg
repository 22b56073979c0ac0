SPECIFICATION Spec
CONSTANTS
  server = server
  miner = miner
  Process = {server, miner}
  Stamper = {}
  Deleter = {}
  NoProcess = NoProcess
  Absent = Absent
  MaxOperations = 3
  Throttle = FALSE
  MaxFailures = 0
INVARIANT
  EssenceKept
CHECK_DEADLOCK FALSE
