SPECIFICATION Spec
CONSTANTS
  anna = anna
  ben = ben
  a1 = a1
  a2 = a2
  b1 = b1
  Miner = {anna, ben}
  Candidate = {a1, a2, b1}
  Owner <- MCOwner
  Old = {old, pinned}
  Pinned = {pinned}
  Fresh = {f1, f2}
  None = None
  UpdateCap = 1
  ProfileCap = 1
  MaxBatch = 2
  MaxRuns = 3
  MaxFailures = 1
INVARIANTS
  TypeOK
  PinnedKept
  SuccessorSaved
  NoTwins
PROPERTIES
  NotRevived
CHECK_DEADLOCK FALSE
