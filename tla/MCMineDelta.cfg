CONSTANTS
  w1 = w1
  w2 = w2
  none = none
  blank = blank
  Worker <- MCWorker
  NoWorker <- none
  Blank <- blank
  MaxRecords = 2
  InitialRecords = 0
  TornAppends = TRUE
  TextSizes = {0, 1}
  MinDelta = 1
  StreakThreshold = 1
  StreakSkip = 1
  MaxCrashes = 1
SPECIFICATION FairSpec
INVARIANTS
  TypeOK
  PrefixSettled
PROPERTIES
  BackoffHonoured
  EventuallyRecorded
CHECK_DEADLOCK FALSE
