SPECIFICATION FairMigrationSpec
CONSTANTS
  miner = miner
  migrator = migrator
  m1 = m1
  f1 = f1
  f2 = f2
  f3 = f3
  f4 = f4
  Writer = {miner, migrator}
  Migrator = migrator
  Fact = {f1, f2, f3, f4}
  NoFact = NoFact
  Nobody = Nobody
  Mem = {m1}
  Line <- MCLine
  General = {m1}
  NoFile = NoFile
  Broken = Broken
  Cap = 2
  Answers <- MCAnswers
  MaxCalls = 4
  MaxCrashes = 1
  MaxRuns = 2
INVARIANTS
  MigrationTypeOK
  ReportTells
PROPERTIES
  CallsReturn
  ImplementsLog
CHECK_DEADLOCK FALSE
