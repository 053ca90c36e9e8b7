CONSTANTS
  a = a
  b = b
  x = x
  r = r
  Call <- AllCalls
  Contest <- OneContest
  Rest <- OneRest
  Drafts <- OneDraft
  Patches <- OnePatch
  Cmds = {"insert", "void"}
  Configs <- SinkModes
  SinkFaults = {"append", "snapshot", "compact"}
  PowerLoss = FALSE
  MaxQsos = 2
  MaxOps = 3
  MaxFaults = 2
  MaxReopens = 1
SPECIFICATION Spec
CHECK_DEADLOCK FALSE
INVARIANTS
  NothingSilentlyDropped
  DurableUpToHonest
  JournalOnlyAccepted
  MemoryMatchesAccepted
PROPERTIES
  CheckpointMakesRecoveryExact
  UnhealthyIsFinal
  ImplementsDurableLog
