CONSTANTS
  a = a
  b = b
  x = x
  r = r
  Call <- AllCalls
  Contest <- OneContest
  Rest <- OneRest
  Drafts <- OneDraft
  Patches <- OnePatch
  Cmds = {"insert", "void"}
  Configs <- OnlyInMemory
  SinkFaults = {"append"}
  PowerLoss = FALSE
  MaxQsos = 2
  MaxOps = 3
  MaxFaults = 1
  MaxReopens = 0
SPECIFICATION Spec
CHECK_DEADLOCK FALSE
INVARIANTS
  JournalLoads
