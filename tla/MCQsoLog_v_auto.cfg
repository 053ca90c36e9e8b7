CONSTANTS
  a = a
  b = b
  x = x
  r = r
  Call <- AllCalls
  Contest <- OneContest
  Rest <- OneRest
  Drafts <- OneDraft
  Patches <- OnePatch
  Cmds = {"insert", "void"}
  Configs <- OnlyDefault
  SinkFaults = {}
  PowerLoss = FALSE
  MaxQsos = 1
  MaxOps = 3
  MaxFaults = 0
  MaxReopens = 0
SPECIFICATION Spec
CHECK_DEADLOCK FALSE
INVARIANTS
  AutoCheckpointInterval
