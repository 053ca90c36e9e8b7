CONSTANTS
  a = a
  b = b
  x = x
  r = r
  Call <- AllCalls
  Contest <- OneContest
  Rest <- OneRest
  Drafts <- OneDraft
  Patches <- OnePatch
  Cmds = {"insert", "patch", "undo", "redo"}
  Configs <- AllModes
  SinkFaults = {}
  PowerLoss = TRUE
  MaxQsos = 2
  MaxOps = 3
  MaxFaults = 0
  MaxReopens = 1
SPECIFICATION Spec
CHECK_DEADLOCK FALSE
INVARIANTS
  TypeOK
  MemoryMatchesAccepted
  RecoveryIsPrefix
  StopKeepsEverything
  PromisesSurvive
