CONSTANTS
  a = a
  b = b
  x = x
  r = r
  Call <- AllCalls
  Contest <- OneContest
  Rest <- OneRest
  Drafts <- OneDraft
  Patches <- OnePatch
  Cmds = {"insert"}
  Configs <- OnlyDurable
  SinkFaults = {"append"}
  PowerLoss = FALSE
  MaxQsos = 1
  MaxOps = 2
  MaxFaults = 1
  MaxReopens = 0
SPECIFICATION Spec
CHECK_DEADLOCK FALSE
INVARIANTS
  DurableAckIsJournaled
