CONSTANTS
  a = a
  b = b
  x = x
  r = r
  Call <- AllCalls
  Contest <- OneContest
  Rest <- OneRest
  Drafts <- OneDraft
  Patches <- OnePatch
  Cmds = {"insert", "patch"}
  Configs <- BothModes
  SinkFaults = {"append", "panic", "flush", "snapshot"}
  PowerLoss = FALSE
  MaxQsos = 2
  MaxOps = 3
  MaxFaults = 1
  MaxReopens = 0
  Clients <- TwoClients
  Requests <- SomeRequests
  ChannelBound = 1
  MaxCalls <- SomeCalls
SPECIFICATION SysSpec
CHECK_DEADLOCK FALSE
INVARIANTS
  AnswersMatchLog
PROPERTIES
  EveryCallReturns
  AcceptedOpsSettle
