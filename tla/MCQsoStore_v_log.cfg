CONSTANTS
  a = a
  b = b
  x = x
  y = y
  r = r
  Call <- AllCalls
  Contest <- AllContests
  Rest <- OneRest
  Drafts <- PlainDrafts
  Patches <- SomePatches
  RejectedCmds = {"undo"}
  MaxQsos = 1
  MaxOps = 4
SPECIFICATION Spec
PROPERTIES
  RejectionKeepsLog
