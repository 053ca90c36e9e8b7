CONSTANTS
  a = a
  b = b
  x = x
  y = y
  r = r
  Call <- AllCalls
  Contest <- AllContests
  Rest <- OneRest
  Drafts <- PlainDrafts
  Patches <- SomePatches
  RejectedCmds = {"insert", "patch", "void"}
  MaxQsos = 3
  MaxOps = 4
SPECIFICATION Spec
INVARIANTS
  TypeOK
  OrderConsistent
  IndicesConsistent
  StacksApplicable
  JournalReproducesStore
  UndoRedoRoundTrip
PROPERTIES
  CanonicalOrder
  RejectionKeepsLog
