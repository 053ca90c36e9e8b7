CONSTANTS
  Openers = {"p", "q"}
  Files <- SomeFiles
  MaxCrashes = 2
SPECIFICATION Spec
CHECK_DEADLOCK FALSE
INVARIANTS
  NewerFileUntouched
  OpenedIsComplete
PROPERTIES
  EventuallyOpen
