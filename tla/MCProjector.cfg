CONSTANTS
  a = a
  b = b
  c = c
  x = x
  r = r
  s = s
  Call <- AllCalls
  Contest <- OneContest
  Rest <- TwoRests
  Prefix <- TwoPrefixes
  Drafts <- SomeDrafts
  Patches <- SomePatches
  MaxQsos = 3
  MaxOps = 5
  MaxLag = 2
  new_state <- EmptyMap
  EngineApply <- ToyApply
  EngineRetract <- ToyRetract
  DiffInvalidation <- ToyDiff
  Tally <- ToyTally
  Keys <- ToyKeys
  View <- ToyView
  Seen <- ToySeen
SPECIFICATION Spec
CHECK_DEADLOCK FALSE
INVARIANTS
  TypeOK
  ProjectionMatchesRecompute
  RetractsAsApplied
