SPECIFICATION Spec
CONSTANTS
  NLanes = 2
  batchSize = 1
  NEvents = 3
INVARIANT BatchHasRoom
