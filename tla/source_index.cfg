SPECIFICATION Spec
CONSTANTS
  NLanes = 2
  Limits = {3}
  NInFile = 3
  BatchSizes = {2}
  NProducts = 1
  Sizes = {1}
INVARIANT IndexIsThatOfTheEvent
