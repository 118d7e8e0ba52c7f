SPECIFICATION Spec
CONSTANTS
  NLanes = 2
  NEvents = 3
  NProducts = 2
  Sizes = {1, 2}
  BatchSizes = {0, 1, 2, 3}
  RunEnds = {1, 3}
INVARIANT FileHasEveryEvent
