SPECIFICATION Spec
CONSTANTS
  NLanes = 2
  maxNEvents = 4
  NInFile = 3
  nUniqueEvents = 2
  NProducts = 2
  Kinds = {"TreeGetEntry"}
INVARIANT IdentifierOfItsProducts
