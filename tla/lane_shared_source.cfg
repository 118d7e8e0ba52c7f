SPECIFICATION Spec
CONSTANTS
  NLanes = 2
  NEvents = 2
  InSource = 3
  NProducts = 2
  SyncSource = FALSE
  UseWaiter = TRUE
  UsesProductReady = FALSE
INVARIANT TypeOK
INVARIANT OneEventPerLane
INVARIANT OutputAfterProducts
INVARIANT EveryEventOnce
