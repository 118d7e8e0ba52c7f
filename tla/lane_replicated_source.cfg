SPECIFICATION FairSpec
CONSTANTS
  NLanes = 2
  NEvents = 3
  InSource = 2
  NProducts = 1
  SyncSource = TRUE
  UseWaiter = FALSE
  UsesProductReady = TRUE
INVARIANT WaitedMeansFinished
INVARIANT EveryEventOnce
PROPERTY AllLanesFinish
