SPECIFICATION JobSpec
CONSTANTS
  NLanes = 2
  batchSize = 2
  NEvents = 7
  AppendedEvents = 3
  AppendedProducts = 2
  AppendedSizes = {1, 2}
  BatchSizes = {0, 1, 2, 3}
  RunEnds = {1, 3}
INVARIANT TypesOK
INVARIANT RoomUnlessOverrun
INVARIANT WritesIntoLiveBatch
INVARIANT BatchesAreRuns
INVARIANT WrittenAtMostOnce
INVARIANT EveryEventWritten
INVARIANT RecordsAreWholeEvents
INVARIANT FileIsComplete
INVARIANT MergedOnce
INVARIANT CountComesBack
INVARIANT ToldLanesWrite
INVARIANT WallclockIsBusyTime
INVARIANT ClustersAsSealed
INVARIANT SourceReadsWhatWasOutput
