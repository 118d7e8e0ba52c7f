SPECIFICATION JobSpec
CONSTANTS
  NLanes = 2
  Limits = {2, 4}
  NInFile = 3
  BatchSizes = {1, 2, 3}
  NProducts = 2
  Sizes = {0, 2}
  PDSEvents = 2
  PDSProducts = 2
  PDSSizes = {3, 8}
  CompressedSizes = {5, 8}
  Compressions = {"None", "ZSTD"}
  Word = 2
  MaxIndex = 4
INVARIANT TypesOK
INVARIANT ProductsOfThisEvent
INVARIANT FirstEventsOnce
INVARIANT ProductsOfOneEvent
INVARIANT IdentifierUnlessAddressKept
INVARIANT EachEventOnce
INVARIANT EventsAsWritten
INVARIANT EndsWithTheFile
INVARIANT ReadsBackWhatWasWritten
