--------------------------- MODULE MCEventSources ---------------------------
(***************************************************************************)
(* A job with a source that reads the events of a file for all its lanes:  *)
(* SharedRootBatchEventsSource, which has the variables it declares, or    *)
(* one of those of EventSources, which hand out one event per read.  A PDS *)
(* file is also read word by word, with the outputer that writes it, by    *)
(* PDSFormat.  The variables of a module that has no part in the job are 0.*)
(***************************************************************************)
EXTENDS SharedRootBatchEventsSource

CONSTANTS PDSEvents, PDSProducts, PDSSizes, CompressedSizes, Compressions,
          Word, MaxIndex \* those of PDSFormat

ASSUME PDSAssumption ==
  /\ PDSEvents \in Nat \ {0} /\ PDSProducts \in Nat /\ PDSSizes \subseteq Nat
  /\ CompressedSizes \subseteq Nat \ {0}
  /\ Word \in Nat \ {0} /\ MaxIndex \in Nat

VARIABLES kind, \* the source of the job
          \* EventSources
          at, hasAux, counter, asked, ready, tasks, running, indexOf, entry, loaded,
          identifiers, objects, idAddress, filePos, presentEventIndex_, output,
          \* PDSFormat
          asserts, compression, size, cBytes, file, firstTime_, written, writer, pos,
          rdstate, wanted, productInfo, eventID_, given

ofEvents == <<hasAux, counter, asked, ready, tasks, running, indexOf, entry, loaded,
              identifiers, idAddress, filePos, output>>
ofWords == <<asserts, compression, size, cBytes, file, firstTime_, written, writer, pos,
             rdstate, wanted, productInfo, eventID_, given>>
eventsVars == <<vars, kind, at, objects, presentEventIndex_, ofEvents, ofWords>>

EventKinds == {"SerialRoot", "TreeGetEntry", "RNTuplePrompt", "RNTupleDelayed",
               "SharedRootEvent", "SharedPDS", "Repeating", "TestProducts",
               "ReplicatedRoot", "ReplicatedPDS"}

OneByOne == INSTANCE EventSources WITH
  NLanes <- 3, maxNEvents <- 4, NInFile <- 3, nUniqueEvents <- 2, NProducts <- 2,
  Kinds <- EventKinds, pc <- at, ievt <- counter, index <- indexOf,
  queued <- tasks, reading <- running, presentEventIndex <- presentEventIndex_

Words == INSTANCE PDSFormat WITH
  NEvents <- PDSEvents, NProducts <- PDSProducts, Sizes <- PDSSizes,
  pc <- at, output <- written

WordKinds == {"SharedPDSSource", "ReplicatedPDSSource"}

NotInBoth == objects = 0 /\ presentEventIndex_ = 0
NoEvents == /\ hasAux = 0 /\ counter = 0 /\ asked = 0 /\ ready = 0 /\ tasks = 0
            /\ running = 0 /\ indexOf = 0 /\ entry = 0 /\ loaded = 0
            /\ identifiers = 0 /\ idAddress = 0 /\ filePos = 0 /\ output = 0
NoWords == /\ asserts = 0 /\ compression = 0 /\ size = 0 /\ cBytes = 0 /\ file = 0
           /\ firstTime_ = 0 /\ written = 0 /\ writer = 0 /\ pos = 0 /\ rdstate = 0
           /\ wanted = 0 /\ productInfo = 0 /\ eventID_ = 0 /\ given = 0

\* one of the initial states of SharedRootBatchEventsSource, for the other jobs
Unused == /\ Init
          /\ \A n \in Limits : maxNEvents <= n
          /\ \A e \in InFile, p \in Products : sizeOf[e][p] = 0
          /\ tree = FileOf(1)

EventsInit ==
  \/ /\ kind = "SharedRootBatchEventsSource" /\ Init
     /\ at = 0 /\ NotInBoth /\ NoEvents /\ NoWords
  \/ Unused /\ OneByOne!Init /\ NoWords
  \/ Unused /\ Words!Init /\ NoEvents

BatchesNext ==
  /\ kind = "SharedRootBatchEventsSource" /\ Next
  /\ UNCHANGED <<kind, at, objects, presentEventIndex_, ofEvents, ofWords>>

OneByOneNext ==
  /\ kind \in EventKinds /\ OneByOne!Next
  /\ UNCHANGED <<vars, ofWords>>

WordsNext ==
  /\ kind \in WordKinds /\ Words!Next
  /\ UNCHANGED <<vars, ofEvents>>

EventsNext == BatchesNext \/ OneByOneNext \/ WordsNext

EventsSpec == EventsInit /\ [][EventsNext]_eventsVars
----------------------------------------------------------------------------
\* EventSources: what the outputer is given is one event, the one the lane asked for
\* (but for SharedPDSSource), although other lanes read in between.
ProductsOfOneEvent == kind \in EventKinds => OneByOne!ProductsOfOneEvent

\* EventSources: the identifier is that of the products' event, but for
\* SerialRootTreeGetEntrySource on a file with an EventID branch.
IdentifierUnlessAddressKept == kind \in EventKinds => OneByOne!IdentifierUnlessAddressKept

\* EventSources: at the end every event below the limit was output once.
EachEventOnce == kind \in EventKinds => OneByOne!EachEventOnce

\* PDSFormat: the reader gives the event of its index as it was written, and none
\* that the file does not have complete, but for a build without assertions.
EventsAsWritten == kind \in WordKinds => Words!EventsAsWritten

\* PDSFormat: the source ends behind the last complete event, and an assertion fails
\* only for a file that breaks off inside a record, or one without compression.
EndsWithTheFile == kind \in WordKinds => Words!EndsWithTheFile
=============================================================================
