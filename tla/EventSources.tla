---------------------------- MODULE EventSources ----------------------------
(***************************************************************************)
(* The sources that hand out one event per read: SerialRootSource,         *)
(* SerialRootTreeGetEntrySource, SerialRNTupleSource (and its TFile twin)  *)
(* with prompt or delayed reading, SharedRootEventSource, SharedPDSSource, *)
(* RepeatingRootSource, TestProductsSource, and RootSource and PDSSource   *)
(* inside a ReplicatedSharedSource.  The kind of source is chosen at the   *)
(* start.  A lane asks for an index, gets its data products one by one,    *)
(* and when the last is there the outputer asks the source for the         *)
(* identifier of the event (Lane.cc).                                      *)
(*                                                                         *)
(* Event i is the i-th of the file, from 0; the content of an object, and  *)
(* an identifier, is the event they were read from.                        *)
(***************************************************************************)
EXTENDS Integers, Sequences, FiniteSets

CONSTANTS NLanes,        \* lanes of the job
          maxNEvents,    \* SharedSourceBase: limit on the event index
          NInFile,       \* events in the file
          nUniqueEvents, \* RepeatingRootSource: the events it repeats
          NProducts,     \* data products of an event
          Kinds          \* the sources to be looked at

VARIABLES kind,              \* the source of this job
          hasAux,            \* the file has EventAuxiliary, not only EventID
          ievt,              \* the job's event counter (Lane::doNextEvent)
          index, pc,         \* per lane: the index it asked for, and where it is
          asked, ready,      \* per lane: data products asked for, and there
          queued, reading,   \* queue_
          entry,             \* per lane: entry_, eventIndex_ of its retriever
          loaded,            \* per lane: what its deserializing task captured
          identifiers,       \* per lane: identifiers_, eventID_
          objects,           \* per lane: the data product objects
          idAddress,         \* the lane whose identifier the EventID branch fills
          filePos,           \* file_: events of the PDS file already behind
          presentEventIndex, \* PDSSource
          output             \* history: what the outputer was given

job == <<kind, hasAux>>
queue == <<queued, reading>>
lane == <<index, asked, ready>>
pds == <<filePos, presentEventIndex>>
vars == <<job, ievt, lane, pc, queue, entry, loaded, identifiers, objects,
          idAddress, pds, output>>

Lanes == 0..(NLanes - 1)
Products == 1..NProducts
None == -1
Events == 0..(maxNEvents + NInFile)

Delayed == {"SerialRoot", "RNTupleDelayed"}
TestsFirst == Delayed \cup {"TreeGetEntry", "RNTuplePrompt"}
Decoding == {"SharedRootEvent", "SharedPDS"}
AtOnce == {"Repeating", "TestProducts", "ReplicatedRoot", "ReplicatedPDS"}

\* A closure reads a data product, or, with 0, what the event itself needs.
Closures == [product : {0} \cup Products, lane : Lanes, index : Nat]

Queue == INSTANCE SerialExecutor WITH Tasks <- Closures,
                                      waiting <- queued, running <- reading

Init == /\ kind \in Kinds
        /\ hasAux \in BOOLEAN /\ (hasAux => kind = "TreeGetEntry")
        /\ ievt = 0
        /\ index = [l \in Lanes |-> None]
        /\ pc = [l \in Lanes |-> "next"]
        /\ asked = [l \in Lanes |-> 0]
        /\ ready = [l \in Lanes |-> 0]
        /\ queued = <<>>
        /\ reading = {}
        /\ entry = [l \in Lanes |-> None]
        /\ loaded = [l \in Lanes |-> None]
        /\ identifiers = [l \in Lanes |-> None]
        /\ objects = [l \in Lanes |-> [p \in Products |-> None]]
        /\ idAddress = None
        /\ filePos = [l \in Lanes |-> 0]
        /\ presentEventIndex = [l \in Lanes |-> 0]
        /\ output = {}

TypeOK == /\ ievt \in 0..(maxNEvents + NLanes)
          /\ queued \in Seq(Closures)
          /\ reading \subseteq Closures /\ Cardinality(reading) <= 1
          /\ pc \in [Lanes -> {"next", "asking", "asked", "decode", "process", "done"}]
          /\ asked \in [Lanes -> 0..NProducts] /\ ready \in [Lanes -> 0..NProducts]
          /\ objects \in [Lanes -> [Products -> Events \cup {None}]]
          /\ identifiers \in [Lanes -> Events \cup {None}]
          /\ idAddress \in Lanes \cup {None}
          /\ filePos \in [Lanes -> 0..NInFile]

----------------------------------------------------------------------------
Goto(l, from, to) == pc[l] = from /\ pc' = [pc EXCEPT ![l] = to]

AllProducts(l, e) == [objects EXCEPT ![l] = [p \in Products |-> e]]

\* Lane::doNextEvent, and SharedSourceBase::mayBeAbleToGoToEvent
NextIndex(l) ==
  /\ Goto(l, "next", IF ievt < maxNEvents THEN "asking" ELSE "done")
  /\ ievt' = ievt + 1
  /\ index' = [index EXCEPT ![l] = ievt]
  /\ asked' = [asked EXCEPT ![l] = 0]
  /\ ready' = [ready EXCEPT ![l] = 0]
  /\ UNCHANGED <<job, queue, entry, loaded, identifiers, objects, idAddress, pds, output>>

----------------------------------------------------------------------------
\* readEventAsync of the sources with a queue

PushRead(l) == Queue!Submit([product |-> 0, lane |-> l, index |-> index[l]])

\* Mutated: one delayed retriever for all the lanes.
ReadSerialOneRetriever(l) ==
  /\ kind \in TestsFirst
  /\ index[l] < NInFile
  /\ entry' = IF kind = "SerialRoot" THEN [k \in Lanes |-> index[l]] ELSE entry
  /\ PushRead(l)
  /\ Goto(l, "asking", "asked")

\* nEvents_ > iEventIndex; SerialRootSource sets entry_ before it pushes
ReadSerial(l) ==
  /\ kind \in TestsFirst
  /\ index[l] < NInFile
  /\ entry' = IF kind = "SerialRoot" THEN [entry EXCEPT ![l] = index[l]] ELSE entry
  /\ PushRead(l)
  /\ Goto(l, "asking", "asked")

\* the OptionalTaskHolder is not released: the lane's final task runs
EndOfSerial(l) ==
  /\ kind \in TestsFirst
  /\ index[l] >= NInFile
  /\ Goto(l, "asking", "done")
  /\ UNCHANGED <<queue, entry>>

\* SharedRootEventSource, SharedPDSSource: the test is left to the closure
ReadShared(l) ==
  /\ kind \in Decoding
  /\ PushRead(l)
  /\ Goto(l, "asking", "asked")
  /\ UNCHANGED entry

ReadEventAsync(l) ==
  /\ ReadSerial(l) \/ EndOfSerial(l) \/ ReadShared(l)
  /\ UNCHANGED <<job, ievt, lane, loaded, identifiers, objects, idAddress, pds, output>>

----------------------------------------------------------------------------
\* The closures

StartClosure ==
  /\ Queue!Begin
  /\ UNCHANGED <<job, ievt, lane, pc, entry, loaded, identifiers, objects, idAddress,
                 pds, output>>

\* Mutated: the EventID branch is read before it gets the lane's address.
ReadIdentifierBeforeAddress(l, i) ==
  /\ kind \in Delayed
  /\ identifiers' = [k \in Lanes |-> IF k = idAddress THEN i ELSE identifiers[k]]
  /\ idAddress' = l
  /\ entry' = [entry EXCEPT ![l] = i]
  /\ Goto(l, "asked", "process")
  /\ UNCHANGED <<loaded, objects, pds>>

\* SerialRootSource, SerialRNTupleSource: only the identifier, and for the
\* latter the index the retriever of the lane will read
ReadIdentifier(l, i) ==
  /\ kind \in Delayed
  /\ identifiers' = [identifiers EXCEPT ![l] = i]
  /\ entry' = [entry EXCEPT ![l] = i]
  /\ Goto(l, "asked", "process")
  /\ UNCHANGED <<loaded, objects, idAddress, pds>>

\* LoadEntry into the lane's REntry
ReadPrompt(l, i) ==
  /\ kind = "RNTuplePrompt"
  /\ identifiers' = [identifiers EXCEPT ![l] = i]
  /\ objects' = AllProducts(l, i)
  /\ Goto(l, "asked", "process")
  /\ UNCHANGED <<entry, loaded, idAddress, pds>>

\* SerialRootTreeGetEntrySource: events_->GetEntry fills the lane's buffers,
\* and also the EventID branch, at the address the read before left it; then
\* the identifier is read, from EventAuxiliary or through a new address
ReadTree(l, i) ==
  /\ kind = "TreeGetEntry"
  /\ objects' = AllProducts(l, i)
  /\ identifiers' = [k \in Lanes |-> IF k \in {l, idAddress} THEN i ELSE identifiers[k]]
  /\ idAddress' = IF hasAux THEN idAddress ELSE l
  /\ Goto(l, "asked", "process")
  /\ UNCHANGED <<entry, loaded, pds>>

\* SharedRootEventSource: both branches of entry i, or the end of the tree
ReadRootEvent(l, i) ==
  /\ kind = "SharedRootEvent"
  /\ IF i < NInFile
     THEN /\ identifiers' = [identifiers EXCEPT ![l] = i]
          /\ loaded' = [loaded EXCEPT ![l] = i]
          /\ Goto(l, "asked", "decode")
     ELSE /\ Goto(l, "asked", "done")
          /\ UNCHANGED <<identifiers, loaded>>
  /\ UNCHANGED <<entry, objects, idAddress, pds>>

\* SharedPDSSource: the next event of the file, whatever the index
ReadPDS(l) ==
  /\ kind = "SharedPDS"
  /\ IF filePos[0] < NInFile
     THEN /\ identifiers' = [identifiers EXCEPT ![l] = filePos[0]]
          /\ loaded' = [loaded EXCEPT ![l] = filePos[0]]
          /\ filePos' = [filePos EXCEPT ![0] = @ + 1]
          /\ Goto(l, "asked", "decode")
     ELSE /\ Goto(l, "asked", "done")
          /\ UNCHANGED <<identifiers, loaded, filePos>>
  /\ UNCHANGED <<entry, objects, idAddress, presentEventIndex>>

RunRead ==
  /\ Queue!Complete
  /\ \E t \in reading :
       /\ t.product = 0
       /\ \/ ReadIdentifier(t.lane, t.index)
          \/ ReadPrompt(t.lane, t.index)
          \/ ReadTree(t.lane, t.index)
          \/ ReadRootEvent(t.lane, t.index)
          \/ ReadPDS(t.lane)
  /\ UNCHANGED <<job, ievt, lane, output>>

\* the task given to the lane's group: decompression and deserialization
Decode(l) ==
  /\ Goto(l, "decode", "process")
  /\ objects' = AllProducts(l, loaded[l])
  /\ UNCHANGED <<job, ievt, lane, queue, entry, loaded, identifiers, idAddress, pds, output>>

----------------------------------------------------------------------------
\* readEventAsync of the sources that do their work at once

\* RepeatingRootSource: the lane's retrievers point to the event read at the start
Repeat(l) ==
  /\ kind = "Repeating"
  /\ objects' = AllProducts(l, index[l] % nUniqueEvents)
  /\ Goto(l, "asking", "process")
  /\ UNCHANGED <<entry, identifiers, pds>>

SetEventIndex(l) ==
  /\ kind = "TestProducts"
  /\ entry' = [entry EXCEPT ![l] = index[l]]
  /\ Goto(l, "asking", "process")
  /\ UNCHANGED <<identifiers, objects, pds>>

\* RootSource::readEvent, by the lane's own source
ReadReplicatedRoot(l) ==
  /\ kind = "ReplicatedRoot"
  /\ IF index[l] < NInFile
     THEN /\ identifiers' = [identifiers EXCEPT ![l] = index[l]]
          /\ objects' = AllProducts(l, index[l])
          /\ Goto(l, "asking", "process")
     ELSE /\ Goto(l, "asking", "done")
          /\ UNCHANGED <<identifiers, objects>>
  /\ UNCHANGED <<entry, pds>>

\* Mutated: the event read is not counted.
ReadReplicatedPDSNoCount(l) ==
  LET e == filePos[l] + (index[l] - presentEventIndex[l])
  IN /\ kind = "ReplicatedPDS"
     /\ IF e < NInFile
        THEN /\ identifiers' = [identifiers EXCEPT ![l] = e]
             /\ objects' = AllProducts(l, e)
             /\ filePos' = [filePos EXCEPT ![l] = e + 1]
             /\ presentEventIndex' = [presentEventIndex EXCEPT ![l] = index[l]]
             /\ Goto(l, "asking", "process")
        ELSE /\ Goto(l, "asking", "done")
             /\ UNCHANGED <<identifiers, objects, pds>>
     /\ UNCHANGED entry

\* PDSSource::readEvent: skipToNextEvent once for every event between the one
\* the source stands at and the index asked for, then the event's own content;
\* at the end of the file either fails
ReadReplicatedPDS(l) ==
  LET e == filePos[l] + (index[l] - presentEventIndex[l])
  IN /\ kind = "ReplicatedPDS"
     /\ IF e < NInFile
        THEN /\ identifiers' = [identifiers EXCEPT ![l] = e]
             /\ objects' = AllProducts(l, e)
             /\ filePos' = [filePos EXCEPT ![l] = e + 1]
             /\ presentEventIndex' = [presentEventIndex EXCEPT ![l] = index[l] + 1]
             /\ Goto(l, "asking", "process")
        ELSE /\ Goto(l, "asking", "done")
             /\ UNCHANGED <<identifiers, objects, pds>>
     /\ UNCHANGED entry

ReadAtOnce(l) ==
  /\ Repeat(l) \/ SetEventIndex(l) \/ ReadReplicatedRoot(l) \/ ReadReplicatedPDS(l)
  /\ UNCHANGED <<job, ievt, lane, queue, loaded, idAddress, output>>

----------------------------------------------------------------------------
\* getAsync, for the data product after those asked for

\* the delayed retrievers push the reading of the product
AskDelayed(l) ==
  /\ kind \in Delayed
  /\ Queue!Submit([product |-> asked[l] + 1, lane |-> l, index |-> index[l]])
  /\ UNCHANGED <<objects, ready>>

\* the others have it, or make it, at once
AskPrompt(l) ==
  /\ kind \notin Delayed
  /\ objects' = IF kind = "TestProducts"
                THEN [objects EXCEPT ![l][asked[l] + 1] = entry[l]] ELSE objects
  /\ ready' = [ready EXCEPT ![l] = @ + 1]
  /\ UNCHANGED queue

GetAsync(l) ==
  /\ pc[l] = "process"
  /\ asked[l] < NProducts
  /\ asked' = [asked EXCEPT ![l] = @ + 1]
  /\ AskDelayed(l) \/ AskPrompt(l)
  /\ UNCHANGED <<job, ievt, index, pc, entry, loaded, identifiers, idAddress, pds, output>>

\* GetEntry(entry_), views_[index](eventIndex_)
RunGet ==
  /\ Queue!Complete
  /\ \E t \in reading :
       /\ t.product \in Products
       /\ objects' = [objects EXCEPT ![t.lane][t.product] = entry[t.lane]]
       /\ ready' = [ready EXCEPT ![t.lane] = @ + 1]
  /\ UNCHANGED <<job, ievt, index, asked, pc, entry, loaded, identifiers, idAddress,
                 pds, output>>

----------------------------------------------------------------------------
\* what eventIdentifier(iLane, iEventIndex) returns
EventIdentifier(l) == CASE kind = "Repeating" -> index[l] % nUniqueEvents
                        [] kind = "TestProducts" -> index[l]
                        [] OTHER -> identifiers[l]

\* outputAsync(lane, source.eventIdentifier(...), source.dataProducts(...), ...)
Output(l) ==
  /\ ready[l] = NProducts
  /\ Goto(l, "process", "next")
  /\ output' = output \cup {[index |-> index[l], id |-> EventIdentifier(l),
                             products |-> objects[l]]}
  /\ UNCHANGED <<job, ievt, lane, queue, entry, loaded, identifiers, objects, idAddress,
                 pds>>

LaneStep(l) == \/ NextIndex(l) \/ ReadEventAsync(l) \/ ReadAtOnce(l)
               \/ Decode(l) \/ GetAsync(l) \/ Output(l)

Finished == (\A l \in Lanes : pc[l] = "done") /\ UNCHANGED vars

Next == StartClosure \/ RunRead \/ RunGet \/ (\E l \in Lanes : LaneStep(l)) \/ Finished

Spec == Init /\ [][Next]_vars
----------------------------------------------------------------------------
\* What the outputer is given is one event: all data products are those of the
\* event at the index the lane asked for (of the unique event it stands for, in
\* RepeatingRootSource; of some event, in SharedPDSSource, which reads on in its
\* file), although other lanes read, or retrieve products, in between.
ProductsOfOneEvent ==
  \A o \in output :
    \E e \in Events : /\ o.products = [p \in Products |-> e]
                      /\ kind = "Repeating" => e = o.index % nUniqueEvents
                      /\ kind \notin {"Repeating", "SharedPDS"} => e = o.index

\* TestProductsOutputer.cc:41 aborts unless the data products are those of the
\* event whose identifier it is given; the tests pair it with the sources
\* (CMakeLists.txt:164): the identifier the lane reads at output time is that
\* of the event its products come from.
IdentifierOfItsProducts ==
  \A o \in output, p \in Products : o.id = o.products[p]

\* ... which holds for every source but SerialRootTreeGetEntrySource on a file
\* with an EventID branch and no EventAuxiliary, where the address of another
\* lane's identifier stays with the branch.
IdentifierUnlessAddressKept ==
  (kind = "TreeGetEntry" => hasAux) => IdentifierOfItsProducts

\* When all lanes have ended each event of the source below the limit has been
\* output exactly once: the end of the file, found before the queue or inside
\* it, by one lane for itself or by all in one file, loses and repeats none.
EachEventOnce ==
  LET endless == kind \in {"Repeating", "TestProducts"}
      expected == {i \in 0..(maxNEvents - 1) : endless \/ i < NInFile}
  IN (\A l \in Lanes : pc[l] = "done") =>
       /\ Cardinality(output) = Cardinality(expected)
       /\ expected = IF kind = "Repeating" THEN {o.index : o \in output}
                                          ELSE {o.products[1] : o \in output}
=============================================================================
