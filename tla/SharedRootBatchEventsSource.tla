--------------------- MODULE SharedRootBatchEventsSource ---------------------
(***************************************************************************)
(* SharedRootBatchEventsSource.cc reading, for several lanes, a file that  *)
(* RootBatchEventsOutputer.cc wrote.  Each entry of the Events TTree holds *)
(* a batch of events: their ids, their offset tables one after the other,  *)
(* and their data one after the other.  The source reads an entry ahead,   *)
(* and every task of its SerialTaskQueue hands the next event of it to the *)
(* lane that pushed the task; the lane's own group then deserializes it.   *)
(*                                                                         *)
(* A byte is a triple <<event, product, position>>, so that a byte that    *)
(* comes out in the wrong place is seen.  Compression is left out: it is   *)
(* undone over the whole batch before anything is cut out of it.           *)
(***************************************************************************)
EXTENDS Integers, Sequences, SequencesExt

CONSTANTS NLanes,      \* lanes of the job
          Limits,      \* values of the limit on the event index
          NInFile,     \* events in the file
          BatchSizes,  \* batch sizes the file may have been written with
          NProducts,   \* data products of an event
          Sizes        \* sizes a serialized product may have

ASSUME SourceAssumption == /\ {NLanes, NProducts} \subseteq Nat \ {0}
                           /\ NInFile \in Nat
                           /\ Limits \subseteq Nat
                           /\ BatchSizes \subseteq Nat \ {0}
                           /\ Sizes \subseteq Nat

Lanes == 0..(NLanes - 1)
InFile == 0..(NInFile - 1)
Products == 1..NProducts
NoEvent == -1

VARIABLES maxNEvents,         \* SharedSourceBase: limit on the event index
          sizeOf,             \* the size of every product of every event
          tree,               \* the entries of the Events TTree
          ievt,               \* the job's event counter (Lane::doNextEvent)
          nextEntry, cachedEventIndex,
          current,            \* eventIDs_ and offsetsAndBuffer_.first
          uncompressedBuffer,
          queued, reading,    \* queue_
          decode,             \* per lane: what its deserializing task captured
          eventID, products,  \* laneInfos_
          index,              \* per lane: the index it asked for
          pc,                 \* per lane
          processed           \* history: <<index, event>> of each event processed

constants == <<maxNEvents, sizeOf, tree>>
queue == <<queued, reading>>
cache == <<nextEntry, cachedEventIndex, current, uncompressedBuffer>>
laneInfos == <<eventID, products>>
vars == <<constants, ievt, cache, queue, decode, laneInfos, index, pc, processed>>

Closures == [lane : Lanes, index : Nat]

Queue == INSTANCE SerialExecutor WITH Tasks <- Closures,
                                      waiting <- queued, running <- reading

----------------------------------------------------------------------------
\* The outputer's side of the format

Blob(e, p) == [i \in 1..sizeOf[e][p] |-> <<e, p, i>>]

\* writeDataProductsToOutputBuffer: the blobs one after the other
Buffer(e) == FlattenSeq([p \in Products |-> Blob(e, p)])

\* ... and where each starts, with the total as one more entry
Offsets(e) ==
  [p \in 1..(NProducts + 1) |-> Len(FlattenSeq([q \in 1..(p - 1) |-> Blob(e, q)]))]

\* finishBatchAsync and output: one entry of the tree
WriteBatch(events) ==
  [ids |-> events,
   offsets |-> FlattenSeq([i \in DOMAIN events |-> Offsets(events[i])]),
   buffer |-> FlattenSeq([i \in DOMAIN events |-> Buffer(events[i])])]

\* A file of batches of b events each, the last one smaller if need be
FileOf(b) ==
  [k \in 1..((NInFile + b - 1) \div b) |->
     LET first == (k - 1) * b
         n == IF first + b <= NInFile THEN b ELSE NInFile - first
     IN WriteBatch([i \in 1..n |-> first + i - 1])]

Empty == [ids |-> <<>>, offsets |-> <<>>, buffer |-> <<>>]
NoWork == [offsets |-> <<>>, buffer |-> <<>>]

Init == /\ maxNEvents \in Limits
        /\ sizeOf \in [InFile -> [Products -> Sizes]]
        /\ \E b \in BatchSizes : tree = FileOf(b)
        /\ ievt = 0
        /\ nextEntry = 0
        /\ cachedEventIndex = 0
        /\ current = Empty
        /\ uncompressedBuffer = <<>>
        /\ queued = <<>>
        /\ reading = {}
        /\ decode = [l \in Lanes |-> NoWork]
        /\ eventID = [l \in Lanes |-> NoEvent]
        /\ products = [l \in Lanes |-> [p \in Products |-> <<>>]]
        /\ index = [l \in Lanes |-> -1]
        /\ pc = [l \in Lanes |-> "next"]
        /\ processed = {}

TypeOK == /\ ievt \in 0..(maxNEvents + NLanes)
          /\ nextEntry \in 0..Len(tree)
          /\ cachedEventIndex \in 0..Len(current.ids)
          /\ current.ids \in Seq(InFile)
          /\ queued \in Seq(Closures)
          /\ reading \subseteq Closures
          /\ eventID \in [Lanes -> InFile \cup {NoEvent}]
          /\ index \in [Lanes -> Int]
          /\ pc \in [Lanes -> {"next", "asking", "asked", "decode", "process", "done"}]

----------------------------------------------------------------------------
Goto(l, from, to) == /\ pc[l] = from
                     /\ pc' = [pc EXCEPT ![l] = to]

\* Mutated: no test of the limit.
NextIndexAlways(l) ==
  /\ Goto(l, "next", "asking")
  /\ ievt' = ievt + 1
  /\ index' = [index EXCEPT ![l] = ievt]
  /\ UNCHANGED <<constants, cache, queue, decode, laneInfos, processed>>

\* Lane::doNextEvent: the next index, and the test of the source's limit
NextIndex(l) ==
  /\ Goto(l, "next", IF ievt < maxNEvents THEN "asking" ELSE "done")
  /\ ievt' = ievt + 1
  /\ index' = [index EXCEPT ![l] = ievt]
  /\ UNCHANGED <<constants, cache, queue, decode, laneInfos, processed>>

\* readEventAsync: queue_.push
ReadEventAsync(l) ==
  /\ Goto(l, "asking", "asked")
  /\ Queue!Submit([lane |-> l, index |-> index[l]])
  /\ UNCHANGED <<constants, ievt, cache, decode, laneInfos, index, processed>>

StartRead ==
  /\ Queue!Begin
  /\ UNCHANGED <<constants, ievt, cache, decode, laneInfos, index, pc, processed>>

\* The offset table of event i (from 0) of the current entry, and where its
\* data begin in the uncompressed buffer: the last offset of an event is its size.
Table(c, i) == SubSeq(c.offsets, i * (NProducts + 1) + 1, (i + 1) * (NProducts + 1))

BufferBegin(c, i) ==
  FoldLeft(+, 0, [k \in 1..i |-> c.offsets[k * (NProducts + 1)]])

\* the bytes of event i, and its table, for the deserializing task
Slice(c, buffer, i) ==
  LET begin == BufferBegin(c, i)
  IN [offsets |-> Table(c, i),
      buffer |-> SubSeq(buffer, begin + 1, begin + Last(Table(c, i)))]

\* Hand event i of the entry c to lane l.
GiveEvent(l, c, buffer, i) ==
  /\ eventID' = [eventID EXCEPT ![l] = c.ids[i + 1]]
  /\ decode' = [decode EXCEPT ![l] = Slice(c, buffer, i)]
  /\ cachedEventIndex' = i + 1
  /\ Goto(l, "asked", "decode")

\* eventsTree_->GetEntry(nextEntry_++), decompression; the first of the new events
ReadAhead(l) ==
  LET c == tree[nextEntry + 1]
  IN /\ cachedEventIndex = Len(current.ids)
     /\ nextEntry < Len(tree)
     /\ nextEntry' = nextEntry + 1
     /\ current' = c
     /\ uncompressedBuffer' = SubSeq(c.buffer, 1, BufferBegin(c, Len(c.ids)))
     /\ GiveEvent(l, c, uncompressedBuffer', 0)

\* Mutated: the data of an event are looked for at its own first offset.
GiveFromStart(l) ==
  /\ cachedEventIndex < Len(current.ids)
  /\ eventID' = [eventID EXCEPT ![l] = current.ids[cachedEventIndex + 1]]
  /\ decode' = [decode EXCEPT ![l] =
       [offsets |-> Table(current, cachedEventIndex),
        buffer |-> SubSeq(uncompressedBuffer, 1, Last(Table(current, cachedEventIndex)))]]
  /\ cachedEventIndex' = cachedEventIndex + 1
  /\ Goto(l, "asked", "decode")
  /\ UNCHANGED <<nextEntry, current, uncompressedBuffer>>

\* the entry read before still has events
GiveCached(l) ==
  /\ cachedEventIndex < Len(current.ids)
  /\ GiveEvent(l, current, uncompressedBuffer, cachedEventIndex)
  /\ UNCHANGED <<nextEntry, current, uncompressedBuffer>>

\* Mutated: only entries of the tree count, not the events read ahead.
EndWithLastEntry(l) ==
  /\ nextEntry >= Len(tree)
  /\ Goto(l, "asked", "done")
  /\ UNCHANGED <<cache, decode, eventID>>

\* no event is left: the OptionalTaskHolder goes away with the closure, and
\* the lane's final task runs
EndOfFile(l) ==
  /\ nextEntry >= Len(tree)
  /\ cachedEventIndex >= Len(current.ids)
  /\ Goto(l, "asked", "done")
  /\ UNCHANGED <<cache, decode, eventID>>

\* the closure pushed by readEventAsync; iEventIndex is not used in it
Read == /\ Queue!Complete
        /\ \E t \in reading : \/ ReadAhead(t.lane)
                              \/ GiveCached(t.lane)
                              \/ EndOfFile(t.lane)
        /\ UNCHANGED <<constants, ievt, products, index, processed>>

\* deserializeDataProducts(char...): a product of size 0 is not touched
Deserialize(l) ==
  /\ Goto(l, "decode", "process")
  /\ products' = [products EXCEPT ![l] = [p \in Products |->
       IF decode[l].offsets[p + 1] = decode[l].offsets[p]
       THEN @[p]
       ELSE SubSeq(decode[l].buffer, decode[l].offsets[p] + 1, decode[l].offsets[p + 1])]]
  /\ decode' = [decode EXCEPT ![l] = NoWork]
  /\ UNCHANGED <<constants, ievt, cache, queue, eventID, index, processed>>

\* the lane is done with the event and comes back to doNextEvent
Process(l) ==
  /\ Goto(l, "process", "next")
  /\ processed' = processed \cup {<<index[l], eventID[l]>>}
  /\ UNCHANGED <<constants, ievt, cache, queue, decode, laneInfos, index>>

LaneStep(l) == NextIndex(l) \/ ReadEventAsync(l) \/ Deserialize(l) \/ Process(l)

Finished == (\A l \in Lanes : pc[l] = "done") /\ UNCHANGED vars

Next == StartRead \/ Read \/ (\E l \in Lanes : LaneStep(l)) \/ Finished

Spec == Init /\ [][Next]_vars
----------------------------------------------------------------------------
\* While a lane processes an event, every data product of the lane is the one
\* that was written for the event whose id the lane reports, wherever the event
\* stood in its batch, whatever the sizes of the products before it, and
\* although other lanes move the source's cache on meanwhile.
ProductsOfThisEvent ==
  \A l \in Lanes : pc[l] = "process" =>
    \A p \in Products : sizeOf[eventID[l]][p] > 0 => products[l][p] = Blob(eventID[l], p)

\* When all lanes have ended, the events processed are the first ones of the
\* file, up to the limit of the job, none of them twice: those the source read
\* ahead and left in its cache are not lost at the end of the file.
FirstEventsOnce ==
  (\A l \in Lanes : pc[l] = "done") =>
    /\ {x[2] : x \in processed} = {e \in InFile : e < maxNEvents}
    /\ \A x, y \in processed : x[2] = y[2] => x = y

\* "iEventIndex is the index of the event within the Source" (WaiterBase.h:18;
\* README.md:397 promises that EventSleepWaiter's times line up with it): a
\* lane that asked for index i processes the i-th event of the file.
IndexIsThatOfTheEvent ==
  \A l \in Lanes : pc[l] = "process" => eventID[l] = index[l]
=============================================================================
