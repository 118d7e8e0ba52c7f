----------------------------- MODULE HDFOutputer -----------------------------
(***************************************************************************)
(* HDFOutputer.cc, multidataset_plugin.cc and HDFSource.cc.                *)
(*                                                                         *)
(* The outputer keeps the events of a batch in memory and, when the batch  *)
(* is full or the job is over, appends them to one-dimensional datasets:   *)
(* Event_IDs, and for every data product its bytes and, in name_sz, where  *)
(* the bytes of each event end.  HDFSource finds an event by its position  *)
(* in the file from those ends.                                            *)
(*                                                                         *)
(* HEP_IO_TYPE chooses how bytes and ends are appended: by extending the   *)
(* dataset (1, the default, and H5DOappend), or by a request that the      *)
(* plug-in flushes with all others (0).  The plug-in takes the end of its  *)
(* last request for the end of the dataset and forgets it with the flush.  *)
(*                                                                         *)
(* A byte is the event and the data product it is of.                      *)
(***************************************************************************)
EXTENDS Integers, Sequences, FiniteSets, SequencesExt

CONSTANTS NLanes,     \* lanes of the job
          NEvents,    \* events of the job
          NProducts,  \* data products of an event
          Sizes,      \* bytes a data product may serialize to
          BatchSizes, \* values of maxBatchSize_
          RunEnds     \* how many events the first of two runs may have

VARIABLES maxBatchSize_, method,       \* parameters; get_hdf5_method()
          size, runEnd,                \* what the source gives
          next, event, pc,             \* the next event; per lane
          blobs,                       \* serializers_: per lane and product
          queued, writing,             \* queue_
          products_, events_, batch_,  \* the batch in memory
          offsets_,                    \* per product
          datasets, ends, ids,         \* the file
          runAttribute,
          batches,                     \* history: calls of writeBatch
          order,                       \* history: events in the order of output
          closed

parameters == <<maxBatchSize_, method, size, runEnd>>
lanes == <<next, event, pc, blobs>>
queue == <<queued, writing>>
memory == <<products_, events_, batch_, offsets_>>
file == <<datasets, ends, ids, runAttribute, batches>>
vars == <<parameters, lanes, queue, memory, file, order, closed>>

Lanes == 0..(NLanes - 1)
Events == 0..(NEvents - 1)
Products == 0..(NProducts - 1)
None == -1
Methods == {"write_ds", "multidataset", "append"}

Queue == INSTANCE SerialExecutor WITH Tasks <- Lanes, waiting <- queued, running <- writing

RunOf(e) == IF e < runEnd THEN 1 ELSE 2

\* what the serializer of p makes of event e
Blob(e, p) == [i \in 1..size[e] |-> <<e, p, i>>]

Init == /\ maxBatchSize_ \in BatchSizes
        /\ method \in Methods
        /\ size \in [Events -> Sizes] /\ runEnd \in RunEnds
        /\ next = 0
        /\ event = [l \in Lanes |-> None]
        /\ pc = [l \in Lanes |-> "next"]
        /\ blobs = [l \in Lanes |-> [p \in Products |-> <<>>]]
        /\ queued = <<>> /\ writing = {}
        /\ products_ = <<>> /\ events_ = <<>> /\ batch_ = 0
        /\ offsets_ = [p \in Products |-> 0]
        /\ datasets = [p \in Products |-> <<>>]
        /\ ends = [p \in Products |-> <<>>]
        /\ ids = <<>>
        /\ runAttribute = None
        /\ batches = 0
        /\ order = <<>>
        /\ closed = FALSE

TypeOK == /\ next \in 0..NEvents
          /\ event \in [Lanes -> Events \cup {None}]
          /\ pc \in [Lanes -> {"next", "products", "output"}]
          /\ queued \in Seq(Lanes) /\ writing \subseteq Lanes
          /\ batch_ = Len(events_) /\ Len(products_) = batch_ * NProducts
          /\ offsets_ \in [Products -> Nat]
          /\ ids \in Seq(Events) /\ order \in Seq(Events)
          /\ runAttribute \in {None, 1, 2}

----------------------------------------------------------------------------
Goto(l, from, to) == pc[l] = from /\ pc' = [pc EXCEPT ![l] = to]

TakeEvent(l) ==
  /\ next < NEvents
  /\ Goto(l, "next", "products")
  /\ next' = next + 1
  /\ event' = [event EXCEPT ![l] = next]
  /\ UNCHANGED <<parameters, blobs, queue, memory, file, order, closed>>

\* productReadyAsync of every data product; then outputAsync pushes the output
OutputAsync(l) ==
  /\ Goto(l, "products", "output")
  /\ blobs' = [blobs EXCEPT ![l] = [p \in Products |-> Blob(event[l], p)]]
  /\ Queue!Submit(l)
  /\ UNCHANGED <<parameters, next, event, memory, file, order, closed>>

StartOutput ==
  /\ Queue!Begin
  /\ UNCHANGED <<parameters, lanes, memory, file, order, closed>>

----------------------------------------------------------------------------
\* Appending to a dataset

\* write_ds: set_extent to the old length and the new data's, then a write behind it
Extend(dataset, data) == dataset \o data

\* register_multidataset_request_append of the first request since the flush, and
\* flush_multidatasets: from offset 0, and an extent that never shrinks
WriteFromStart(dataset, data) ==
  data \o SubSeq(dataset, Len(data) + 1, Len(dataset))

AppendTo(dataset, data) ==
  IF method = "multidataset" THEN WriteFromStart(dataset, data) ELSE Extend(dataset, data)

\* get_prods_and_sizes: the blobs of the product in the batch, every stride-th
ProductsOf(products, p) ==
  [j \in 1..(Len(products) \div NProducts) |-> products[(j - 1) * NProducts + p + 1]]

\* Mutated: the ends are those within the batch.
SizesFromZero(products, p) ==
  [j \in DOMAIN ProductsOf(products, p) |->
     Len(FlattenSeq(SubSeq(ProductsOf(products, p), 1, j)))]

\* ... and offsets_[p] after each of them
SizesOf(products, p) ==
  [j \in DOMAIN ProductsOf(products, p) |->
     offsets_[p] + Len(FlattenSeq(SubSeq(ProductsOf(products, p), 1, j)))]

\* writeBatch; Event_IDs is extended whatever the method
WriteBatch(products, events) ==
  /\ ids' = Extend(ids, events)
  /\ datasets' = [p \in Products |-> AppendTo(datasets[p], FlattenSeq(ProductsOf(products, p)))]
  /\ ends' = [p \in Products |-> AppendTo(ends[p], SizesOf(products, p))]
  /\ offsets_' = [p \in Products |->
                    IF products = <<>> THEN offsets_[p] ELSE Last(SizesOf(products, p))]
  /\ batches' = batches + 1

\* writeFileHeader of the first event
WriteFileHeader(e) ==
  runAttribute' = IF order = <<>> THEN RunOf(e) ELSE runAttribute

\* the batch is full
WriteFullBatch(products, events) ==
  /\ WriteBatch(products, events)
  /\ batch_' = 0 /\ products_' = <<>> /\ events_' = <<>>

\* output: the blobs of the lane are copied, and the event's number
Accumulate(l) ==
  LET e == event[l]
      products == products_ \o [i \in 1..NProducts |-> blobs[l][i - 1]]
      events == Append(events_, e) IN
  /\ WriteFileHeader(e)
  /\ IF batch_ + 1 = maxBatchSize_
       THEN WriteFullBatch(products, events)
       ELSE /\ batch_' = batch_ + 1 /\ products_' = products /\ events_' = events
            /\ UNCHANGED <<offsets_, datasets, ends, ids, batches>>

\* ... after which the callback is released
FinishOutput ==
  /\ Queue!Complete
  /\ \E l \in writing : /\ Accumulate(l)
                        /\ order' = Append(order, event[l])
                        /\ pc' = [pc EXCEPT ![l] = "next"]
  /\ UNCHANGED <<parameters, next, event, blobs, closed>>

\* printSummary, after the wait for all lanes: what is left is written
PrintSummary ==
  /\ ~closed
  /\ next = NEvents /\ \A l \in Lanes : pc[l] = "next"
  /\ IF batch_ # 0 THEN WriteBatch(products_, events_)
                   ELSE UNCHANGED <<offsets_, datasets, ends, ids, batches>>
  /\ closed' = TRUE
  /\ UNCHANGED <<parameters, lanes, queue, products_, events_, batch_, runAttribute, order>>

LaneStep(l) == TakeEvent(l) \/ OutputAsync(l)

Finished == closed /\ UNCHANGED vars

Next == \/ \E l \in Lanes : LaneStep(l)
        \/ StartOutput \/ FinishOutput
        \/ PrintSummary \/ Finished

Spec == Init /\ [][Next]_vars
----------------------------------------------------------------------------
\* HDFSource

\* getEventOffsets: positions i - 1 and i of the _sz dataset, counted from 0
GetEventOffsets(i, p) ==
  [first |-> IF i = 0 THEN 0 ELSE ends[p][i], last |-> ends[p][i + 1]]

\* readEvent of a file that has the positions it selects
ReadEvent(i) ==
  [run |-> runAttribute,
   event |-> ids[i + 1],
   products |-> [p \in Products |->
     SubSeq(datasets[p], GetEventOffsets(i, p).first + 1, GetEventOffsets(i, p).last)]]

Readable(i) ==
  /\ i + 1 \in DOMAIN ids
  /\ \A p \in Products : /\ i + 1 \in DOMAIN ends[p]
                         /\ GetEventOffsets(i, p).last <= Len(datasets[p])

\* the multi-dataset plug-in has not written a second batch
AppendsBehind == method = "multidataset" => batches <= 1

\* What HDFSource reads at a position of the file is the event that was output
\* there, every data product with exactly its bytes, after every batch, whatever
\* the batches were and although the last may be short: unless the multi-dataset
\* plug-in wrote more than one.  Nothing is left out once the job is over.  The
\* run is only right if all events are of the run of the first.
SourceReadsWhatWasOutput ==
  /\ closed => Len(ids) = NEvents
  /\ AppendsBehind =>
       \A i \in 0..(Len(ids) - 1) :
         /\ Readable(i)
         /\ ReadEvent(i).event = order[i + 1]
         /\ ReadEvent(i).products = [p \in Products |-> Blob(order[i + 1], p)]
         /\ runEnd = NEvents => ReadEvent(i).run = RunOf(order[i + 1])

\* "Writes the event data products into a HDF file" (README.md:322): the file of
\* a finished job has every event.
FileHasEveryEvent ==
  closed => \A i \in Events :
    Readable(i) /\ ReadEvent(i).products = [p \in Products |-> Blob(ids[i + 1], p)]
=============================================================================
