--------------------------- MODULE EventOutputers ---------------------------
(***************************************************************************)
(* The outputers that write one record per event through one               *)
(* SerialTaskQueue.                                                        *)
(*                                                                         *)
(* PDSOutputer, RootEventOutputer and HDFEventOutputer serialize every     *)
(* data product of the event in the lane's group, gather the blobs into a  *)
(* buffer of their own in outputAsync, and push a task that writes it.     *)
(* RootOutputer, RNTupleOutputer and RNTupleTFileOutputer push a task that *)
(* has ROOT read the lane's data product objects themselves, at the        *)
(* addresses the lane's retrievers hold by then.  Either way the lane, its *)
(* objects and its serializers go on to the next event when the outputer   *)
(* has let go of the callback it was given, and no lock says so.           *)
(*                                                                         *)
(* The content of a data product, and of a blob, is the event it is of.    *)
(***************************************************************************)
EXTENDS Integers, Sequences, FiniteSets

CONSTANTS NLanes,     \* lanes of the job
          NEvents,    \* events of the job
          NProducts,  \* data products of an event
          Kinds       \* the outputers to be looked at

VARIABLES kind,             \* the outputer of this job
          next,             \* the next event a lane may take
          event, pc,        \* per lane: its event, and where it is
          objects,          \* per lane: what its data product objects hold
          blobs,            \* serializers_: per lane and product, blob_
          serialized,       \* per lane: serializers that have run
          queued, writing,  \* queue_, collateQueue_
          bound, id_,       \* the lane the branches point to; id_, eventID_
          firstTime_,       \* PDSOutputer; firstEvent_ of HDFEventOutputer
          file,             \* the records of the file
          closed            \* printSummary has written what was left

lanes == <<next, event, pc, objects>>
queue == <<queued, writing>>
output == <<bound, id_, firstTime_, file>>
vars == <<kind, lanes, blobs, serialized, queue, output, closed>>

Lanes == 0..(NLanes - 1)
Products == 1..NProducts
Events == 0..(NEvents - 1)
None == -1
Contents == [Products -> Events \cup {None}]

Serializing == {"PDSOutputer", "RootEventOutputer", "HDFEventOutputer"}
HeaderInFirst == {"PDSOutputer", "HDFEventOutputer"}
Reading == {"RootOutputer", "RNTupleOutputer", "RNTupleTFileOutputer"}

Header == [id |-> None, products |-> [p \in Products |-> None]]

Closures == [lane : Lanes, id : Events, buffer : Contents]

Queue == INSTANCE SerialExecutor WITH Tasks <- Closures,
                                      waiting <- queued, running <- writing

\* setupForLane of lane 0 writes what describes the file, or leaves it to the
\* first event.
Init == /\ kind \in Kinds
        /\ next = 0
        /\ event = [l \in Lanes |-> None]
        /\ pc = [l \in Lanes |-> "next"]
        /\ objects = [l \in Lanes |-> [p \in Products |-> None]]
        /\ blobs = [l \in Lanes |-> [p \in Products |-> None]]
        /\ serialized = [l \in Lanes |-> {}]
        /\ queued = <<>>
        /\ writing = {}
        /\ bound = None
        /\ id_ = None
        /\ firstTime_ = (kind \in HeaderInFirst)
        /\ file = IF kind \in HeaderInFirst THEN <<>> ELSE <<Header>>
        /\ closed = FALSE

TypeOK == /\ next \in 0..NEvents
          /\ event \in [Lanes -> Events \cup {None}]
          /\ pc \in [Lanes -> {"next", "products", "output", "written"}]
          /\ objects \in [Lanes -> Contents] /\ blobs \in [Lanes -> Contents]
          /\ queued \in Seq(Closures)
          /\ writing \subseteq Closures /\ Cardinality(writing) <= 1
          /\ bound \in Lanes \cup {None} /\ id_ \in Events \cup {None}
          /\ Len(file) <= NEvents + 1

----------------------------------------------------------------------------
Goto(l, from, to) == pc[l] = from /\ pc' = [pc EXCEPT ![l] = to]

\* the lane takes an event, and its source fills the lane's objects anew
TakeEvent(l) ==
  /\ next < NEvents
  /\ Goto(l, "next", "products")
  /\ next' = next + 1
  /\ event' = [event EXCEPT ![l] = next]
  /\ objects' = [objects EXCEPT ![l] = [p \in Products |-> next]]
  /\ serialized' = [serialized EXCEPT ![l] = {}]
  /\ UNCHANGED <<kind, blobs, queue, output, closed>>

\* SerializerWrapper::doWorkAsync, from productReadyAsync: a task of the lane's
\* group for every data product, in any order
SerializeProduct(l, p) ==
  /\ kind \in Serializing
  /\ pc[l] = "products"
  /\ p \notin serialized[l]
  /\ blobs' = [blobs EXCEPT ![l][p] = objects[l][p]]
  /\ serialized' = [serialized EXCEPT ![l] = @ \cup {p}]
  /\ UNCHANGED <<kind, lanes, queue, output, closed>>

Push(l, buffer) == Queue!Submit([lane |-> l, id |-> event[l], buffer |-> buffer])

\* Mutated: the outputer lets go of the callback once the task is pushed.
OutputObjectsAsyncNoWait(l) ==
  /\ kind \in Reading
  /\ Goto(l, "products", "next")
  /\ Push(l, Header.products)

\* outputAsync of RootOutputer, RNTupleOutputer, RNTupleTFileOutputer
OutputObjectsAsync(l) ==
  /\ kind \in Reading
  /\ Goto(l, "products", "output")
  /\ Push(l, Header.products)

\* outputAsync of the others, once every serializer has run: the lane's blobs
\* are copied into a buffer (writeDataProductsToOutputBuffer) the task owns
OutputBufferAsync(l) ==
  /\ kind \in Serializing
  /\ serialized[l] = Products
  /\ Goto(l, "products", "output")
  /\ Push(l, blobs[l])

OutputAsync(l) ==
  /\ OutputObjectsAsync(l) \/ OutputBufferAsync(l)
  /\ UNCHANGED <<kind, next, event, objects, blobs, serialized, output, closed>>

----------------------------------------------------------------------------
\* The closures

\* RootOutputer::write up to Fill, collateProducts up to Fill: the branches get
\* the addresses of the lane of the closure, and id_ its identifier; eventID_ of
\* RootEventOutputer::output
StartWrite ==
  /\ Queue!Begin
  /\ \E t \in writing' : bound' = t.lane /\ id_' = t.id
  /\ UNCHANGED <<kind, lanes, blobs, serialized, firstTime_, file, closed>>

\* what Fill, or the write of the buffer, puts into the file
Record(t) == [id |-> id_, products |-> IF kind \in Serializing THEN t.buffer
                                                               ELSE objects[bound]]

\* Mutated: firstTime_ is not reset.
WriteEveryHeader(t) ==
  /\ file' = (IF firstTime_ THEN Append(file, Header) ELSE file) \o <<Record(t)>>
  /\ UNCHANGED firstTime_

\* PDSOutputer::output, HDFEventOutputer::output: what describes the file comes
\* before the first record; RootEventOutputer, RootOutputer, RNTupleOutputer: Fill
Write(t) ==
  /\ file' = (IF firstTime_ THEN Append(file, Header) ELSE file) \o <<Record(t)>>
  /\ firstTime_' = FALSE

\* ... after which the callback is released
FinishWrite ==
  /\ Queue!Complete
  /\ \E t \in writing : /\ Write(t)
                        /\ pc' = [pc EXCEPT ![t.lane] = "written"]
  /\ UNCHANGED <<kind, next, event, objects, blobs, serialized, bound, id_, closed>>

\* the lane's task for the next event runs
NextEvent(l) ==
  /\ Goto(l, "written", "next")
  /\ UNCHANGED <<kind, next, event, objects, blobs, serialized, queue, output, closed>>

LaneStep(l) == \/ TakeEvent(l)
               \/ \E p \in Products : SerializeProduct(l, p)
               \/ OutputAsync(l)
               \/ NextEvent(l)

\* main, after the wait for all lanes: file_.Write(), ntuple_.reset()
PrintSummary ==
  /\ next = NEvents
  /\ \A l \in Lanes : pc[l] = "next"
  /\ closed' = TRUE
  /\ UNCHANGED <<kind, lanes, blobs, serialized, queue, output>>

Next == StartWrite \/ FinishWrite \/ (\E l \in Lanes : LaneStep(l)) \/ PrintSummary

Spec == Init /\ [][Next]_vars
----------------------------------------------------------------------------
\* Every record of the file is one event: its data products and its identifier
\* are of the same event, although the lane's objects and serializers are used
\* again for its next event, and the branches and id_ are shared by all lanes.
RecordsAreWholeEvents ==
  \A i \in 2..Len(file) :
    file[i].id # None /\ file[i].products = [p \in Products |-> file[i].id]

\* A file that was closed begins with what describes it, says so once, and has
\* every event of the job exactly once.
FileIsComplete ==
  closed => /\ Len(file) = NEvents + 1
            /\ file[1] = Header
            /\ {file[i].id : i \in 2..Len(file)} = Events
=============================================================================
