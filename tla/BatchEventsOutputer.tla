------------------------ MODULE BatchEventsOutputer ------------------------
(***************************************************************************)
(* RootBatchEventsOutputer.cc (HDFBatchEventsOutputer.cc has the same      *)
(* algorithm): lanes put their events, with no lock, into a ring of        *)
(* batches; whoever completes a batch takes it out of the ring and pushes  *)
(* the writing of it to the outputer's SerialTaskQueue.  printSummary      *)
(* writes the batches that were not completed.                             *)
(*                                                                         *)
(* Each atomic operation on the counters and on the ring is one action.    *)
(* An event is named by its entry number, the value it takes from          *)
(* presentEventEntry_; offsets and buffers travel with it.  A batch on the *)
(* heap is named by the entry whose outputAsync allocated it.  The queue   *)
(* is used through what it promises, SerialExecutor.                       *)
(***************************************************************************)
EXTENDS Integers, Sequences, Functions

CONSTANTS NLanes,      \* lanes, and batches in the ring
          batchSize,   \* parameter "batchSize"
          NEvents      \* events the lanes output between them

ASSUME BatchAssumption == /\ NLanes \in Nat \ {0}
                          /\ batchSize \in Nat \ {0}
                          /\ NEvents \in Nat

Lanes == 0..(NLanes - 1)
Main == NLanes              \* the thread that calls printSummary
Actors == Lanes \cup {Main}
Ring == 0..(NLanes - 1)
Entries == 0..(NEvents - 1)
Null == -1                  \* nullptr, and a default EventIdentifier

VARIABLES presentEventEntry,     \* std::atomic<uint64_t>
          eventBatches,          \* std::atomic<vector*> of the ring
          waitingEventsInBatch,  \* std::atomic<uint32_t> of the ring
          heap,                  \* the allocated batches: slots 1..batchSize
          expired,               \* batches finishBatchAsync is about to delete
          queued, writing,       \* queue_
          tree,                  \* the batches filled into the tree so far
          pc, event, batchIndex, batch, eventsInBatch,  \* locals of each actor
          crashed,               \* a null or dangling pointer stopped the job
          overrun                \* history: a lane came round to a batch still in use

queue == <<queued, writing>>
locals == <<event, batchIndex, batch, eventsInBatch>>
shared == <<presentEventEntry, eventBatches, waitingEventsInBatch>>
vars == <<shared, heap, expired, queue, tree, pc, locals, crashed, overrun>>

\* a closure pushed to queue_: the events of a batch, and whose callback it owns
Closures == [events : Seq(Entries \cup {Null}), callback : Actors]

Queue == INSTANCE SerialExecutor WITH Tasks <- Closures,
                                      waiting <- queued, running <- writing

PC == {"idle", "load", "cas", "reload", "fill", "count", "exchange",
       "readCount", "clearCount", "push", "wait", "summary", "done"}

TypeOK == /\ presentEventEntry \in 0..NEvents
          /\ eventBatches \in [Ring -> Entries \cup {Null}]
          /\ waitingEventsInBatch \in [Ring -> 0..NEvents]
          /\ DOMAIN heap \subseteq Entries
          /\ \A c \in DOMAIN heap : heap[c] \in [1..batchSize -> Entries \cup {Null}]
          /\ expired \subseteq Entries
          /\ queued \in Seq(Closures)
          /\ writing \subseteq Closures
          /\ tree \in Seq(Seq(Entries \cup {Null}))
          /\ pc \in [Actors -> PC]
          /\ event \in [Actors -> Entries \cup {Null}]
          /\ batchIndex \in [Actors -> 0..NLanes]
          /\ \A l \in Lanes : batchIndex[l] \in Ring
          /\ batch \in [Actors -> Entries \cup {Null}]
          /\ eventsInBatch \in [Actors -> 0..NEvents]
          /\ crashed \in BOOLEAN
          /\ overrun \in BOOLEAN

Init == /\ presentEventEntry = 0
        /\ eventBatches = [b \in Ring |-> Null]
        /\ waitingEventsInBatch = [b \in Ring |-> 0]
        /\ heap = <<>>
        /\ expired = {}
        /\ queued = <<>>
        /\ writing = {}
        /\ tree = <<>>
        /\ pc = [a \in Actors |-> "idle"]
        /\ event = [a \in Actors |-> Null]
        /\ batchIndex = [a \in Actors |-> 0]
        /\ batch = [a \in Actors |-> Null]
        /\ eventsInBatch = [a \in Actors |-> 0]
        /\ crashed = FALSE
        /\ overrun = FALSE

----------------------------------------------------------------------------
Goto(a, from, to) == /\ pc[a] = from
                     /\ pc' = [pc EXCEPT ![a] = to]

Set(f, a, v) == f' = [f EXCEPT ![a] = v]

At(a) == eventBatches[batchIndex[a]]

IndexInBatch(e) == (e % batchSize) + 1

\* Some lane is still at an event of an earlier turn of the ring in batch b:
\* between its entry and its count, or taking the complete batch out.
InUse(b) ==
  \E l \in Lanes : /\ pc[l] \in {"load", "cas", "reload", "fill", "count",
                                 "exchange", "readCount", "clearCount"}
                   /\ batchIndex[l] = b
                   /\ event[l] \div batchSize # presentEventEntry \div batchSize

\* presentEventEntry_++ and the batch b that entry belongs to
EntryOfBatch(l, b) ==
  /\ presentEventEntry < NEvents
  /\ Goto(l, "idle", "load")
  /\ presentEventEntry' = presentEventEntry + 1
  /\ Set(event, l, presentEventEntry)
  /\ Set(batchIndex, l, b)
  /\ overrun' = (overrun \/ InUse(b))
  /\ UNCHANGED <<eventBatches, waitingEventsInBatch, heap, expired, queue, tree,
                 batch, eventsInBatch, crashed>>

\* Mutated: the ring is not closed.
TakeEntryUnbounded(l) == EntryOfBatch(l, presentEventEntry \div batchSize)

TakeEntry(l) == EntryOfBatch(l, (presentEventEntry \div batchSize) % NLanes)

\* batchContainerPtr.load(), and the test of the result
Load(l) ==
  /\ Goto(l, "load", IF At(l) = Null THEN "cas" ELSE "fill")
  /\ Set(batch, l, At(l))
  /\ UNCHANGED <<shared, heap, expired, queue, tree, event, batchIndex,
                 eventsInBatch, crashed, overrun>>

NewBatch == [i \in 1..batchSize |-> Null]

\* Mutated: the new container is stored without comparing.
InstallOverwrites(l) ==
  /\ Goto(l, "cas", "reload")
  /\ Set(eventBatches, batchIndex[l], event[l])
  /\ heap' = [c \in DOMAIN heap \cup {event[l]} |->
                IF c = event[l] THEN NewBatch ELSE heap[c]]
  /\ UNCHANGED <<presentEventEntry, waitingEventsInBatch, expired, queue, tree,
                 locals, crashed, overrun>>

\* compare_exchange_strong: the new container goes into the ring, or the one
\* another lane put there is taken and the new one deleted
Install(l) ==
  /\ \/ /\ At(l) = Null
        /\ Goto(l, "cas", "reload")
        /\ Set(eventBatches, batchIndex[l], event[l])
        /\ heap' = [c \in DOMAIN heap \cup {event[l]} |->
                      IF c = event[l] THEN NewBatch ELSE heap[c]]
        /\ UNCHANGED batch
     \/ /\ At(l) # Null
        /\ Goto(l, "cas", "fill")
        /\ Set(batch, l, At(l))
        /\ UNCHANGED <<eventBatches, heap>>
  /\ UNCHANGED <<presentEventEntry, waitingEventsInBatch, expired, queue, tree,
                 event, batchIndex, eventsInBatch, crashed, overrun>>

Reload(l) ==
  /\ Goto(l, "reload", "fill")
  /\ Set(batch, l, At(l))
  /\ UNCHANGED <<shared, heap, expired, queue, tree, event, batchIndex,
                 eventsInBatch, crashed, overrun>>

\* Writing through a null pointer stops the job; through a dangling one, it
\* stops the job or the event is lost.
FillSlot(l, i) ==
  /\ Goto(l, "fill", "count")
  /\ \/ /\ batch[l] \in DOMAIN heap
        /\ heap' = [heap EXCEPT ![batch[l]][i] = event[l]]
        /\ UNCHANGED crashed
     \/ /\ batch[l] \notin DOMAIN heap
        /\ crashed' = TRUE
        /\ UNCHANGED heap
     \/ /\ batch[l] \notin DOMAIN heap \cup {Null}
        /\ UNCHANGED <<heap, crashed>>
  /\ UNCHANGED <<shared, expired, queue, tree, locals, overrun>>

\* Mutated: slots are given out in the order of arrival.
FillInArrivalOrder(l) == FillSlot(l, waitingEventsInBatch[batchIndex[l]] + 1)

\* (*batchContainer)[indexInBatch] = ...
Fill(l) == FillSlot(l, IndexInBatch(event[l]))

\* ++waitingEventsInBatch_[batchIndex]: when the batch is not complete,
\* outputAsync returns and so releases the lane's callback
Count(l) ==
  LET waiting == waitingEventsInBatch[batchIndex[l]] + 1
  IN /\ Goto(l, "count", IF waiting = batchSize THEN "exchange" ELSE "idle")
     /\ Set(waitingEventsInBatch, batchIndex[l], waiting)
     /\ UNCHANGED <<presentEventEntry, eventBatches, heap, expired, queue, tree,
                    locals, crashed, overrun>>

----------------------------------------------------------------------------
\* finishBatchAsync, by a lane or by printSummary

\* Mutated: the pointer is read and not replaced by nullptr.
ExchangeKeepsPointer(a) ==
  /\ Goto(a, "exchange", "readCount")
  /\ Set(batch, a, At(a))
  /\ UNCHANGED <<shared, heap, expired, queue, tree, event, batchIndex,
                 eventsInBatch, crashed, overrun>>

\* eventBatches_[iBatchIndex].exchange(nullptr); a null result is dereferenced
Exchange(a) ==
  /\ Goto(a, "exchange", "readCount")
  /\ Set(batch, a, At(a))
  /\ Set(eventBatches, batchIndex[a], Null)
  /\ crashed' = (At(a) = Null)
  /\ UNCHANGED <<presentEventEntry, waitingEventsInBatch, heap, expired, queue,
                 tree, event, batchIndex, eventsInBatch, overrun>>

ReadCount(a) ==
  /\ Goto(a, "readCount", "clearCount")
  /\ Set(eventsInBatch, a, waitingEventsInBatch[batchIndex[a]])
  /\ UNCHANGED <<shared, heap, expired, queue, tree, event, batchIndex, batch,
                 crashed, overrun>>

\* Mutated: the counter of the batch is not reset.
CountNotCleared(a) ==
  /\ Goto(a, "clearCount", "push")
  /\ UNCHANGED <<shared, heap, expired, queue, tree, locals, crashed, overrun>>

ClearCount(a) ==
  /\ Goto(a, "clearCount", "push")
  /\ Set(waitingEventsInBatch, batchIndex[a], 0)
  /\ UNCHANGED <<presentEventEntry, eventBatches, heap, expired, queue, tree,
                 locals, crashed, overrun>>

\* the loop over the first eventsInBatch slots, and queue_.push: the closure
\* owns the callback of the lane, or the holder of printSummary's group
PushBatch(a) ==
  LET n == IF eventsInBatch[a] < batchSize THEN eventsInBatch[a] ELSE batchSize
      alive == batch[a] \in DOMAIN heap
      events == IF alive THEN SubSeq(heap[batch[a]], 1, n) ELSE <<>>
  IN /\ Goto(a, "push", IF a = Main THEN "summary" ELSE "wait")
     /\ Queue!Submit([events |-> events, callback |-> a])
     /\ Set(batchIndex, a, IF a = Main THEN batchIndex[a] + 1 ELSE batchIndex[a])
     /\ expired' = expired \cup {batch[a]}
     /\ crashed' = ~alive
     /\ UNCHANGED <<shared, heap, tree, event, batch, eventsInBatch, overrun>>

\* ~unique_ptr at the end of finishBatchAsync; the lane may already be at its
\* next event
DeleteBatch(c) ==
  /\ c \in expired
  /\ expired' = expired \ {c}
  /\ heap' = Restrict(heap, DOMAIN heap \ {c})
  /\ UNCHANGED <<shared, queue, tree, pc, locals, crashed, overrun>>

\* the queue takes up the oldest closure
StartOutput ==
  /\ Queue!Begin
  /\ UNCHANGED <<shared, heap, expired, tree, pc, locals, crashed, overrun>>

\* output(): eventsTree_->Fill(), then callback.doneWaiting()
FinishOutput ==
  /\ Queue!Complete
  /\ \E t \in writing :
       /\ tree' = Append(tree, t.events)
       /\ pc' = [pc EXCEPT ![t.callback] = IF @ = "wait" THEN "idle" ELSE @]
  /\ UNCHANGED <<shared, heap, expired, locals, crashed, overrun>>

----------------------------------------------------------------------------
\* printSummary

\* main has waited for the groups of all lanes
StartSummary ==
  /\ Goto(Main, "idle", "summary")
  /\ presentEventEntry = NEvents
  /\ \A l \in Lanes : pc[l] = "idle"
  /\ expired = {} /\ queued = <<>> /\ writing = {}
  /\ UNCHANGED <<shared, heap, expired, queue, tree, locals, crashed, overrun>>

\* Mutated: batches that are not complete are left out.
SummarySkipsPartial ==
  /\ batchIndex[Main] \in Ring
  /\ IF waitingEventsInBatch[batchIndex[Main]] = batchSize
     THEN Goto(Main, "summary", "exchange") /\ UNCHANGED batchIndex
     ELSE Goto(Main, "summary", "summary") /\ Set(batchIndex, Main, batchIndex[Main] + 1)
  /\ UNCHANGED <<shared, heap, expired, queue, tree, event, batch,
                 eventsInBatch, crashed, overrun>>

\* one turn of the loop over the batches
SummaryBatch ==
  /\ batchIndex[Main] \in Ring
  /\ IF waitingEventsInBatch[batchIndex[Main]] # 0
     THEN Goto(Main, "summary", "exchange") /\ UNCHANGED batchIndex
     ELSE Goto(Main, "summary", "summary") /\ Set(batchIndex, Main, batchIndex[Main] + 1)
  /\ UNCHANGED <<shared, heap, expired, queue, tree, event, batch,
                 eventsInBatch, crashed, overrun>>

\* the loop is over and group.wait() returns
SummaryDone ==
  /\ batchIndex[Main] \notin Ring
  /\ Goto(Main, "summary", "done")
  /\ expired = {} /\ queued = <<>> /\ writing = {}
  /\ UNCHANGED <<shared, heap, expired, queue, tree, locals, crashed, overrun>>

Output(l) == TakeEntry(l) \/ Load(l) \/ Install(l) \/ Reload(l) \/ Fill(l) \/ Count(l)

FinishBatch(a) == Exchange(a) \/ ReadCount(a) \/ ClearCount(a) \/ PushBatch(a)

Step == \/ \E l \in Lanes : Output(l)
        \/ \E a \in Actors : FinishBatch(a)
        \/ \E c \in Entries : DeleteBatch(c)
        \/ StartOutput
        \/ FinishOutput
        \/ StartSummary
        \/ SummaryBatch
        \/ SummaryDone

Ended == (crashed \/ pc[Main] = "done") /\ UNCHANGED vars

Next == (~crashed /\ Step) \/ Ended

Spec == Init /\ [][Next]_vars
----------------------------------------------------------------------------
\* The assertion of outputAsync (RootBatchEventsOutputer.cc:129,
\* HDFBatchEventsOutputer.cc:123): a batch never gets more events than it has
\* room for.
BatchHasRoom ==
  \A l \in Lanes : pc[l] = "count" => waitingEventsInBatch[batchIndex[l]] < batchSize

\* A lane that comes round to a batch another one has not finished with is the
\* only way to break that assertion: completing, taking out, counting and
\* reusing batches never does, in any interleaving.
RoomUnlessOverrun == ~overrun => BatchHasRoom

\* "circular buffer of length nLanes but only entries being used exist"
\* (RootBatchEventsOutputer.h:61): the batch a lane writes its event into is
\* alive, is still in the ring, and has this event's slot free, although the
\* lane read the pointer some steps ago and other lanes go on completing,
\* taking out and deleting batches.
WritesIntoLiveBatch ==
  ~overrun => \A l \in Lanes : pc[l] = "fill" =>
    /\ batch[l] \in DOMAIN heap
    /\ batch[l] = At(l)
    /\ heap[batch[l]][IndexInBatch(event[l])] = Null

\* An entry of the tree is a run of consecutive events, in the order they took
\* their entries and not in the order in which lanes came to fill their slots,
\* and only the last batch is smaller than batchSize ("Can happen at end of
\* job").  The reader's offsets rely on it.
BatchesAreRuns ==
  ~overrun => \A i \in DOMAIN tree :
    /\ tree[i] # <<>>
    /\ tree[i][1] % batchSize = 0
    /\ \A j \in DOMAIN tree[i] : tree[i][j] = tree[i][1] + j - 1
    /\ Len(tree[i]) # batchSize => tree[i][Len(tree[i])] = NEvents - 1

Places(e) == {p \in (DOMAIN tree) \X (1..batchSize) :
                 p[2] \in DOMAIN tree[p[1]] /\ tree[p[1]][p[2]] = e}

\* No event is written twice, not even when lanes overrun the ring: the
\* exchange makes whoever takes a batch out its only owner.
WrittenAtMostOnce == \A e \in Entries : \A p, q \in Places(e) : p = q

\* When printSummary is done every event is in the file, and nothing is
\* left in the ring or on the heap.
EveryEventWritten ==
  pc[Main] = "done" /\ ~overrun =>
    /\ \A e \in Entries : Places(e) # {}
    /\ \A b \in Ring : eventBatches[b] = Null
    /\ DOMAIN heap = {}
=============================================================================
