# Verification of root_serialization

`threaded_io_test` measures how event data scale through I/O: a *source* reads
events, *lanes* process several of them at once on TBB threads, optional
*waiters* simulate work, an *outputer* serializes and writes them.  The parts
that are hard to test are the ones that coordinate: a lock-free task queue,
reference-counted tasks that call each other back, a lock-free ring of batches,
a source that reads ahead for several lanes, lanes that reuse the objects an
outputer is still reading, flushes that one lane starts for all.  This directory
models the sources, the outputers and what connects them in TLA+, checks them
with TLC, and proves with TLAPS what makes the queue, the lanes, the outputers
and the sources correct.

File and line numbers are those of the repository's top directory.

## 1. Inventory

| component | state | operations | interacts with |
|---|---|---|---|
| **SerialTaskQueue** (`.h/.cc`) | `m_tasks` (concurrent queue), `m_taskChosen` (atomic flag), `m_pauseCount` | `push`, `pause`, `resume`, destructor; `pickNextTask`, `spawn`, `finishedTask` | gives runners to the `tbb::task_group` each task was pushed with |
| **Lane, TaskHolder, event loop** (`Lane.*`, `TaskHolder.h`, `OptionalTaskHolder.h`, `FunctorTask.h`, `threaded_io_test.cc`) | shared index `ievt`, per lane `presentEventIndex_`, reference counts of tasks, the groups and their deferred handle | `processEventsAsync`, `doNextEvent`, `processEventAsync`, `makeWaiterTask`, `makeTaskForDataProduct`, `doneWaiting`, `wait` | calls source, waiter and outputer with holders they release later |
| **RootBatchEventsOutputer**, **HDFBatchEventsOutputer** | `presentEventEntry_`, ring `eventBatches_`, `waitingEventsInBatch_`, `queue_`, the file | `outputAsync`, `finishBatchAsync`, `output`, `printSummary` | lanes call `outputAsync` with no lock; writing goes through SerialTaskQueue |
| **SharedRootBatchEventsSource** | `nextEntry_`, `cachedEventIndex_`, `eventIDs_`, `offsetsAndBuffer_`, `uncompressedBuffer_`, per-lane products | `readEventAsync`, `eventIdentifier`, `dataProducts` | reads what RootBatchEventsOutputer wrote; SerialTaskQueue; the lane's group |
| **SharedPDSSource**, **SharedRootEventSource** | file position, per-lane products | `readEventAsync` | SerialTaskQueue, the lane's group |
| **SerialRootSource**, **SerialRootTreeGetEntrySource**, **SerialRNTupleSource**, SerialRNTupleTFileSource | per-lane retrievers, shared queue(s) | `readEventAsync`, `getAsync` | SerialTaskQueue; products are read on demand |
| **ReplicatedSharedSource** over RootSource, PDSSource, HDFSource, RepeatingRootSource, TestProductsSource, EmptySource | one source per lane | `gotoEvent` | runs the event task inside `readEventAsync` |
| Waiters (Scale, EventSleep, EventUnevenSleep) | constants | `waitAsync` | a lambda in the lane's group |
| **PDS, RootEvent, HDFEvent, Root, RNTuple, RNTupleTFile outputers** | serializers or retrievers per lane, a queue, a file | `productReadyAsync`, `outputAsync`, `printSummary` | SerialTaskQueue; the lane's objects |
| TextDump, Serialize, Dummy, TestProducts outputers | nothing between events | `outputAsync` | the lane's objects |
| **HDFOutputer**, **multidataset_plugin** | batch buffers, offsets of datasets | `outputAsync`, `writeBatch`, three ways to append | HDF5; read by HDFSource |
| **RNTupleAsyncOutputer**, **RNTupleParallelOutputer** | a fill context per lane, a queue of flushes, a clock shared by all calls | `outputAsync`, `fillProducts`, `startClock`, `stopClock`, `printSummary` | ROOT |
| **TBufferMergerRootOutputer** | per-lane buffers, atomic counters that start a flush of all lanes | `outputAsync`, write | ROOT's TBufferMerger |
| **PDS format** (`pds_*`) | a stream | headers, offset tables, padding, compression | PDS and batch files |
| **Serialization** (Serializer, Unrolled\*, `common_unrolling.cc`) | per-lane buffers, actions per class | `doWorkAsync`, `deserialize` | ROOT streaming |
| Configuration (`configKeyValuePairs`, `ConfigurationParameters`, factories) | maps of strings | parsing, lookup of makers | `main` |

What makes the hard components correct:

* **SerialTaskQueue**: one task at a time; order of pushing; each task once; the
  flag never leaks; a pushed task runs; pausing stops the start of tasks; the
  destructor leaves nothing behind and does not hang.
* **Lane**: one event per lane although nothing is locked; output after every
  product; each event exactly once; `wait()` returns when, and only when, the
  lane is over; the job ends.
* **Batch outputer**: no batch gets more events than it has room for; nobody
  writes through a null or dangling pointer; batches hold runs of consecutive
  events; every event is written once, including the partial batch.
* **Batch source**: a lane sees the products of its event and of no other; the
  first events of the file are processed, once each; the index a lane asks for
  is that of the event it gets.
* **Sources of one event per read**: all data products a lane outputs are of one
  event; the identifier is of that event; every event is given to one lane.
* **Outputers with one queue**: a record is one event, although the lane reuses
  its objects and buffers as soon as the callback is released; the file has its
  header first and every event once.
* **TBufferMergerRootOutputer**: every event is merged once; the shared count
  comes back below its limit; a lane that was told to write does.
* **RNTuple outputers in parallel**: a cluster is written as it was sealed; the
  clock counts every moment in which a call was running, once.
* **HDFOutputer**: HDFSource reads back what was output, across batches.
* **PDS format**: what was written is read, also by a reader that skips; a file
  that breaks off gives no event it does not have.
* **Serialization**: a product read into the object of an earlier event is the
  one that was written.

Bold components are modelled by a module below.

The hazards of the code, line by line, are in `PROJECT.json` under `hazards`,
each with the properties that cover it or the reason why none does yet.

## 2. Modules

```
SerialExecutor            what the queue promises
   ^ refined by                    ^ used through INSTANCE by
SerialTaskQueue                BatchEventsOutputer        SharedRootBatchEventsSource
   ^ extended by               EventOutputers             EventSources
SerialTaskQueueLifetime        TBufferMergerRootOutputer
                               RNTupleAsyncOutputer       PDSFormat  (self-contained)
Lane (self-contained)          HDFOutputer                Unrolling  (self-contained)

MCOutputers: a job with any of the outputers
MCEventSources: a job with a source, or with a PDS file word by word
   ^ extended by
MCSources: the same, or unrolled serialization
MC<module>: the module TLC is run on
```

`<module>Proofs` extends `<module>` and has the theorems about it.  There are
eight: of `SerialTaskQueue` (with `SerialTaskQueueLifetime`), `Lane`,
`EventOutputers`, `TBufferMergerRootOutputer`, `RNTupleAsyncOutputer`,
`EventSources`, `MCOutputers` and `MCEventSources`.  The last two also have the
theorems about the module that theirs extends, `BatchEventsOutputer` and
`SharedRootBatchEventsSource`, and those about a module whose parameters they hand
on: `HDFOutputer` in the first, `PDSFormat` in the second.  Both take the theorems
about the other modules over to the job.

`MCOutputers` and `MCSources` are what `-o` and `-s` are on the command line: a
job has one outputer and one source, and `kind` is the one chosen at the start.
They instantiate the modules of the outputers, or of the sources, next to each
other; the variables of a module that has no part in the job are 0.
`MCOutputers` extends `BatchEventsOutputer`, and hands the parameters of
`HDFOutputer` on as constants of its own.  `MCEventSources` extends
`SharedRootBatchEventsSource`, instantiates `EventSources`, and hands the parameters
of `PDSFormat` on in the same way; `MCSources` adds `Unrolling`, which has recursive
operators and so stays out of the reach of the prover.

The queue is modelled atomic by atomic and shown to implement `SerialExecutor`;
the modules that use a queue instantiate `SerialExecutor` instead of carrying
its inside.  That is justified by the theorem `Refinement`, for safety only:
the queue's progress is conditional (section 4), so the modules that use it
claim no liveness.  Their runs check deadlock, which together with counters
that only grow shows that the executions with a live queue end.

### SerialTaskQueue

Every atomic access of the code is an action.  `pc[th]` names the next access:
`pause` (read of `m_pauseCount`), `cas1`, `pop1`, `clear1`, `recheck`, `cas2`,
`pop2`, `clear2` are the lines of `pickNextTask` in order; `picked` is in
`spawn` or at the end of a turn of the runner's loop; `execute` and `finish`
are in the loop.  `hand[th]` is the local `TaskBase*`, `runner[th]` the group
of the runner a thread executes, `spawned` the runners TBB has not started.
`tbb::concurrent_queue` is a linearizable FIFO; `empty()` is read atomically;
the atomics are sequentially consistent, as in the code.  A runner is started
only by an idle thread, because nothing in the queue waits; a task body is
atomic, and tasks that push from inside their body are pushes of another
thread here, since `push` does not look at the caller's state.  An exception in
a task is swallowed by `QueuedTask::execute` and is no different from its end.
The move constructor, which asserts an unused queue, is left out.

`SerialTaskQueueLifetime` adds the destructor, with its two reads as two steps,
its no-op task in a group of its own and the wait for that group.  It may start
whenever no thread is inside a call of a member function: runners may be.

### Lane

`holds[l]` is the set of pairs (owner, task) that stand for the `TaskHolder`s
of a lane; the reference count of a task is the number of pairs that point to
it, and `DropHolders` gives a task to the group when the last one goes, as
`doneWaiting` does.  The actions are the bodies of the lambdas in `Lane.cc`,
from `Launch` (one turn of main's loop) through `DoNextEvent`, `BeginProcess`,
`AskForProduct`, `RunWait`, `RunReady`, `RunOut` to `RunFinal`, and `DeleteTask`
is the `delete t` of `TaskHolder::doneWaiting`.  Lambdas are not `mutable`, so a
`std::move` of a captured holder copies it: the captured one lives until the
task is deleted, and the model keeps it until then.  A synchronous source runs
the event task inside `doNextEvent` (`nested`).  Source, waiter and outputer
appear as operations that take a holder and drop it at any later moment.

### BatchEventsOutputer

The actions are the atomic accesses of `outputAsync`, `finishBatchAsync` and
`printSummary`, with their local variables.  A batch on the heap is named by the
entry that allocated it; `expired` are those whose `unique_ptr` is about to go
out of scope, so that a lane can still hold a pointer into them.  A null
dereference ends the execution (`crashed`); a write into a deleted batch is a
choice between that and a lost write.  The write of the three members of a slot
is one action.  HDFBatchEventsOutputer's `outputAsync` and `finishBatchAsync`
differ only in what is written.

### SharedRootBatchEventsSource

The file is what the outputer's loops produce: batches of ids, of offset tables
and of bytes, where a byte is a triple (event, product, position), so that one
that ends up elsewhere is seen.  The closure of `readEventAsync` is one action,
because the queue runs it alone; the deserialization in the lane's group is
another.  A product of size 0 is skipped, as in `pds::deserializeDataProducts`.

### EventSources

Ten sources, told apart by `kind`.  A lane asks for the next index
(`NextIndex`), calls `readEventAsync`, asks for its data products one by one
(`getAsync`) and, when the last is there, outputs them with what
`eventIdentifier` says.  The content of an object is the event it was read from.
A closure of the queue is a data product, or the event itself, for a lane and
an index.  The delayed sources (SerialRootSource and SerialRNTupleSource with
delayed reading) read every data product in a closure of its own, with the entry
their retriever was told; the prompt ones read the event in one; SharedPDSSource
and SharedRootEventSource leave the decoding to a task of the lane's group; the
replicated ones do all at once.  `idAddress` is the lane whose identifier the
EventID branch of SerialRootTreeGetEntrySource fills, which is that of the lane
that read last.  TestProductsSource and RepeatingRootSource make the event from
the index.

### EventOutputers

Six outputers.  A lane takes an event into its objects (`TakeEvent`), serializes
its data products in any order (`SerializeProduct`), and calls `outputAsync`.
PDSOutputer, RootEventOutputer and HDFEventOutputer copy the lane's blobs into a
buffer of the task's own (`OutputBufferAsync`); RootOutputer, RNTupleOutputer
and RNTupleTFileOutputer push a task that sets the branches to the lane of the
closure and has ROOT read the objects (`OutputObjectsAsync`, `StartWrite`).  The
callback is released by `FinishWrite`; only then is the lane free.  PDSOutputer
and HDFEventOutputer write what describes the file with the first event.

### TBufferMergerRootOutputer

One action per atomic access of `write`: `Fill`, `Count` (the increment and its
comparison with `autoFlush_`), `Reset`, `Tell` (one turn of the loop that sets
`shouldWrite_` of every lane), `Check`, and the write, at once or through the
queue.  `initial` is the value of `numberEventsSinceLastWrite_`, which nothing
initializes.  `CloseLane` is `printSummary`.

### RNTupleAsyncOutputer

The processes are calls of `outputAsync`, not lanes: the callback may be released
by the flush before the call has stopped its clock, and the lane's next call
overlaps with it.  `FillNoFlush` and `PushFlush` are those of the Async variant,
`FillAndFlush` that of the Parallel one, in which ROOT writes the cluster under
its own lock.  `Tick` lets time pass; `busy` is the reference for the clock.

### HDFOutputer

`Accumulate` is `output` with its batch, `WriteBatch` is `writeBatch` with the
three methods of `HEP_IO_TYPE`, `PrintSummary` writes what is left.  Datasets
are sequences of bytes that say whose they are, so that one in a wrong place is
seen.  `GetEventOffsets` and `ReadEvent` are HDFSource's, as operators on the file.

### PDSFormat

The file is a sequence of words.  `Output` appends a record, `Close` ends the
job, `Die` leaves the file cut off at any word behind what the stream had
certainly written.  `ReadFileHeader`, `Skip` and `Read` are the functions of
`pds_reading.cc` with their reads, tests and assertions, the loops over products as
recursive functions of the number of turns; `asserts` says whether assertions are
compiled in (they are not in the default build).  A read beyond the end leaves the stream failed, and `seekg` clears `eofbit`, as in C++.
`Word` stands for 2^32, so that an event number needs two words; compressed
bytes are words of their own; `Junk` is what a buffer has where nothing was read.

### Unrolling

`addUnrolledActionSequencesForElement` and its relatives, by the kind of member:
a basic member, a pointer, a base class, a member object, a vector of numbers, a
vector of objects.  The product of an earlier event is what the object holds
when the next is read into it.  The classes are those of `TestClasses.h` that
`unroll_test.cc` tries, without the ones that have a `std::unique_ptr`, an array
of fixed size or a map; its pair of an int and a vector; and a few more:
recursion through a member object, and pointers and vectors further down in
members, bases and vectors.  `CanSplit`, TObject bases, TClonesArray and the
classes of other packages it tries (`edm::EventAuxiliary`) are left out.

## 3. What the runs check

| run | instance | properties |
|---|---|---|
| `queue_safety` | 3 threads, tasks a, b of one group and c of another, at most one pause | `OneOwner`, `FlagHasOwner`, `OnlySecondMissStrands`, `ImplementsExecutor` |
| `queue_liveness` | 2 threads, 2 tasks and the destructor's no-op, one pause, fair | `SkipOnlyIfNothingLeft`, `DestructorReturns`, `RunsUnlessStranded`, `NextPushRepairs` |
| `queue_lost_wakeup` | 2 threads, 3 tasks, no pause, fair | `PushedTaskRuns` is **violated** |
| `queue_destructor_drains` | as `queue_liveness`, no pause | `AllTasksHaveCompleted` is **violated** |
| `lane_shared_source` | 2 lanes, limit 2 of 3 events, 2 products, waiter | `OneEventPerLane`, `OutputAfterProducts`, `EveryEventOnce` |
| `lane_replicated_source` | 2 lanes, 2 events under a limit of 3, synchronous source, `productReadyAsync`, fair | `WaitedMeansFinished`, `EveryEventOnce`, `AllLanesFinish` |
| `outputers` | `BatchEventsOutputer`: 2 lanes, batches of 2, 7 events | `RoomUnlessOverrun`, `WritesIntoLiveBatch`, `BatchesAreRuns`, `WrittenAtMostOnce`, `EveryEventWritten` |
| | `EventOutputers`: 2 lanes, 4 events, 2 products, all six | `RecordsAreWholeEvents`, `FileIsComplete` |
| | `TBufferMergerRootOutputer`: 2 lanes, 5 events, `autoFlush_` 2 or -2, 1 or 2 bytes an event, the counter begins with -1, 0 or 7 | `MergedOnce`, `CountComesBack`, `ToldLanesWrite` |
| | `RNTupleAsyncOutputer`: 2 lanes, 3 events, 2 ticks, both | `WallclockIsBusyTime`, `ClustersAsSealed` |
| | `HDFOutputer`: 2 lanes, 3 events, 2 products of 1 or 2 bytes, batches of 0 to 3, all methods | `SourceReadsWhatWasOutput` |
| `batch_wraps` | 2 lanes, batches of 1, 3 events | `BatchHasRoom` is **violated** |
| `sources` | `SharedRootBatchEventsSource`: 2 lanes, limit 2 or 4, 3 events in batches of 1, 2 or 3, 2 products of size 0 or 2 | `ProductsOfThisEvent`, `FirstEventsOnce` |
| | `EventSources`: 3 lanes, limit 4, 3 events, 2 products, all ten | `ProductsOfOneEvent`, `IdentifierUnlessAddressKept`, `EachEventOnce` |
| | `PDSFormat`: 2 events, 2 products of 3 or 8 bytes, with and without compression, both sources, both builds | `EventsAsWritten`, `EndsWithTheFile` |
| | `Unrolling`: 17 classes, vectors of up to 2 | `ReadsBackWhatWasWritten` |
| `source_index` | 2 lanes, 3 events in batches of 2 | `IndexIsThatOfTheEvent` is **violated** |
| `tree_entry_id` | SerialRootTreeGetEntrySource, 2 lanes, 3 events | `IdentifierOfItsProducts` is **violated** |
| `hdf_multidataset` | as `HDFOutputer` above | `FileHasEveryEvent` is **violated** |

Every module has one type invariant: `TypeOK` and `LifetimeTypeOK` of the queue
and of `Lane`, and `TypesOK`, which joins those of the modules of a job, in
`outputers` and `sources`.  The operators marked "Mutated"
in the modules are variants of the code with a plausible bug each; replacing
the operator they follow by them breaks the property that `PROJECT.json`, under
`mutants`, names for them.

**Bounds.**  `Tasks` bounds the tasks outstanding at one time, not the tasks ever
pushed: a task can be pushed again after it was executed, so the queue's runs
are unbounded in time.  Three threads are one that owns the queue, one that
pushes in its window and one that interferes with both.
Two groups make the hand-over of `spawn` happen.  One pause at a time falls into
every window; nesting only changes when `resume` calls `pickNextTask`.  Two
threads and two tasks are enough for the second miss (the state `Stranded` is
reachable in `queue_liveness`).  In `Lane`, two lanes compete for the index, and
two products end in either order.

In `outputers`, seven events are almost two turns round the four slots of the
ring and leave a partial batch; both lanes share a batch, race to allocate it,
complete it in either order, come round to it in time and too early.  Three
lanes with one turn (five events, batches of two) give the same results and are
left out for their size.  Four events of two lanes let each lane reuse its
objects while the other's task waits.  Five events of the merger reach the limit
of two twice and leave a rest, with a count that began right, too low and beyond
the limit.  Three calls of two lanes overlap in every order, also two of one
lane, and two ticks fall in and between them.  Three events in batches of two
are a full and a partial batch; 0 and 1 write every event, 3 all at once; a
second run begins behind the first event or never.

In `sources`, three events in batches of two are a full and a partial batch, the
limits fall inside a batch and beyond the end of the file, and the sizes 0 and 2
make every offset table different.  Three lanes and three events let two lanes
read between any two steps of the third, and the limit of four is beyond the end
of the file.  Two events of a PDS file are one to skip and one to read; 3 and 8
bytes are sizes with and without padding, 5 and 8 the same for compressed
events; the indices go up to four, beyond the end.  A vector of up to two items
is longer, shorter or as long as that of the event before.

`CHECK_DEADLOCK FALSE` appears where the system may really stop: the queue with
all objects stranded or paused, and after the destructor.

**Fairness.**  Inside the queue's code no thread blocks, and TBB runs what a
group was given: weak fairness of each thread's step inside the code and of the
start of each runner.  Nobody is obliged to push, pause or resume.  For `Lane`,
weak fairness of `Next` as a whole: as long as something can run, a thread of
the arena (main, in `wait`, is one) runs it; sources, waiters and outputers come
to an end.  The destructor's own steps are fair.

## 4. What the violated runs show

1. **A task can stay in the queue** (`SerialTaskQueue.cc:100`).  Thread 1 finds
   the queue empty, clears the flag, sees a task and claims the flag again;
   another thread that owned it in between has executed that task.  The second
   `try_pop` misses.  Before thread 1 stores `false`, thread 2 pushes a task and
   returns because the flag is set.  Thread 1 stores `false` and returns without
   looking again.  The task runs only if somebody pushes, or pauses and resumes,
   later; `OnlySecondMissStrands` and `RunsUnlessStranded` say that this is the
   only way, and `NextPushRepairs` that one push of another task repairs it:
   the pusher finds the flag clear and takes the stranded task first.  The last
   task of a job has no later push.
2. **The destructor may return early** (`SerialTaskQueue.cc:31`): if a runner of
   another group owns the queue, the no-op waits in the queue, its group is
   empty and `g.wait()` returns.  In the program every queue is destroyed after
   all groups have been waited for, where this does not matter.
3. **Lanes can overrun the ring of batches** (`RootBatchEventsOutputer.cc:106`,
   `HDFBatchEventsOutputer.cc:105`): with two lanes and the default `batchSize`
   of 1, a lane is between its fetch of the entry and its count while the other
   one outputs two more events and comes round to the same batch.  The assertion
   fails; without assertions an event is lost or a null or deleted batch is used.
   `WrittenAtMostOnce` holds even then, and `RoomUnlessOverrun` says that nothing
   else can break the assertion: the history variable `overrun` records that a
   lane took an entry whose batch was in use.
4. **The event index need not be that of the event**
   (`SharedRootBatchEventsSource.cc:169`, `SharedPDSSource.cc:78`): the source
   hands out events in the order the closures run, so the index a waiter uses is
   that of another event when lanes interleave.  The run shows
   it for the first of the two; `FirstEventsOnce` and `EachEventOnce` say that
   neither loses an event or gives one twice by it.
5. **A lane may output another event's identifier**
   (`SerialRootTreeGetEntrySource.cc:74`): the event identifier of a file without
   EventAuxiliary is read through a branch whose address is that of the lane that
   read last.  When another lane reads, `GetEntry` first fills that address once
   more, with the identifier of the event read now; a lane that has not output
   yet then outputs its products under that identifier.
   `IdentifierUnlessAddressKept` says that no other source does that.
6. **The multi-dataset method keeps the last batch only**
   (`multidataset_plugin.cc:301`): the flush forgets where the data of a dataset
   end, and the next batch is written from offset 0 (lines 140-147).  With one
   batch, and with the other two methods, `SourceReadsWhatWasOutput` holds.

Some more disagreements are not runs of their own.  The assertion at
`pds_reading.cc:209` compares with a size that counts the word the callers have
removed, so that a build with assertions aborts on every file that is not
compressed; `EndsWithTheFile` names the exception.  A build without assertions
may give an event out of a file that breaks off inside a record, which is the
exception in `EventsAsWritten`.  `README.md:323` says that `batchSize` of
HDFOutputer is 2 by default; `HDFOutputer.cc:255` says 1.  The comment on `pause` says that
once the running task finishes "no further tasks will be started"
(`SerialTaskQueue.h:88-89`); `pickNextTask` reads the count once, before it
claims the flag, so a thread that read it just before the pause still takes a
task.  Nothing in the program pauses a queue.

## 5. What is proved

A theorem holds for every value of the constants that satisfies the assumptions
named; where a theorem has the invariant of a run, the run checks the same
formula.  `Spec => []P` is always proved from an inductive invariant, action by
action; what follows says which, and why the property alone is not inductive.

What a recursive function or a fold computes for every input is proved without an
induction theorem: a function that satisfies the recursion on a finite interval
exists, because the shortest interval on which there is none could be extended,
and two claims about its values hold for all of the interval, because there is no
smallest place at which one fails (`Smallest`, `JoinExists`, `JoinIsLonger`).

### SerialTaskQueueProofs

For all finite or infinite sets of threads, tasks and groups and any bound on
pauses, from `QueueAssumption` alone (groups are assigned to tasks, `NoTask` and
`NoGroup` are different from them):

| theorem | statement |
|---|---|
| `TypeCorrect` | `Spec => []TypeOK` |
| `MutualExclusion` | `Spec => []OneOwner` |
| `FlagNeverLeaks` | `Spec => []FlagHasOwner` |
| `StrandingIsLocal` | `Spec => OnlySecondMissStrands` |
| `Refinement` | `Spec => ImplementsExecutor` |
| `LifetimeTypeCorrect` | `LifetimeSpec => []LifetimeTypeOK` |
| `SkippingIsSafe` | `LifetimeSpec => []SkipOnlyIfNothingLeft` |

The inductive invariant is `QueueInv == TypeOK /\ HandHeld /\ OneOwner /\
FlagHasOwner`.  `OneOwner` alone is not inductive: that a step of the owner
does not create a second one needs the converse, that a set flag has an owner,
and `Spawn`, which turns the owner from a thread into a spawned task, needs
`HandHeld` (a thread at `picked` holds a task of `Tasks`).  `FlagHasOwner` in
turn needs `OneOwner`, so that clearing the flag leaves no owner behind.
`TypeAndHand` proves the first two parts, `OwnerInduction` the others.
`StrandingIsLocal` looks at every action that could make `Stranded` true.

`Refinement` maps the queue contents with the chosen task in front to `waiting`;
from the invariant there is at most one chosen task and at most one executing,
so the mapping is a sequence (`ChosenIsSequence`); push appends (`AppendAfter`),
a pop moves the head into the chosen place and leaves the mapped sequence
unchanged (`RejoinHead`, `PopIsQuiet`), the start of the runner and the runner's
`Continue` are `Begin`, the end of the body is `Complete`, and everything else
is a stutter (`QuietStep`).

The steps of the destructor keep `QueueInv` (`LifetimeKeepsQueueInv`).  It reads
`m_tasks.empty()` and `m_taskChosen` one after the other while runners go on, and
`Looked` says what each read is worth later: nobody pushes any more, so a queue
seen empty stays empty; and a flag that is clear then has no owner, so nothing is
left anywhere (`ClearFlagMeansNothingLeft`).  The other order of the reads would
not do.

### LaneProofs

From `LaneAssumption` (there is a lane, counts are natural numbers):

| theorem | statement |
|---|---|
| `TypeCorrect` | `Spec => []TypeOK` |
| `OneEvent` | `Spec => []OneEventPerLane` |
| `ProductsFirst` | `Spec => []OutputAfterProducts` |
| `WaitedFor` | `Spec => []WaitedMeansFinished` |
| `EachOnce` | `Spec => []EveryEventOnce` |

Nothing in the code says that a lane has one event: it follows from who holds
whom.  `LaneInv(l)` describes the holders of a lane.  `Tree`: a live object other
than the roots holds exactly its successor, and the local variable of
`processEventAsync` is the only other holder; so every object is given to the
group once, when its last holder goes.  `Apart`: an object is in one place.
`OneTurn`: the start, a read and a next task are one at a time, and of the
event at `presentEventIndex`.  `Past`, `Asked` and `Ends` bound the events, the
products and the main loop.  `Indexes` says that two lanes never have the same
index and counts the lanes that went beyond the end; `Outputs` that an event is
output unless some lane has yet to do it.

### EventOutputersProofs

For any numbers of lanes, events and data products and any of the six outputers:

| theorem | statement |
|---|---|
| `WholeEvents` | `Spec => []RecordsAreWholeEvents` |
| `FilesAreComplete` | `Spec => []FileIsComplete`, if there is an event |
| `TypeCorrect` | `Spec => []TypeOK`, for a natural number of events |

That the records so far are whole events says nothing of the next one, so the
inductive invariant `IInv` follows an event from the lane into the file:
`LaneHoldsEvent` (all objects of a lane, and the blobs of the serializers that
have run, are of its event until the callback is released), `TasksForTheirLanes`
(a task waiting or running is for a lane that still waits for it, and has its
event's identifier and, where the outputer serializes, its event's blobs),
`BranchesOfTheTask` (the branches point to the lane of the running task).  That
releasing one callback leaves the other tasks' lanes alone needs
`OneTaskPerLane`: no lane has two tasks.  `HeaderIsFirst` says that what
describes the file, which is no event, is written before any record, so that
every later entry is a record.  `FilesAreComplete` adds that an event that was
taken is with one lane or in one record (`NotTwice`, `NoneLost`); the records
behind the header are then as many as the events, by a bijection.  Without an
event PDSOutputer and HDFEventOutputer write no header either: what describes
the file comes with the first event.  `TypeCorrect` needs `Narrow` besides, that
objects and blobs hold events of the job and nothing else.

### TBufferMergerRootOutputerProofs

For any numbers of lanes and events, and any integers as sizes, as `autoFlush_`
and as the value the counter begins with (`Parameters`):

| theorem | statement |
|---|---|
| `TypeCorrect` | `Spec => []TypeOK` |
| `Merged` | `Spec => []MergedOnce` |
| `CountReset` | `Spec => []CountComesBack` |
| `Told` | `Spec => []ToldLanesWrite` |

The inductive invariant: an event that was filled is merged once or in the buffer
of one lane (`OnePlace`); a lane waits while the queue has its task, of which there is
one (`TasksOfWaitingLanes`), so that nobody fills a buffer that is being written;
a flag that was set stays until the lane writes (`ToldUntilWritten`), and the
bytes counted are those filled since then (`BytesCounted`).  `CountComesBack` is
inductive with these: the increment returns each value to one lane, so the lane
that gets the limit is between its increment and its reset.

### RNTupleAsyncOutputerProofs

| theorem | statement |
|---|---|
| `SealedClusters` | `Spec => []ClustersAsSealed`, for any lanes and a natural number of events |
| `WallclockCounts` | `Spec => []WallclockIsBusyTime`, if the end of time is a natural number as well |
| `TypeCorrect` | `Spec => []TypeOK`, from the same |

A call that is over may still have its callback, and the reverse; the invariant
says which calls keep a lane busy (`CallsHaveLanes`, `OneCallPerLane`), that a
lane's flush holds the callback that keeps the lane from its next event
(`FlushHasCallback`, `OneFlushPerLane`) - that is why the context a flush reads
is the one that was sealed (`Sealed`) - and that an event is in one context or
in the file (`OnePlace`).

`ClockInv` is about the clock.  The count `nConcurrentCalls_` is that of the calls
between their start and their stop; all of these have the same start, that of the
first, which is why the last one to stop can add the whole interval; and a call
that has stopped but not yet added its interval is one term of the sum in
`WallclockIsBusyTime`.  That sum is a fold over the calls: taking a call out of it
subtracts its term (`TimeOfMore`), and leaving all terms as they are leaves it
(`TimeOfSame`), by the smallest set of calls for which this would fail.

### EventSourcesProofs

For any numbers of lanes, events, data products and indices and any of the ten
sources, from `Parameters` (there is a lane, an event has a data product,
RepeatingRootSource an event to repeat; the file may be empty and the limit 0):

| theorem | statement |
|---|---|
| `TypeCorrect` | `Spec => []TypeOK` |
| `OneEventGiven` | `Spec => []ProductsOfOneEvent` |
| `IdentifierKept` | `Spec => []IdentifierUnlessAddressKept` |
| `EachOnce` | `Spec => []EachEventOnce` |

The properties say something of what was output, and nothing of what a lane holds.
The inductive invariant, proved source by source, has:

* `Queues`: no closure is outstanding twice (`Distinct`), and each is for the index
  its lane still has and for something the lane waits for (`ClosuresOfLanes`).
  Without the first, a closure that ends could leave its twin behind, which would
  read into the lane's objects after the lane has moved on.
* `Lanewise`: `AtAnEvent` says at which point of its path a lane can be with which
  index; `Identified` that its identifier is that of its event, unless another
  lane's read fills it; `HasRead` that of the data products asked for, as many are
  outstanding as are not ready, and that those not outstanding are of the lane's
  event - this is what a delayed source has to show, whose lane outputs when the
  last of its reads ends, in any order.
* `Outputs`: what was output is one event, and one that the source has.
* `Once`: an event is with one lane or was output once (`NotTwice`), and none below
  the limit is lost (`NoneLost`, `EndsThere`).  SharedPDSSource hands out events in
  the order its closures run, not by index, so there an event is known by its place
  in the file, and `OneForEachIndex` counts the events read and the lanes that wait
  for one against the indices handed out.
* `Counted`: the counter runs beyond the limit by one for each lane that ended.

### MCOutputersProofs

The parts of this module follow the outputers of a job.

**BatchEventsOutputer**, from `BatchAssumption` (at least one lane, batches of at
least one event):

| theorem | statement |
|---|---|
| `TypeCorrect` | `Spec => []TypeOK` |
| `AtMostOnce` | `Spec => []WrittenAtMostOnce` |
| `Room` | `Spec => []RoomUnlessOverrun` |
| `LiveBatch` | `Spec => []WritesIntoLiveBatch` |
| `Runs` | `Spec => []BatchesAreRuns` |
| `AllWritten` | `Spec => []EveryEventWritten` |

The first part, `IInv`, holds with or without overrun: a batch is at one place of
the ring, or one actor has taken it out, or it was pushed (`OnePlacePerBatch`);
a lane allocates once for an entry (`AllocatedOnce`); an event is only in the
slot of its index (`SlotsAreIndices`); and of lane, batches, queue and file it is
in one (`OnePlacePerEvent`).

The second part, `OrderInv`, holds as long as no lane took an entry whose batch
was still in use.  The heart is `Counts`: for the batch being filled, the events
counted and the lanes about to count are together as many as entries of it were
taken; any other batch is clean or complete, and a complete one has one lane that
takes it out.  So the count alone, with no lock, decides who finishes a batch.
`Turns` (all events at a place of the ring are of one turn) and `Filled` (an event
of that turn that no lane holds is in its slot) make a batch that is taken out a
full run (`Complete`).  `Summary` describes `printSummary`, which walks the ring
when the lanes are idle and finds at most the one partial batch; `NothingLost`
and `Ends` give `EveryEventWritten`.

**HDFOutputer**, from `AppendedAssumption` (the numbers of events and data products
are natural numbers, so are the sizes of blobs) and nothing about the batch sizes:

| theorem | statement |
|---|---|
| `SourceReads` | `JobSpec => []SourceReadsWhatWasOutput` |

What HDFSource reads is cut out of the datasets by tables of ends, so the inductive
invariant `AppenderInv` says what these cuts are, at any moment:

* `LanesHoldBlobs`, `OutputsWait`: a lane in `outputAsync` has the blobs of its own
  event, and its output waits or runs, once.
* `MemoryIsRight`: the batch in memory has the blobs of its events, event by event,
  product by product within each.
* `OrderOfOutput`: what was output is what is in the file followed by what is in
  memory, and with the events of the lanes it is all that was taken.
* `FileIsCut`: for every data product, the table of ends cuts the dataset into the
  blobs of the events of the file (`CutsOf`), each beginning where the one before
  ends, and the offset that the next batch will be written at is the end of the
  last (`total`).  This is the part the multi-dataset plug-in breaks with its second
  batch, so it is restricted to the files where `AppendsBehind` holds.

`WriteBatch` is the step that needs work: the dataset grows by the concatenation of
the blobs of a batch, by `FlattenSeq`, and the table by the partial sums of their
lengths.  `AppendCuts` says that a table that cuts the old part, continued in this
way, cuts the whole; `WriteKeeps` applies it to the three ways of appending,
`AccumulateKeeps` and `MoreInMemory` are `output`, and `CutsAreRead` is HDFSource.

**The job:**

| theorem | statement |
|---|---|
| `WholeEvents`, `FilesAreComplete` | `JobSpec => []RecordsAreWholeEvents`, `JobSpec => []FileIsComplete` |
| `Merged`, `CountReset`, `Told` | `JobSpec => []MergedOnce`, `[]CountComesBack`, `[]ToldLanesWrite` |
| `SealedClusters`, `WallclockCounts` | `JobSpec => []ClustersAsSealed`, `[]WallclockIsBusyTime` |
| `BatchesInTheJob` | `JobSpec => Spec` of `BatchEventsOutputer` |
| `TypesInTheJob` | `JobSpec => []TypesOK` |

These are the invariants as `outputers` checks them: with any number of lanes, any
batch size and any parameters of `HDFOutputer`, and with the numbers of events and
sizes of that run for the outputers of the other three modules, whose own theorems
are for any.  The modules of proofs are instantiated with the variables of the job;
a job keeps its kind, so that the invariant of the outputer of the job is kept, and
the others do not move.  `BatchesInTheJob` gives all of the theorems about
`BatchEventsOutputer` to the job.

### MCEventSourcesProofs

**SharedRootBatchEventsSource**, from `SourceAssumption` (at least one lane and data
product; limits, events of the file and sizes are natural numbers, batches hold at
least one event):

| theorem | statement |
|---|---|
| `FirstOnce` | `Spec => []FirstEventsOnce` |
| `BytesOfTheEvent` | `Spec => []ProductsOfThisEvent` |

`EntryFacts` says what the entries of a file are for any batch size: they divide
the events, the last one having what is left.  `Cached` puts the source's cursor
into the file, so that `Given`, the number of events handed out, is a function of
`nextEntry_` and `cachedEventIndex_`; both ways of handing one out
(`ReadAheadGives`, `GiveCachedGives`) give event `Given` and add one.  `Counted`
relates the cursor to the job's counter, which the source never sees: the events
given and the lanes that wait for one are together as many as the indices below
the limit that were asked for, unless the file is at its end.  `NotTwice` and
`NoneLost` say that an event given is with one lane or was processed.

`BytesKept` is what `ProductsOfThisEvent` needs: the entries of the file are what
the outputer's loops make of the ids of a batch; the source has kept the bytes of
the entry at its cursor; and a lane that is to deserialize was given the table and
the bytes of its own event.  That the step of the source gives it these is a fact
about the layout: within an event the bytes of a product stand between its offset
and the next, and the last offset is the length of the whole (`EventIsCut`); within
an entry the sum of the last offsets of the events before is where the bytes of an
event begin (`EntryIsCut`).  Both are about folds over sequences of any length.

**PDSFormat**, from `PDSAssumption` (at least one event, since an outputer that was
given none writes no file; sizes are natural numbers, a compressed event has at least
a byte; nothing about the bound of a word but that it is not 0):

| theorem | statement |
|---|---|
| `WordsReadAsWritten` | `EventsSpec => []EventsAsWritten` |
| `EndsBehindTheLast` | `EventsSpec => []EndsWithTheFile` |

The reader follows numbers that it finds in the file, so the proof begins with where
the words of the whole file, `All`, stand: `HeaderFacts` and `FileHeaderFacts` for the
header, `Layout` for the event headers and the records.  `FileIsBegun` says that the
file is a beginning of `All` (`OutputKeeps`; `DieKeeps` cuts it anywhere), and
`WholeFacts` that `Whole`, which counts the records that end in the file, is the first
event that is not complete.  `Reading` is what the reader keeps: its stream is good
and it stands at the record of the event it counts, `pos = EndOf(presentEventIndex_)`,
an event that is whole or the first that is not; or its stream failed, without
assertions, in a file that breaks off inside a record, behind all whole events.

Within one event, `EventFound` says that header, record and crosscheck word are found
where they were written; `UncompressedAgain` that the words used and the bytes of the
last word give back what was compressed; `EventDeserialized` that the turns of the loop
take one product each, put it into the lane's object of that number and end with the
last; `InfosRead` says the same of the names and classes in the file header.

**The job:**

| theorem | statement |
|---|---|
| `OneEventGiven`, `IdentifierKept` | `EventsSpec => []ProductsOfOneEvent`, `EventsSpec => []IdentifierUnlessAddressKept` |
| `EachOnce` | `EventsSpec => []EachEventOnce` |
| `BatchesInTheJob` | `EventsSpec => Spec` of `SharedRootBatchEventsSource` |

`sources` checks these properties in `MCSources`, whose jobs with one of these
sources take the steps of `MCEventSources` and leave its other variables alone.

### Only model-checked

* Every liveness property (`RunsUnlessStranded`, `NextPushRepairs`,
  `DestructorReturns`, `AllLanesFinish`): fairness and `ENABLED` are out of the
  prover's reach.
* `ReadsBackWhatWasWritten`: `Unrolling` has recursive operators, because an unrolled
  class that contains others is recursive in the code.  For the same reason nothing is
  proved in `MCSources`, so that its `TypesOK` is checked only.

## 6. Not modelled

* **Configuration** (`configKeyValuePairs`, `ConfigurationParameters`, the
  factories): sequential parsing of strings into maps and one lookup by name; a
  model would repeat it character by character.  What it lets through is in the
  hazards: a `batchSize` or a `repeat` of 0.
* **ROOT, HDF5, TBB and the compressors**: modelled as external, by how the code
  uses them.  A request of the multi-dataset plug-in is one per dataset, merging
  of requests is left out.
* **Outputers that keep nothing** (TextDump, Serialize, Dummy, TestProducts):
  `Lane` has their calls; what they print is formatting.
* Timing statistics other than the RNTuple clock (`collateTime_` is updated by
  several lanes without a lock), logging, exceptions of `main`, the command
  line, file creation, the checks of metadata in constructors, the choice of
  RNTuple fields and write options by the configuration.
* Data classes, dictionaries, tests and vendored code.  `CLI11.hpp` alone is 8938
  lines, two fifths of the repository's C++.

## 7. Plan

Done: the queue with its abstract specification, destructor and proofs; the
event loop and its proofs; every source and every outputer that keeps state, each
with the proofs of its safety properties; the PDS format; unrolled serialization.
What is left, in this order:

1. `Unrolling`: recursive functions of the depth of a class in the place of its
   recursive operators, as `PDSFormat` has them of the turns of a loop, and then
   `ReadsBackWhatWasWritten`; with it `TypesOK` of `MCSources`.
2. The theorems of the jobs for any numbers of events, with constants in the place
   of the numbers in `MCOutputers` and `MCEventSources`, as `HDFOutputer` has them.
