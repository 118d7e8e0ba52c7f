---------------------------- MODULE MCOutputers ----------------------------
(***************************************************************************)
(* A job with the outputer its command line names (-o,                     *)
(* outputerFactoryGenerator.cc): kind is that outputer.  The outputers     *)
(* that fill batches are BatchEventsOutputer, whose variables are this     *)
(* module's own; those of the other modules are shared where they mean the *)
(* same, and 0 in a job they have no part in.                              *)
(***************************************************************************)
EXTENDS BatchEventsOutputer

\* The parameters of HDFOutputer, whose files are proved right for any: the events of
\* the job, the data products of an event and the bytes they may serialize to, the
\* values of maxBatchSize_, and how many events the first of two runs may have.
CONSTANTS AppendedEvents, AppendedProducts, AppendedSizes, BatchSizes, RunEnds

ASSUME AppendedAssumption == /\ AppendedEvents \in Nat /\ AppendedProducts \in Nat
                             /\ AppendedSizes \subseteq Nat

VARIABLES kind, \* the outputer of the job
          \* all modules: the job, and the queue of the outputer
          next, at, tasks, running,
          \* EventOutputers and HDFOutputer; and RNTupleAsyncOutputer: closed
          lanesEvent, blobs, closed,
          \* EventOutputers
          objects, serialized, bound, id_, firstTime_, file,
          \* TBufferMergerRootOutputer
          autoFlush_, concurrentWrite_, initial, numberEventsSinceLastWrite_,
          shouldWrite_, nBytesWrittenSinceLastWrite_, telling, buffer, bytes,
          wasTold, merged,
          \* RNTupleAsyncOutputer
          now, busy, lane, released, start, end, nConcurrentCalls_,
          wallclockStartTime_, wallclockTime_, context, sealed, written,
          \* HDFOutputer
          maxBatchSize_, method, size, runEnd, products_, events_, batch_,
          offsets_, datasets, ends, ids, runAttribute, batches, order

job == <<next, at, tasks, running>>
eventByEvent == <<lanesEvent, blobs>>
ofRecords == <<objects, serialized, bound, id_, firstTime_, file>>
ofMerger == <<autoFlush_, concurrentWrite_, initial, numberEventsSinceLastWrite_,
              shouldWrite_, nBytesWrittenSinceLastWrite_, telling, buffer, bytes,
              wasTold, merged>>
ofClusters == <<now, busy, lane, released, start, end, nConcurrentCalls_,
                wallclockStartTime_, wallclockTime_, context, sealed, written>>
ofAppender == <<maxBatchSize_, method, size, runEnd, products_, events_, batch_,
                offsets_, datasets, ends, ids, runAttribute, batches, order>>

Records == INSTANCE EventOutputers WITH
  NEvents <- 4, NProducts <- 2, pc <- at, event <- lanesEvent,
  queued <- tasks, writing <- running,
  Kinds <- {"PDSOutputer", "RootEventOutputer", "HDFEventOutputer",
            "RootOutputer", "RNTupleOutputer", "RNTupleTFileOutputer"}

Merger == INSTANCE TBufferMergerRootOutputer WITH
  NEvents <- 5, AutoFlushes <- {2, -2}, Sizes <- {1, 2}, Garbage <- {-1, 0, 7},
  pc <- at, queued <- tasks

Clusters == INSTANCE RNTupleAsyncOutputer WITH
  NEvents <- 3, MaxTime <- 2, pc <- at, queued <- tasks,
  Kinds <- {"RNTupleAsyncOutputer", "RNTupleParallelOutputer"}

Appender == INSTANCE HDFOutputer WITH
  NEvents <- AppendedEvents, NProducts <- AppendedProducts, Sizes <- AppendedSizes,
  pc <- at, event <- lanesEvent, queued <- tasks, writing <- running

RecordKinds == Records!Serializing \cup Records!Reading
ClusterKinds == {"RNTupleAsyncOutputer", "RNTupleParallelOutputer"}

NoJob == next = 0 /\ at = 0 /\ tasks = 0 /\ running = 0
NotEventByEvent == lanesEvent = 0 /\ blobs = 0
NoRecords == /\ objects = 0 /\ serialized = 0 /\ bound = 0 /\ id_ = 0
             /\ firstTime_ = 0 /\ file = 0
NoMerger == /\ autoFlush_ = 0 /\ concurrentWrite_ = 0 /\ initial = 0
            /\ numberEventsSinceLastWrite_ = 0 /\ shouldWrite_ = 0
            /\ nBytesWrittenSinceLastWrite_ = 0 /\ telling = 0 /\ buffer = 0
            /\ bytes = 0 /\ wasTold = 0 /\ merged = 0
NoClusters == /\ now = 0 /\ busy = 0 /\ lane = 0 /\ released = 0 /\ start = 0
              /\ end = 0 /\ nConcurrentCalls_ = 0 /\ wallclockStartTime_ = 0
              /\ wallclockTime_ = 0 /\ context = 0 /\ sealed = 0 /\ written = 0
NoAppender == /\ maxBatchSize_ = 0 /\ method = 0 /\ size = 0 /\ runEnd = 0
              /\ products_ = 0 /\ events_ = 0 /\ batch_ = 0 /\ offsets_ = 0
              /\ datasets = 0 /\ ends = 0 /\ ids = 0 /\ runAttribute = 0
              /\ batches = 0 /\ order = 0

JobInit ==
  /\ Init
  /\ \/ /\ kind = "RootBatchEventsOutputer"
        /\ NoJob /\ NotEventByEvent /\ closed = 0
        /\ NoRecords /\ NoMerger /\ NoClusters /\ NoAppender
     \/ /\ Records!Init
        /\ NoMerger /\ NoClusters /\ NoAppender
     \/ /\ kind = "TBufferMergerRootOutputer" /\ Merger!Init
        /\ NotEventByEvent /\ closed = 0 /\ NoRecords /\ NoClusters /\ NoAppender
     \/ /\ Clusters!Init
        /\ NotEventByEvent /\ NoRecords /\ NoMerger /\ NoAppender
     \/ /\ kind = "HDFOutputer" /\ Appender!Init
        /\ NoRecords /\ NoMerger /\ NoClusters

BatchNext ==
  /\ kind = "RootBatchEventsOutputer" /\ Next
  /\ UNCHANGED <<kind, job, eventByEvent, closed, ofRecords, ofMerger, ofClusters,
                 ofAppender>>

RecordsNext ==
  /\ kind \in RecordKinds /\ Records!Next
  /\ UNCHANGED <<vars, ofMerger, ofClusters, ofAppender>>

MergerNext ==
  /\ kind = "TBufferMergerRootOutputer" /\ Merger!Next
  /\ UNCHANGED <<vars, kind, eventByEvent, closed, ofRecords, ofClusters, ofAppender>>

ClustersNext ==
  /\ kind \in ClusterKinds /\ Clusters!Next
  /\ UNCHANGED <<vars, eventByEvent, ofRecords, ofMerger, ofAppender>>

AppenderNext ==
  /\ kind = "HDFOutputer" /\ Appender!Next
  /\ UNCHANGED <<vars, kind, ofRecords, ofMerger, ofClusters>>

JobNext == BatchNext \/ RecordsNext \/ MergerNext \/ ClustersNext \/ AppenderNext

JobSpec == JobInit /\ [][JobNext]_<<vars, kind, job, eventByEvent, closed, ofRecords,
                                    ofMerger, ofClusters, ofAppender>>
----------------------------------------------------------------------------
\* The variables of the outputer of the job have their types.
TypesOK == /\ TypeOK
           /\ kind \in RecordKinds => Records!TypeOK
           /\ kind = "TBufferMergerRootOutputer" => Merger!TypeOK
           /\ kind \in ClusterKinds => Clusters!TypeOK
           /\ kind = "HDFOutputer" => Appender!TypeOK

\* EventOutputers: a record has the data products and the identifier of one event,
\* although lanes reuse their objects and serializers, and the branches are shared.
RecordsAreWholeEvents == kind \in RecordKinds => Records!RecordsAreWholeEvents

\* EventOutputers: a closed file begins with what describes it, said once, and has
\* every event of the job once.
FileIsComplete == kind \in RecordKinds => Records!FileIsComplete

\* TBufferMergerRootOutputer: an event is with one lane or merged, and merged once.
MergedOnce == kind = "TBufferMergerRootOutputer" => Merger!MergedOnce

\* TBufferMergerRootOutputer: a count that began below autoFlush_ is set back by
\* the lane that reaches it, whatever others add meanwhile (.cc:126).
CountComesBack == kind = "TBufferMergerRootOutputer" => Merger!CountComesBack

\* TBufferMergerRootOutputer: a lane told to write has written when it is done with
\* its next event, and a lane that counts bytes is below the limit.
ToldLanesWrite == kind = "TBufferMergerRootOutputer" => Merger!ToldLanesWrite

\* RNTupleAsyncOutputer: the wall clock time is that in which a call was running.
WallclockIsBusyTime == kind \in ClusterKinds => Clusters!WallclockIsBusyTime

\* RNTupleAsyncOutputer: a cluster is flushed as it was sealed, and a closed file
\* has every event once.
ClustersAsSealed == kind \in ClusterKinds => Clusters!ClustersAsSealed

\* HDFOutputer: an event that HDFSource can find has the bytes that were output at
\* that place.
SourceReadsWhatWasOutput == kind = "HDFOutputer" => Appender!SourceReadsWhatWasOutput
=============================================================================
