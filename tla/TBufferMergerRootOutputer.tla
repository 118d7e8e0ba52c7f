---------------------- MODULE TBufferMergerRootOutputer ----------------------
(***************************************************************************)
(* TBufferMergerRootOutputer.cc: every lane fills a TTree in a memory file *)
(* of its own, and Write of that file hands what it holds to ROOT's        *)
(* TBufferMerger.  With a negative autoFlush_ a lane writes when it has    *)
(* enough bytes itself; with a positive one the lane whose event makes the *)
(* job's count reach autoFlush_ sets the count back and tells every lane   *)
(* to write, with nothing but atomics.  The write is done at once, or by a *)
(* task of queue_ that keeps the callback of outputAsync.                  *)
(*                                                                         *)
(* numberEventsSinceLastWrite_ is a std::atomic<int> that no constructor   *)
(* initializes (C++17), so that it starts with any value.                  *)
(***************************************************************************)
EXTENDS Integers, Sequences, FiniteSets

CONSTANTS NLanes,      \* lanes of the job
          NEvents,     \* events of the job
          AutoFlushes, \* values of autoFlush_
          Sizes,       \* bytes that Fill of an event may report
          Garbage      \* first values of numberEventsSinceLastWrite_

VARIABLES autoFlush_, concurrentWrite_, \* parameters
          initial,                      \* how the counter began
          next,                         \* the next event a lane may take
          pc,                           \* per lane
          numberEventsSinceLastWrite_,
          shouldWrite_,                 \* per lane
          nBytesWrittenSinceLastWrite_, \* per lane
          telling,                      \* per lane: lanes it has yet to tell
          buffer,                       \* per lane: events in its memory file
          bytes,                        \* history, per lane: their bytes
          wasTold,                      \* history, per lane: told before its last Fill
          queued, running,              \* queue_
          merged                        \* history: how often TBufferMerger got an event

parameters == <<autoFlush_, concurrentWrite_, initial>>
flags == <<numberEventsSinceLastWrite_, shouldWrite_, telling>>
queue == <<queued, running>>
memory == <<buffer, bytes, nBytesWrittenSinceLastWrite_>>
vars == <<parameters, next, pc, flags, memory, wasTold, queue, merged>>

Lanes == 0..(NLanes - 1)
Events == 0..(NEvents - 1)

Queue == INSTANCE SerialExecutor WITH Tasks <- Lanes, waiting <- queued

\* nothing initializes the counter that autoFlush_ is compared to
Init == /\ autoFlush_ \in AutoFlushes
        /\ concurrentWrite_ \in BOOLEAN
        /\ initial \in IF autoFlush_ < 0 THEN {0} ELSE Garbage
        /\ next = 0
        /\ pc = [l \in Lanes |-> "next"]
        /\ numberEventsSinceLastWrite_ = initial
        /\ shouldWrite_ = [l \in Lanes |-> FALSE]
        /\ nBytesWrittenSinceLastWrite_ = [l \in Lanes |-> 0]
        /\ telling = [l \in Lanes |-> {}]
        /\ buffer = [l \in Lanes |-> {}]
        /\ bytes = [l \in Lanes |-> 0]
        /\ wasTold = [l \in Lanes |-> FALSE]
        /\ queued = <<>>
        /\ running = {}
        /\ merged = [e \in Events |-> 0]

TypeOK == /\ next \in 0..NEvents
          /\ pc \in [Lanes -> {"next", "count", "reset", "tell", "check", "write",
                               "queued", "closed"}]
          /\ numberEventsSinceLastWrite_ \in Int
          /\ shouldWrite_ \in [Lanes -> BOOLEAN]
          /\ telling \in [Lanes -> SUBSET Lanes]
          /\ buffer \in [Lanes -> SUBSET Events]
          /\ queued \in Seq(Lanes) /\ running \subseteq Lanes
          /\ merged \in [Events -> Nat]

----------------------------------------------------------------------------
Goto(l, from, to) == pc[l] = from /\ pc' = [pc EXCEPT ![l] = to]

\* TBufferMergerRootOutputer::write: eventTree_->Fill() of the lane's next event
\* (the bytes are added up in either mode, but only one reads them)
Fill(l) ==
  /\ next < NEvents
  /\ Goto(l, "next", IF autoFlush_ < 0 THEN "check" ELSE "count")
  /\ next' = next + 1
  /\ buffer' = [buffer EXCEPT ![l] = @ \cup {next}]
  /\ \E size \in IF autoFlush_ < 0 THEN Sizes ELSE {0} :
       /\ bytes' = [bytes EXCEPT ![l] = @ + size]
       /\ nBytesWrittenSinceLastWrite_' = [nBytesWrittenSinceLastWrite_ EXCEPT ![l] = @ + size]
  /\ wasTold' = [wasTold EXCEPT ![l] = shouldWrite_[l]]
  /\ UNCHANGED <<parameters, flags, queue, merged>>

\* v = ++numberEventsSinceLastWrite_, and v == autoFlush_
Count(l) ==
  /\ Goto(l, "count",
          IF numberEventsSinceLastWrite_ + 1 = autoFlush_ THEN "reset" ELSE "check")
  /\ numberEventsSinceLastWrite_' = numberEventsSinceLastWrite_ + 1
  /\ UNCHANGED <<parameters, next, shouldWrite_, telling, memory, wasTold, queue, merged>>

\* Mutated: the count goes on below its old value, as -= autoFlush_ read before.
ResetToRest(l) ==
  /\ Goto(l, "reset", "tell")
  /\ numberEventsSinceLastWrite_' =
       IF numberEventsSinceLastWrite_ = autoFlush_ THEN 0 ELSE numberEventsSinceLastWrite_
  /\ telling' = [telling EXCEPT ![l] = Lanes]
  /\ UNCHANGED <<parameters, next, shouldWrite_, memory, wasTold, queue, merged>>

\* numberEventsSinceLastWrite_ = 0, whatever it has become
Reset(l) ==
  /\ Goto(l, "reset", "tell")
  /\ numberEventsSinceLastWrite_' = 0
  /\ telling' = [telling EXCEPT ![l] = Lanes]
  /\ UNCHANGED <<parameters, next, shouldWrite_, memory, wasTold, queue, merged>>

\* one turn of the loop over lanes_, the first of those left
Tell(l) ==
  /\ pc[l] = "tell"
  /\ \E k \in telling[l] :
       /\ \A j \in telling[l] : k <= j
       /\ shouldWrite_' = [shouldWrite_ EXCEPT ![k] = TRUE]
       /\ telling' = [telling EXCEPT ![l] = @ \ {k}]
       /\ pc' = [pc EXCEPT ![l] = IF telling[l] = {k} THEN "check" ELSE "tell"]
  /\ UNCHANGED <<parameters, next, numberEventsSinceLastWrite_, memory, wasTold, queue,
                 merged>>

MustWrite(l) == IF autoFlush_ < 0 THEN nBytesWrittenSinceLastWrite_[l] > -1 * autoFlush_
                                  ELSE shouldWrite_[l]

\* the lane has nothing to write: the callback is released when write returns
NothingToWrite(l) ==
  /\ ~MustWrite(l)
  /\ Goto(l, "check", "next")
  /\ UNCHANGED queue

WriteAtOnce(l) ==
  /\ MustWrite(l) /\ concurrentWrite_
  /\ Goto(l, "check", "write")
  /\ UNCHANGED queue

\* Mutated: the callback is not kept by the task.
PushWriteNoWait(l) ==
  /\ MustWrite(l) /\ ~concurrentWrite_
  /\ Goto(l, "check", "next")
  /\ Queue!Submit(l)

PushWrite(l) ==
  /\ MustWrite(l) /\ ~concurrentWrite_
  /\ Goto(l, "check", "queued")
  /\ Queue!Submit(l)

Check(l) ==
  /\ NothingToWrite(l) \/ WriteAtOnce(l) \/ PushWrite(l)
  /\ UNCHANGED <<parameters, next, flags, memory, wasTold, merged>>

\* what writeWhenBytesFull and writeWhenEnoughEvents do before file_->Write()
ClearFor(l) ==
  /\ nBytesWrittenSinceLastWrite_' =
       [nBytesWrittenSinceLastWrite_ EXCEPT ![l] = IF autoFlush_ < 0 THEN 0 ELSE @]
  /\ shouldWrite_' = [shouldWrite_ EXCEPT ![l] = (autoFlush_ < 0 /\ @)]

\* file_->Write(): the events of the lane's memory file go to TBufferMerger
MergeOf(l) ==
  /\ merged' = [e \in Events |-> merged[e] + IF e \in buffer[l] THEN 1 ELSE 0]
  /\ buffer' = [buffer EXCEPT ![l] = {}]
  /\ bytes' = [bytes EXCEPT ![l] = 0]

Write(l) ==
  /\ Goto(l, "write", "next")
  /\ ClearFor(l)
  /\ MergeOf(l)
  /\ UNCHANGED <<parameters, next, numberEventsSinceLastWrite_, telling, wasTold, queue>>

\* the task of queue_: the flag is cleared first, and may be set again meanwhile
StartQueuedWrite ==
  /\ Queue!Begin
  /\ \E l \in running' : ClearFor(l)
  /\ UNCHANGED <<parameters, next, pc, numberEventsSinceLastWrite_, telling, buffer, bytes,
                 wasTold, merged>>

FinishQueuedWrite ==
  /\ Queue!Complete
  /\ \E l \in running : /\ MergeOf(l)
                        /\ pc' = [pc EXCEPT ![l] = "next"]
  /\ UNCHANGED <<parameters, next, flags, nBytesWrittenSinceLastWrite_, wasTold>>

\* Mutated: only the lanes that were told are written.
CloseToldLane(l) ==
  /\ next = NEvents /\ \A k \in Lanes : pc[k] \in {"next", "closed"}
  /\ Goto(l, "next", "closed")
  /\ IF shouldWrite_[l] THEN MergeOf(l) ELSE UNCHANGED <<merged, buffer, bytes>>
  /\ UNCHANGED <<parameters, next, flags, nBytesWrittenSinceLastWrite_, wasTold, queue>>

\* printSummary, after the wait for all lanes: every lane's file is written and
\* closed, whether or not it was told to
CloseLane(l) ==
  /\ next = NEvents /\ \A k \in Lanes : pc[k] \in {"next", "closed"}
  /\ Goto(l, "next", "closed")
  /\ MergeOf(l)
  /\ UNCHANGED <<parameters, next, flags, nBytesWrittenSinceLastWrite_, wasTold, queue>>

LaneStep(l) == \/ Fill(l) \/ Count(l) \/ Reset(l) \/ Tell(l)
               \/ Check(l) \/ Write(l) \/ CloseLane(l)

Finished == (\A l \in Lanes : pc[l] = "closed") /\ UNCHANGED vars

Next == StartQueuedWrite \/ FinishQueuedWrite \/ (\E l \in Lanes : LaneStep(l)) \/ Finished

Spec == Init /\ [][Next]_vars
----------------------------------------------------------------------------
\* An event is in the memory file of one lane or with TBufferMerger, never in
\* both and never lost, and at the end of the job all are merged, whatever was
\* flushed before and even if no flush was ever triggered.
MergedOnce ==
  /\ \A e \in Events :
       merged[e] + Cardinality({l \in Lanes : e \in buffer[l]}) = IF e < next THEN 1 ELSE 0
  /\ (\A l \in Lanes : pc[l] = "closed") => \A l \in Lanes : buffer[l] = {}

\* "we do not care if this number was incremented after the check on another
\* thread since we will write regardless" (TBufferMergerRootOutputer.cc:126):
\* if it began below autoFlush_, the count is never beyond it unless a lane is
\* about to set it back, so that the flush does not stop working.
CountComesBack ==
  autoFlush_ > 0 /\ initial < autoFlush_ /\ numberEventsSinceLastWrite_ >= autoFlush_
    => \E l \in Lanes : pc[l] = "reset"

\* A lane that was told to write before its event was filled has written by the
\* time it is done with that event; a lane that counts bytes is then below the
\* limit, and its count is that of the events it holds.  No other lane's write
\* takes the place of its own.
ToldLanesWrite ==
  \A l \in Lanes : pc[l] = "next" =>
    /\ autoFlush_ > 0 /\ wasTold[l] => buffer[l] = {}
    /\ autoFlush_ < 0 => /\ nBytesWrittenSinceLastWrite_[l] = bytes[l]
                         /\ bytes[l] <= -1 * autoFlush_
=============================================================================
