------------------------ MODULE RNTupleAsyncOutputer ------------------------
(***************************************************************************)
(* RNTupleAsyncOutputer.cc and RNTupleParallelOutputer.cc: every lane      *)
(* fills an RNTupleFillContext of its own, with no queue.  In the first,   *)
(* only the flush of a full cluster is a task of queue_, and that task     *)
(* keeps the callback of outputAsync; in the second ROOT flushes inside    *)
(* Fill, under a lock of its own.                                          *)
(*                                                                         *)
(* All calls together measure the wall clock time in which at least one of *)
(* them was running, with a count, a start time and a mutex.  The callback *)
(* may be released by another thread before outputAsync returns, and the   *)
(* lane's next call then starts while the last one has yet to stop the     *)
(* clock: the calls, not the lanes, are the processes here.                *)
(***************************************************************************)
EXTENDS Integers, Sequences, FiniteSets, FiniteSetsExt

CONSTANTS NLanes,   \* lanes of the job
          NEvents,  \* events of the job, one call of outputAsync each
          MaxTime,  \* bound of the clock
          Kinds     \* the outputers to be looked at

VARIABLES kind,
          now, busy,            \* the clock; history: its ticks during a call
          next,                 \* the next event
          lane,                 \* per call: the lane it is for
          pc,                   \* per call
          released,             \* calls whose callback has been released
          start,                \* per call: runningClock
          end,                  \* per call: end of stopClock
          nConcurrentCalls_, wallclockStartTime_, wallclockTime_,
          context,              \* per lane: events filled and not flushed
          sealed,               \* history, per lane: context at FlushColumns
          queued, running,      \* queue_: the flushes of lanes
          written,              \* per event: how often it is in the file
          closed

clock == <<nConcurrentCalls_, wallclockStartTime_, wallclockTime_, start, end>>
queue == <<queued, running>>
ntuple == <<context, sealed, written, closed>>
vars == <<kind, now, busy, next, lane, pc, released, clock, queue, ntuple>>

Lanes == 0..(NLanes - 1)
Events == 0..(NEvents - 1)
NoLane == -1

Queue == INSTANCE SerialExecutor WITH Tasks <- Lanes, waiting <- queued

Init == /\ kind \in Kinds
        /\ now = 0 /\ busy = 0
        /\ next = 0
        /\ lane = [e \in Events |-> NoLane]
        /\ pc = [e \in Events |-> "none"]
        /\ released = {}
        /\ start = [e \in Events |-> 0]
        /\ end = [e \in Events |-> 0]
        /\ nConcurrentCalls_ = 0 /\ wallclockStartTime_ = 0 /\ wallclockTime_ = 0
        /\ context = [l \in Lanes |-> {}]
        /\ sealed = [l \in Lanes |-> {}]
        /\ queued = <<>>
        /\ running = {}
        /\ written = [e \in Events |-> 0]
        /\ closed = FALSE

TypeOK == /\ now \in 0..MaxTime /\ busy \in 0..MaxTime
          /\ next \in 0..NEvents
          /\ lane \in [Events -> Lanes \cup {NoLane}]
          /\ pc \in [Events -> {"none", "fill", "push", "stop", "add", "returned"}]
          /\ released \subseteq Events
          /\ start \in [Events -> 0..MaxTime] /\ end \in [Events -> 0..MaxTime]
          /\ nConcurrentCalls_ \in 0..NEvents
          /\ wallclockStartTime_ \in 0..MaxTime /\ wallclockTime_ \in 0..MaxTime
          /\ context \in [Lanes -> SUBSET Events]
          /\ queued \in Seq(Lanes) /\ running \subseteq Lanes
          /\ written \in [Events -> Nat]

----------------------------------------------------------------------------
Goto(e, from, to) == pc[e] = from /\ pc' = [pc EXCEPT ![e] = to]

Tick ==
  /\ now < MaxTime /\ ~closed
  /\ now' = now + 1
  /\ busy' = busy + IF nConcurrentCalls_ > 0 THEN 1 ELSE 0
  /\ UNCHANGED <<kind, next, lane, pc, released, clock, queue, ntuple>>

\* the lane's last callback was released: it may have another event
Free(l) == \A e \in Events : lane[e] = l => e \in released

\* Mutated: every call starts the clock anew.
StartEveryTime(e) ==
  /\ nConcurrentCalls_' = nConcurrentCalls_ + 1
  /\ wallclockStartTime_' = now
  /\ start' = [start EXCEPT ![e] = wallclockStartTime_']
  /\ UNCHANGED <<wallclockTime_, end>>

\* startClock, under wallclockMutex_
StartClock(e) ==
  /\ nConcurrentCalls_' = nConcurrentCalls_ + 1
  /\ wallclockStartTime_' = IF nConcurrentCalls_ = 0 THEN now ELSE wallclockStartTime_
  /\ start' = [start EXCEPT ![e] = wallclockStartTime_']
  /\ UNCHANGED <<wallclockTime_, end>>

\* outputAsync of the next event, for a lane that is free
Call(l) ==
  /\ next < NEvents /\ Free(l)
  /\ Goto(next, "none", "fill")
  /\ lane' = [lane EXCEPT ![next] = l]
  /\ next' = next + 1
  /\ StartClock(next)
  /\ UNCHANGED <<kind, now, busy, released, queue, ntuple>>

\* a cluster goes into the file
Commit(cluster) ==
  written' = [e \in Events |-> written[e] + IF e \in cluster THEN 1 ELSE 0]

\* fillProducts with FillNoFlush; ROOT says whether the cluster is full, and then
\* FlushColumns seals it
FillNoFlush(e) ==
  LET l == lane[e] IN
  /\ kind = "RNTupleAsyncOutputer"
  /\ context' = [context EXCEPT ![l] = @ \cup {e}]
  /\ \/ /\ Goto(e, "fill", "push")
        /\ sealed' = [sealed EXCEPT ![l] = context'[l]]
     \/ Goto(e, "fill", "stop") /\ UNCHANGED sealed
  /\ UNCHANGED written

\* RNTupleParallelOutputer: Fill, which may write the cluster itself
FillAndFlush(e) ==
  LET l == lane[e]
      filled == context[l] \cup {e} IN
  /\ kind = "RNTupleParallelOutputer"
  /\ Goto(e, "fill", "stop")
  /\ \/ /\ context' = [context EXCEPT ![l] = filled] /\ UNCHANGED written
     \/ /\ context' = [context EXCEPT ![l] = {}]
        /\ Commit(filled)
  /\ UNCHANGED sealed

FillProducts(e) ==
  /\ pc[e] = "fill"
  /\ FillNoFlush(e) \/ FillAndFlush(e)
  /\ UNCHANGED <<kind, now, busy, next, lane, released, clock, queue, closed>>

\* Mutated: the task does not keep the callback.
PushFlushNoWait(e) ==
  /\ Goto(e, "push", "stop")
  /\ Queue!Submit(lane[e])
  /\ released' = released \cup {e}
  /\ UNCHANGED <<kind, now, busy, next, lane, clock, ntuple>>

\* the callback moves into the closure
PushFlush(e) ==
  /\ Goto(e, "push", "stop")
  /\ Queue!Submit(lane[e])
  /\ UNCHANGED <<kind, now, busy, next, lane, released, clock, ntuple>>

\* is the callback of the call in a closure, or was it?
Moved(e) == e \in released \/ \E l \in running \cup {queued[i] : i \in DOMAIN queued} :
                                lane[e] = l

Return(e) == released' = IF Moved(e) THEN released ELSE released \cup {e}

\* stopClock up to the end of the lock; a call that is not the last is done
StopClock(e) ==
  /\ nConcurrentCalls_' = nConcurrentCalls_ - 1
  /\ IF nConcurrentCalls_ = 1
       THEN /\ Goto(e, "stop", "add")
            /\ end' = [end EXCEPT ![e] = now]
            /\ wallclockStartTime_' = now
            /\ UNCHANGED released
       ELSE /\ Goto(e, "stop", "returned")
            /\ Return(e)
            /\ UNCHANGED <<end, wallclockStartTime_>>
  /\ UNCHANGED <<kind, now, busy, next, lane, wallclockTime_, start, queue, ntuple>>

\* wallclockTime_ += end - start, after the lock
AddTime(e) ==
  /\ Goto(e, "add", "returned")
  /\ wallclockTime_' = wallclockTime_ + (end[e] - start[e])
  /\ Return(e)
  /\ UNCHANGED <<kind, now, busy, next, lane, nConcurrentCalls_, wallclockStartTime_,
                 start, end, queue, ntuple>>

----------------------------------------------------------------------------
StartFlush ==
  /\ Queue!Begin
  /\ UNCHANGED <<kind, now, busy, next, lane, pc, released, clock, ntuple>>

\* FlushCluster has written the lane's cluster; the closure is destroyed and with
\* it the callback of the lane's call
FinishFlush ==
  /\ Queue!Complete
  /\ \E l \in running :
       /\ Commit(context[l])
       /\ context' = [context EXCEPT ![l] = {}]
       /\ released' = released \cup {e \in Events : lane[e] = l}
  /\ UNCHANGED <<kind, now, busy, next, lane, pc, clock, sealed, closed>>

\* printSummary, after the wait for all lanes: laneInfos_.clear() flushes what
\* the contexts still have
PrintSummary ==
  /\ ~closed
  /\ \A e \in Events : pc[e] = "returned" /\ e \in released
  /\ closed' = TRUE
  /\ context' = [l \in Lanes |-> {}]
  /\ Commit(UNION {context[l] : l \in Lanes})
  /\ UNCHANGED <<kind, now, busy, next, lane, pc, released, clock, queue, sealed>>

CallStep(e) == FillProducts(e) \/ PushFlush(e) \/ StopClock(e) \/ AddTime(e)

Finished == closed /\ UNCHANGED vars

Next == \/ Tick
        \/ \E l \in Lanes : Call(l)
        \/ \E e \in Events : CallStep(e)
        \/ StartFlush \/ FinishFlush
        \/ PrintSummary \/ Finished

Spec == Init /\ [][Next]_vars
----------------------------------------------------------------------------
\* the time that calls took, from each one's start to its end
TimeOf(calls, from, to) == MapThenSumSet(LAMBDA e : to[e] - from[e], calls)

\* "wallclock time at end event" (RNTupleAsyncOutputer.cc:128) is the time in
\* which at least one call was running: no period is lost or counted twice,
\* although a period may end while another call starts, the time is added after
\* the lock is given back, and each call goes by the start time it was told.
WallclockIsBusyTime ==
  wallclockTime_
    + TimeOf({e \in Events : pc[e] = "add"}, start, end)
    + (IF nConcurrentCalls_ > 0 THEN now - wallclockStartTime_ ELSE 0) = busy

\* The cluster that FlushCluster writes is the one FlushColumns sealed: the lane
\* fills nothing more while its flush waits or runs; and when the file is closed
\* every event is in it once.
ClustersAsSealed ==
  /\ \A l \in running \cup {queued[i] : i \in DOMAIN queued} : context[l] = sealed[l]
  /\ closed => \A e \in Events : written[e] = 1
=============================================================================
