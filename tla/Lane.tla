-------------------------------- MODULE Lane --------------------------------
(***************************************************************************)
(* The event loop of threaded_io_test.cc: main gives every lane a          *)
(* tbb::task_group and a task that calls Lane::processEventsAsync, and     *)
(* waits for the groups one after the other.  A lane takes the next event  *)
(* index, lets the source read it, asks for every data product, waits,     *)
(* lets the outputer see the products and the event, and starts over.      *)
(* Nothing but TaskHolder reference counts (TaskHolder.h) orders all this. *)
(*                                                                         *)
(* holds[l] is the set of pairs <<owner, task>>: an object (a FunctorTask, *)
(* a lambda given to a group, a local variable of a running function, or   *)
(* an operation of the source, waiter or outputer) that owns a TaskHolder  *)
(* to a task.  The task's refCount_ is the number of such pairs; when the  *)
(* last one goes away the task is given to the lane's group.  The lambdas  *)
(* of Lane.cc are not mutable, so their std::move of a captured holder     *)
(* copies it: the captured holder lives until the task object is deleted.  *)
(*                                                                         *)
(* The source, waiter and outputer appear as operations that take a holder *)
(* and release it at some later time.                                      *)
(***************************************************************************)
EXTENDS Integers, FiniteSets

CONSTANTS NLanes,            \* "# concurrent events"
          NEvents,           \* maxNEvents_ of the source
          InSource,          \* how many events the source really has
          NProducts,         \* data products of an event
          SyncSource,        \* a ReplicatedSharedSource (runNow) or a shared one
          UseWaiter,         \* a waiter is configured
          UsesProductReady   \* outputer.usesProductReadyAsync()

ASSUME LaneAssumption == /\ NLanes \in Nat \ {0}
                         /\ {NEvents, InSource, NProducts} \subseteq Nat
                         /\ {SyncSource, UseWaiter, UsesProductReady} \subseteq BOOLEAN

Lanes == 0..(NLanes - 1)
Events == 0..(NEvents + NLanes - 1)   \* every index that can be handed out
Products == 1..NProducts

\* The objects of one lane.
Start == <<"start", 0, 0>>     \* the lambda main gives to the group
Final == <<"final", 0, 0>>     \* finalTask
Handle == <<"handle", 0, 0>>   \* the empty task made by group.defer
Read(e) == <<"read", e, 0>>    \* processEventTask
NextTask(e) == <<"next", e, 0>>         \* recursiveTask
Out(e) == <<"out", e, 0>>               \* holder of processEventAsync
Output(e) == <<"output", e, 0>>         \* outputer.outputAsync at work
Fetch(e, p) == <<"fetch", e, p>>        \* the source's getAsync at work
WaitTask(e, p) == <<"wait", e, p>>      \* makeWaiterTask
Sleep(e, p) == <<"sleep", e, p>>        \* the lambda of waitAsync
Ready(e, p) == <<"ready", e, p>>        \* makeTaskForDataProduct
Serialize(e, p) == <<"serialize", e, p>>  \* productReadyAsync at work

ProductKinds == {"fetch", "wait", "sleep", "ready", "serialize"}

VARIABLES index,              \* ievt, std::atomic<long>
          presentEventIndex,  \* per lane
          asked,              \* products processEventAsync has asked for
          holds,              \* the TaskHolders of each lane
          pending,            \* what each lane's group has yet to run
          active,             \* tasks being executed by the group
          external,           \* operations of source and outputer
          nested,             \* <<caller, event task run by runNow inside it>>
          deferred,           \* the group's deferred handle is still alive
          main,               \* lanes launched plus groups waited for
          finals,             \* history: runs of each lane's final task
          outputs             \* history: outputAsync calls with each index

vars == <<index, presentEventIndex, asked, holds, pending, active, external,
          nested, deferred, main, finals, outputs>>

Objects == {Start, Final, Handle}
           \cup {<<k, e, 0>> : k \in {"read", "next", "out", "output"}, e \in Events}
           \cup {<<k, e, p>> : k \in ProductKinds, e \in Events, p \in Products}

TypeOK == /\ index \in 0..(NEvents + NLanes)
          /\ presentEventIndex \in [Lanes -> Events \cup {-1}]
          /\ asked \in [Lanes -> 0..NProducts]
          /\ \A l \in Lanes : /\ holds[l] \subseteq Objects \X Objects
                              /\ pending[l] \subseteq Objects
                              /\ active[l] \subseteq Objects
                              /\ external[l] \subseteq Objects
                              /\ nested[l] \subseteq Objects \X Objects
          /\ deferred \in [Lanes -> BOOLEAN]
          /\ main \in 0..(2 * NLanes)
          /\ finals \in [Lanes -> Nat]
          /\ outputs \in [Events -> Nat]

Init == /\ index = 0
        /\ presentEventIndex = [l \in Lanes |-> -1]
        /\ asked = [l \in Lanes |-> 0]
        /\ holds = [l \in Lanes |-> {}]
        /\ pending = [l \in Lanes |-> {}]
        /\ active = [l \in Lanes |-> {}]
        /\ external = [l \in Lanes |-> {}]
        /\ nested = [l \in Lanes |-> {}]
        /\ deferred = [l \in Lanes |-> FALSE]
        /\ main = 0
        /\ finals = [l \in Lanes |-> 0]
        /\ outputs = [e \in Events |-> 0]

----------------------------------------------------------------------------
\* TaskHolder, FunctorTask and task_group
Add(f, l, S) == [f EXCEPT ![l] = @ \cup S]
Remove(f, l, S) == [f EXCEPT ![l] = @ \ S]

Targets(H) == {h[2] : h \in H}
HeldBy(l, o) == {h[2] : h \in {x \in holds[l] : x[1] = o}}

\* ~TaskHolder for the pairs in H: a task nobody holds any more is run.
DropHolders(l, H, run) ==
  /\ holds' = Remove(holds, l, H)
  /\ pending' = [pending EXCEPT ![l] =
                   (@ \ run) \cup (Targets(H) \ Targets(holds[l] \ H))]

\* Object o is deleted, and with it the holders it owns.
Delete(l, o, run) == DropHolders(l, {h \in holds[l] : h[1] = o}, run)

\* The group takes o up; o gives a copy of its captured holder to the new
\* operation op, and is itself alive until DeleteTask.
RunWithCopy(l, o, op) ==
  /\ o \in pending[l]
  /\ active' = Add(active, l, {o})
  /\ holds' = Add(holds, l, {op} \X HeldBy(l, o))

----------------------------------------------------------------------------
\* main

\* Mutated: finalTask without the deferred handle.
LaunchNoDefer ==
  /\ main < NLanes
  /\ main' = main + 1
  /\ holds' = Add(holds, main, {<<Start, Final>>})
  /\ pending' = Add(pending, main, {Start})
  /\ UNCHANGED <<index, presentEventIndex, asked, active, external, nested, deferred,
                 finals, outputs>>

\* one turn of the for loop over the lanes
Launch ==
  /\ main < NLanes
  /\ main' = main + 1
  /\ holds' = Add(holds, main, {<<Start, Final>>})
  /\ pending' = Add(pending, main, {Start})
  /\ deferred' = [deferred EXCEPT ![main] = TRUE]
  /\ UNCHANGED <<index, presentEventIndex, asked, active, external, nested,
                 finals, outputs>>

\* tbb::task_group::wait returns: everything given to the group has finished,
\* and no deferred task of it exists
GroupDone(l) == pending[l] = {} /\ active[l] = {} /\ ~deferred[l]

WaitReturns ==
  /\ main \in NLanes..(2 * NLanes - 1)
  /\ GroupDone(main - NLanes)
  /\ main' = main + 1
  /\ UNCHANGED <<index, presentEventIndex, asked, holds, pending, active,
                 external, nested, deferred, finals, outputs>>

----------------------------------------------------------------------------
\* Lane::doNextEvent, called by the task o (Start or a recursiveTask)

\* the index and the test of the source; an event task holds finalTask and
\* goes to the source, which either runs it at once inside this call or keeps it
TakeIndex(l, o, limit) ==
  /\ o \in pending[l]
  /\ o[1] \in {"start", "next"}
  /\ presentEventIndex' = [presentEventIndex EXCEPT ![l] = index]
  /\ index' = index + 1
  /\ pending' = Remove(pending, l, {o})
  /\ active' = Add(active, l, {o})
  /\ \/ /\ index < limit
        /\ holds' = Add(holds, l, {<<Read(index), Final>>})
        /\ external' = Add(external, l, {Read(index)})
        /\ nested' = IF SyncSource THEN Add(nested, l, {<<o, Read(index)>>}) ELSE nested
     \/ /\ index >= limit
        /\ UNCHANGED <<holds, external, nested>>
  /\ UNCHANGED <<asked, deferred, main, finals, outputs>>

\* Mutated: the test of mayBeAbleToGoToEvent keeps one index too many away.
DoOneTooFew(l, o) == TakeIndex(l, o, NEvents - 1)

DoNextEvent(l, o) == TakeIndex(l, o, NEvents)

\* the source has the event: runNow, or doneWaiting of the released holder
SourceReads(l, e) ==
  /\ Read(e) \in external[l]
  /\ e < InSource
  /\ external' = Remove(external, l, {Read(e)})
  /\ pending' = Add(pending, l, {Read(e)})
  /\ UNCHANGED <<index, presentEventIndex, asked, holds, active, nested,
                 deferred, main, finals, outputs>>

\* Mutated: the source keeps the OptionalTaskHolder.
SourceEndsKeepsTask(l, e) ==
  /\ Read(e) \in external[l]
  /\ e >= InSource
  /\ external' = Remove(external, l, {Read(e)})
  /\ nested' = [nested EXCEPT ![l] = {x \in @ : x[2] # Read(e)}]
  /\ UNCHANGED <<index, presentEventIndex, asked, holds, pending, active,
                 deferred, main, finals, outputs>>

\* Mutated: the source may give up at its last event.
SourceEndsEarly(l, e) ==
  /\ Read(e) \in external[l]
  /\ e >= InSource - 1
  /\ external' = Remove(external, l, {Read(e)})
  /\ nested' = [nested EXCEPT ![l] = {x \in @ : x[2] # Read(e)}]
  /\ Delete(l, Read(e), {})
  /\ UNCHANGED <<index, presentEventIndex, asked, active, deferred, main,
                 finals, outputs>>

\* the source has no such event: the OptionalTaskHolder is destroyed
SourceEnds(l, e) ==
  /\ Read(e) \in external[l]
  /\ e >= InSource
  /\ external' = Remove(external, l, {Read(e)})
  /\ nested' = [nested EXCEPT ![l] = {x \in @ : x[2] # Read(e)}]
  /\ Delete(l, Read(e), {})
  /\ UNCHANGED <<index, presentEventIndex, asked, active, deferred, main,
                 finals, outputs>>

----------------------------------------------------------------------------
\* the functor of processEventTask and Lane::processEventAsync
BeginProcess(l, e) ==
  /\ Read(e) \in pending[l]
  /\ pending' = Remove(pending, l, {Read(e)})
  /\ active' = Add(active, l, {Read(e)})
  /\ asked' = [asked EXCEPT ![l] = 0]
  /\ holds' = Add(holds, l, {<<NextTask(e), Final>>,
                             <<Out(e), NextTask(e)>>,
                             <<Read(e), Out(e)>>})
  /\ UNCHANGED <<index, presentEventIndex, external, nested, deferred, main,
                 finals, outputs>>

\* d.getAsync(makeTaskForDataProduct(...)) for the product after those asked for
AskFor(l, e, p) ==
  LET afterWait == IF UsesProductReady THEN Ready(e, p) ELSE Out(e)
      first == IF UseWaiter THEN WaitTask(e, p) ELSE afterWait
  IN /\ <<Read(e), Out(e)>> \in holds[l]
     /\ asked' = [asked EXCEPT ![l] = p]
     /\ external' = Add(external, l, {Fetch(e, p)})
     /\ holds' = Add(holds, l,
                     {<<Fetch(e, p), first>>}
                     \cup (IF UseWaiter THEN {<<first, afterWait>>} ELSE {})
                     \cup (IF UsesProductReady THEN {<<afterWait, Out(e)>>} ELSE {}))
     /\ UNCHANGED <<index, presentEventIndex, pending, active, nested,
                    deferred, main, finals, outputs>>

\* Mutated: the loop goes one beyond the last product.
AskForOneMore(l, e) == asked[l] <= NProducts /\ AskFor(l, e, asked[l] + 1)

AskForProduct(l, e) == asked[l] < NProducts /\ AskFor(l, e, asked[l] + 1)

\* processEventAsync returns: its local variable holder goes out of scope
EndProcess(l, e) ==
  /\ <<Read(e), Out(e)>> \in holds[l]
  /\ asked[l] = NProducts
  /\ DropHolders(l, {<<Read(e), Out(e)>>}, {})
  /\ UNCHANGED <<index, presentEventIndex, asked, active, external, nested,
                 deferred, main, finals, outputs>>

----------------------------------------------------------------------------
\* the tasks of a data product and of the event

\* an operation of the source or of the outputer releases its holder
OperationDone(l, o) ==
  /\ o \in external[l]
  /\ o[1] \in {"fetch", "serialize", "output"}
  /\ external' = Remove(external, l, {o})
  /\ Delete(l, o, {})
  /\ UNCHANGED <<index, presentEventIndex, asked, active, nested, deferred,
                 main, finals, outputs>>

\* Mutated: the waiter's lambda does not capture the callback.
RunWaitWithoutCallback(l, e, p) ==
  /\ WaitTask(e, p) \in pending[l]
  /\ active' = Add(active, l, {WaitTask(e, p)})
  /\ pending' = [pending EXCEPT ![l] = (@ \ {WaitTask(e, p)}) \cup {Sleep(e, p)}]
  /\ UNCHANGED <<index, presentEventIndex, asked, holds, external, nested,
                 deferred, main, finals, outputs>>

\* waiter_->waitAsync(...), which gives a lambda to the group
RunWait(l, e, p) ==
  /\ RunWithCopy(l, WaitTask(e, p), Sleep(e, p))
  /\ pending' = [pending EXCEPT ![l] = (@ \ {WaitTask(e, p)}) \cup {Sleep(e, p)}]
  /\ UNCHANGED <<index, presentEventIndex, asked, external, nested, deferred,
                 main, finals, outputs>>

\* the lambda of waitAsync comes to its end
SleepDone(l, e, p) ==
  /\ Sleep(e, p) \in pending[l]
  /\ Delete(l, Sleep(e, p), {Sleep(e, p)})
  /\ UNCHANGED <<index, presentEventIndex, asked, active, external, nested,
                 deferred, main, finals, outputs>>

\* outputer.productReadyAsync(...)
RunReady(l, e, p) ==
  /\ RunWithCopy(l, Ready(e, p), Serialize(e, p))
  /\ pending' = Remove(pending, l, {Ready(e, p)})
  /\ external' = Add(external, l, {Serialize(e, p)})
  /\ UNCHANGED <<index, presentEventIndex, asked, nested, deferred, main,
                 finals, outputs>>

\* Mutated: the outputer does not keep the callback while it works.
RunOutWithoutCallback(l, e) ==
  /\ Out(e) \in pending[l]
  /\ active' = Add(active, l, {Out(e)})
  /\ pending' = Remove(pending, l, {Out(e)})
  /\ external' = Add(external, l, {Output(e)})
  /\ outputs' = [outputs EXCEPT ![presentEventIndex[l]] = @ + 1]
  /\ UNCHANGED <<index, presentEventIndex, asked, holds, nested, deferred, main,
                 finals>>

\* outputer.outputAsync(...), with the lane's presentEventIndex_ of now
RunOut(l, e) ==
  /\ RunWithCopy(l, Out(e), Output(e))
  /\ pending' = Remove(pending, l, {Out(e)})
  /\ external' = Add(external, l, {Output(e)})
  /\ outputs' = [outputs EXCEPT ![presentEventIndex[l]] = @ + 1]
  /\ UNCHANGED <<index, presentEventIndex, asked, nested, deferred, main, finals>>

\* the function of finalTask: group.run(std::move(task))
RunFinal(l) ==
  /\ Final \in pending[l]
  /\ pending' = [pending EXCEPT ![l] = (@ \ {Final}) \cup {Handle}]
  /\ deferred' = [deferred EXCEPT ![l] = FALSE]
  /\ finals' = [finals EXCEPT ![l] = @ + 1]
  /\ UNCHANGED <<index, presentEventIndex, asked, holds, active, external,
                 nested, main, outputs>>

RunHandle(l) ==
  /\ Handle \in pending[l]
  /\ pending' = Remove(pending, l, {Handle})
  /\ UNCHANGED <<index, presentEventIndex, asked, holds, active, external,
                 nested, deferred, main, finals, outputs>>

\* t->execute() has returned: delete t.  A task that called a synchronous
\* source returns after the event task that ran inside it; an event task
\* returns after processEventAsync.
DeleteTask(l, o) ==
  /\ o \in active[l]
  /\ \A x \in nested[l] : x[1] # o
  /\ <<o, Out(o[2])>> \notin holds[l] \/ o[1] # "read"
  /\ active' = Remove(active, l, {o})
  /\ nested' = [nested EXCEPT ![l] = {x \in @ : x[2] # o}]
  /\ Delete(l, o, {})
  /\ UNCHANGED <<index, presentEventIndex, asked, external, deferred, main,
                 finals, outputs>>

----------------------------------------------------------------------------
ProductStep(l) == \E e \in Events, p \in Products : \/ RunWait(l, e, p)
                                                    \/ SleepDone(l, e, p)
                                                    \/ RunReady(l, e, p)

EventStep(l) == \E e \in Events : \/ SourceReads(l, e)
                                  \/ SourceEnds(l, e)
                                  \/ BeginProcess(l, e)
                                  \/ AskForProduct(l, e)
                                  \/ EndProcess(l, e)
                                  \/ RunOut(l, e)

LaneStep(l) == \/ \E o \in pending[l] : DoNextEvent(l, o)
               \/ EventStep(l)
               \/ ProductStep(l)
               \/ \E o \in external[l] : OperationDone(l, o)
               \/ RunFinal(l)
               \/ RunHandle(l)
               \/ \E o \in active[l] : DeleteTask(l, o)

Finished == main = 2 * NLanes /\ UNCHANGED vars

Next == \/ Launch
        \/ WaitReturns
        \/ \E l \in Lanes : LaneStep(l)
        \/ Finished

Spec == Init /\ [][Next]_vars

\* As long as anything can run, something does: the threads of the arena run
\* what a group has to run, main is one of them while it waits, and source,
\* waiter and outputer come to the end of what they are asked.
FairSpec == Spec /\ WF_vars(Next)

----------------------------------------------------------------------------
Live(l) == pending[l] \cup active[l] \cup external[l] \cup Targets(holds[l])

\* A lane works on one event at a time, although every task of an event reads
\* the lane's presentEventIndex_, its data products and its serializers with no
\* lock (Lane.cc:25-28, 51-52): while any of them is alive, the lane has not
\* gone on to another event.
OneEventPerLane ==
  \A l \in Lanes : \A o \in Live(l) :
    o[1] \in ProductKinds \cup {"out", "output"} => o[2] = presentEventIndex[l]

\* outputAsync is called once every product of the event has been asked for,
\* retrieved, waited upon and made ready, in whatever order those end
\* ("Process order", Lane.cc:46).
OutputAfterProducts ==
  \A l \in Lanes, e \in Events :
    Out(e) \in pending[l] \cup active[l] \/ Output(e) \in external[l]
      => /\ asked[l] = NProducts
         /\ \A o \in Live(l) : o[1] \in ProductKinds => o[2] # e

\* "be sure all groups have fully finished" (threaded_io_test.cc:173): when the
\* wait for a lane's group has returned nothing of the lane is left, not even
\* a callback in the hands of the source or of the outputer, and its final
\* task ran once.
WaitedMeansFinished ==
  \A l \in Lanes : main > NLanes + l => /\ Live(l) = {}
                                        /\ holds[l] = {}
                                        /\ finals[l] = 1

Readable == {e \in Events : e < NEvents /\ e < InSource}

\* "each lane will go 1 beyond the # events" (threaded_io_test.cc:181): at the
\* end, ievt minus the lanes is the number of events written, and these are
\* the events of the source up to the limit, each written exactly once.
EveryEventOnce ==
  main = 2 * NLanes => /\ index - NLanes = Cardinality(Readable)
                       /\ \A e \in Events : outputs[e] = IF e \in Readable THEN 1 ELSE 0

\* All lanes come to their end and main returns from every wait.
AllLanesFinish == <>(main = 2 * NLanes)
=============================================================================
