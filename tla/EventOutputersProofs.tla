------------------------ MODULE EventOutputersProofs ------------------------
(***************************************************************************)
(* TLAPS proof about EventOutputers, for any numbers of lanes, events and  *)
(* data products, and any of the outputers: a record of the file is one    *)
(* event, and a closed file has all of them.                               *)
(***************************************************************************)
EXTENDS EventOutputers, FiniteSetTheorems, TLAPS

Whole(e) == [p \in Products |-> e]

Objects == [Products -> Int]
Calls == [lane : Lanes, id : Nat, buffer : Objects]
Entries == [id : Int, products : Objects]

Types == /\ next \in Nat
         /\ event \in [Lanes -> Int]
         /\ pc \in [Lanes -> {"next", "products", "output", "written"}]
         /\ objects \in [Lanes -> Objects] /\ blobs \in [Lanes -> Objects]
         /\ serialized \in [Lanes -> SUBSET Products]
         /\ queued \in Seq(Calls) /\ writing \in SUBSET Calls
         /\ firstTime_ \in BOOLEAN
         /\ file \in Seq(Entries)

\* What a lane has is all of its event while the outputer may read it.
LaneHoldsEvent ==
  \A l \in Lanes :
    /\ pc[l] \in {"products", "output"} => event[l] \in Nat /\ objects[l] = Whole(event[l])
    /\ pc[l] = "products" => \A p \in serialized[l] : blobs[l][p] = event[l]

\* A task of the queue is for the event its lane still has.
ForItsLane(t) == /\ pc[t.lane] = "output"
                 /\ t.id = event[t.lane]
                 /\ kind \in Serializing => t.buffer = Whole(t.id)

Pending == {queued[i] : i \in DOMAIN queued} \cup writing

TasksForTheirLanes == \A t \in Pending : ForItsLane(t)

\* A lane waits for one task only: letting go of its callback disturbs no other.
OneTaskPerLane ==
  /\ \A i, j \in DOMAIN queued : queued[i].lane = queued[j].lane => i = j
  /\ \A t \in writing : \A i \in DOMAIN queued : queued[i].lane # t.lane
  /\ \A t, u \in writing : t = u

BranchesOfTheTask == \A t \in writing : bound = t.lane /\ id_ = t.id

HeaderIsFirst == IF firstTime_ THEN file = <<>> ELSE Len(file) >= 1

IInv == /\ Types
        /\ LaneHoldsEvent
        /\ TasksForTheirLanes
        /\ OneTaskPerLane
        /\ BranchesOfTheTask
        /\ HeaderIsFirst
        /\ RecordsAreWholeEvents

\* The sequences a file begins as.
LEMMA ShortSequences ==
  ASSUME NEW S, NEW h \in S
  PROVE  /\ <<>> \in Seq(S) /\ <<h>> \in Seq(S) /\ Len(<<h>>) = 1
         /\ Append(<<>>, h) \in Seq(S) /\ Len(Append(<<>>, h)) = 1
OBVIOUS

LEMMA HeaderIsEntry == Header \in Entries
BY DEF Header, Entries, Objects, None

\* The invariant holds when the outputers have been set up.
LEMMA InitHolds == Init => IInv
<1> SUFFICES ASSUME Init PROVE IInv
  OBVIOUS
<1>1. queued = <<>> /\ writing = {} /\ DOMAIN queued = {} /\ Pending = {}
  BY DEF Init, Pending
<1>2. file = <<>> \/ (file = <<Header>> /\ Len(file) = 1)
  BY DEF Init
<1>3. Header \in Entries
  BY HeaderIsEntry
<1>4. Types
  <2>1. firstTime_ \in BOOLEAN
    BY DEF Init
  <2>2. file \in Seq(Entries)
    BY <1>2, <1>3, ShortSequences
  <2>3. queued \in Seq(Calls) /\ writing \in SUBSET Calls
    BY <1>1
  <2>4. /\ next \in Nat /\ event \in [Lanes -> Int]
        /\ pc \in [Lanes -> {"next", "products", "output", "written"}]
        /\ serialized \in [Lanes -> SUBSET Products]
    BY DEF Init, None
  <2>5. objects \in [Lanes -> Objects] /\ blobs \in [Lanes -> Objects]
    BY DEF Init, None, Objects
  <2>6. QED
    BY <2>1, <2>2, <2>3, <2>4, <2>5 DEF Types
<1>5. HeaderIsFirst
  <2>1. CASE kind \in HeaderInFirst
    BY <2>1 DEF Init, HeaderIsFirst
  <2>2. CASE kind \notin HeaderInFirst
    <3>1. ~firstTime_ /\ file = <<Header>>
      BY <2>2 DEF Init
    <3>2. QED
      BY <3>1 DEF HeaderIsFirst
  <2>3. QED
    BY <2>1, <2>2
<1>6. RecordsAreWholeEvents
  BY <1>2 DEF RecordsAreWholeEvents
<1>7. LaneHoldsEvent
  BY DEF Init, LaneHoldsEvent
<1>8. TasksForTheirLanes /\ OneTaskPerLane /\ BranchesOfTheTask
  BY <1>1 DEF TasksForTheirLanes, OneTaskPerLane, BranchesOfTheTask
<1>9. QED
  BY <1>4, <1>5, <1>6, <1>7, <1>8 DEF IInv

\* A lane takes an event: it waits for no task, so that nobody reads its objects.
LEMMA TakeEventKeeps == ASSUME IInv, NEW l \in Lanes, TakeEvent(l) PROVE IInv'
<1> USE DEF IInv, TakeEvent, Goto, queue, output
<1>1. Types'
  BY DEF Types, Objects
<1>2. LaneHoldsEvent'
  BY DEF LaneHoldsEvent, Types, Whole
<1>3. TasksForTheirLanes'
  <2>1. Pending' = Pending /\ Pending \subseteq Calls
    BY DEF Pending, Types
  <2>2. ASSUME NEW u \in Pending PROVE ForItsLane(u)'
    BY <2>1, <2>2 DEF TasksForTheirLanes, ForItsLane, Types, Calls, Whole
  <2>3. QED
    BY <2>1, <2>2 DEF TasksForTheirLanes
<1>4. OneTaskPerLane' /\ BranchesOfTheTask' /\ HeaderIsFirst' /\ RecordsAreWholeEvents'
  BY DEF OneTaskPerLane, BranchesOfTheTask, HeaderIsFirst, RecordsAreWholeEvents
<1>5. QED
  BY <1>1, <1>2, <1>3, <1>4

LEMMA SerializeProductKeeps ==
  ASSUME IInv, NEW l \in Lanes, NEW p \in Products, SerializeProduct(l, p) PROVE IInv'
<1> USE DEF IInv, SerializeProduct, lanes, queue, output
<1>1. Types'
  BY DEF Types, Objects
<1>2. LaneHoldsEvent'
  BY DEF LaneHoldsEvent, Types, Whole, Objects
<1>3. TasksForTheirLanes' /\ OneTaskPerLane' /\ BranchesOfTheTask'
  BY DEF TasksForTheirLanes, ForItsLane, Pending, Whole, OneTaskPerLane, BranchesOfTheTask
<1>4. HeaderIsFirst' /\ RecordsAreWholeEvents'
  BY DEF HeaderIsFirst, RecordsAreWholeEvents
<1>5. QED
  BY <1>1, <1>2, <1>3, <1>4

\* Pushing a task: what it carries, in both kinds of outputers, is the lane's event.
LEMMA PushKeeps ==
  ASSUME IInv, NEW l \in Lanes, NEW b \in Objects,
         Goto(l, "products", "output"), Push(l, b),
         kind \in Serializing => b = Whole(event[l]),
         UNCHANGED <<kind, next, event, objects, blobs, serialized, output, closed>>
  PROVE  IInv'
<1> DEFINE t == [lane |-> l, id |-> event[l], buffer |-> b]
<1> USE DEF IInv
<1>1. t \in Calls /\ pc[l] = "products"
  BY DEF Goto, LaneHoldsEvent, Calls, Types
<1>2. queued' = Append(queued, t) /\ writing' = writing
  BY DEF Push, Queue!Submit
<1>3. /\ Len(queued') = Len(queued) + 1 /\ DOMAIN queued = 1..Len(queued)
      /\ DOMAIN queued' = 1..(Len(queued) + 1) /\ Len(queued) \in Nat
      /\ \A i \in DOMAIN queued : queued'[i] = queued[i] /\ queued[i] \in Calls
      /\ queued'[Len(queued) + 1] = t
  BY <1>1, <1>2 DEF Types
<1>4. Types'
  BY <1>1, <1>2 DEF Types, output, Goto
<1>5. LaneHoldsEvent'
  BY DEF LaneHoldsEvent, Types, Goto, Whole
<1>6. Pending' \subseteq Pending \cup {t} /\ Pending \subseteq Calls
  <2>1. Pending \subseteq Calls
    BY <1>3 DEF Pending, Types
  <2>2. ASSUME NEW i \in DOMAIN queued' PROVE queued'[i] \in Pending \cup {t}
    <3>1. i \in DOMAIN queued \/ i = Len(queued) + 1
      BY <1>3
    <3>2. QED
      BY <3>1, <1>3 DEF Pending
  <2>3. QED
    BY <2>1, <2>2, <1>2 DEF Pending
<1>7. TasksForTheirLanes'
  <2>1. ForItsLane(t)'
    BY <1>1 DEF ForItsLane, Goto, Types, Whole
  <2>2. ASSUME NEW u \in Calls, ForItsLane(u) PROVE ForItsLane(u)'
    BY <2>2, <1>1 DEF ForItsLane, Goto, Types, Whole, Calls
  <2>3. QED
    BY <2>1, <2>2, <1>6 DEF TasksForTheirLanes
<1>8. OneTaskPerLane'
  <2> \A u \in Pending : u.lane # l
    BY <1>1 DEF TasksForTheirLanes, ForItsLane
  <2>1. \A i \in DOMAIN queued : queued[i].lane # l
    BY DEF Pending
  <2>2. \A u \in writing : u.lane # l
    BY DEF Pending
  <2>3. \A i, j \in DOMAIN queued' : queued'[i].lane = queued'[j].lane => i = j
    BY <2>1, <1>3 DEF OneTaskPerLane
  <2>4. \A u \in writing' : \A i \in DOMAIN queued' : queued'[i].lane # u.lane
    BY <2>2, <1>2, <1>3 DEF OneTaskPerLane
  <2>5. QED
    BY <2>3, <2>4, <1>2 DEF OneTaskPerLane
<1>9. BranchesOfTheTask' /\ HeaderIsFirst' /\ RecordsAreWholeEvents'
  BY SMTT(30), <1>2 DEF BranchesOfTheTask, HeaderIsFirst, RecordsAreWholeEvents, output
<1>10. QED
  BY <1>4, <1>5, <1>7, <1>8, <1>9

LEMMA OutputAsyncKeeps == ASSUME IInv, NEW l \in Lanes, OutputAsync(l) PROVE IInv'
<1>1. UNCHANGED <<kind, next, event, objects, blobs, serialized, output, closed>>
  BY DEF OutputAsync
<1>2. CASE OutputObjectsAsync(l)
  <2>1. kind \notin Serializing
    BY <1>2 DEF OutputObjectsAsync, Reading, Serializing
  <2>2. Header.products \in Objects
    BY DEF Header, Objects, None
  <2>3. QED
    BY <1>1, <1>2, <2>1, <2>2, PushKeeps DEF OutputObjectsAsync
<1>3. CASE OutputBufferAsync(l)
  <2>1. pc[l] = "products" /\ serialized[l] = Products
    BY <1>3 DEF OutputBufferAsync, Goto
  <2>2. blobs[l] \in Objects
    BY DEF IInv, Types
  <2>3. blobs[l] = Whole(event[l])
    BY <2>1, <2>2 DEF IInv, LaneHoldsEvent, Whole, Objects
  <2>4. QED
    BY <1>1, <1>3, <2>2, <2>3, PushKeeps DEF OutputBufferAsync
<1>4. QED
  BY <1>2, <1>3 DEF OutputAsync

LEMMA StartWriteKeeps == ASSUME IInv, StartWrite PROVE IInv'
<1> DEFINE t == Head(queued)
<1> USE DEF IInv
<1>1. /\ queued # <<>> /\ writing = {}
      /\ queued' = Tail(queued) /\ writing' = {t}
  BY DEF StartWrite, Queue!Begin
<1>2. UNCHANGED <<kind, lanes, blobs, serialized, firstTime_, file>>
  BY DEF StartWrite
<1>3. bound' = t.lane /\ id_' = t.id
  BY <1>1 DEF StartWrite
<1>4. /\ Len(queued) \in Nat \ {0} /\ t = queued[1] /\ t \in Calls
      /\ DOMAIN queued = 1..Len(queued) /\ DOMAIN queued' = 1..(Len(queued) - 1)
      /\ \A i \in 1..(Len(queued) - 1) : queued'[i] = queued[i + 1]
      /\ queued' \in Seq(Calls)
  BY <1>1 DEF Types
<1>5. Types'
  BY <1>1, <1>2, <1>4 DEF Types, lanes
<1>6. LaneHoldsEvent'
  BY <1>2 DEF LaneHoldsEvent, lanes
<1>7. TasksForTheirLanes'
  <2>1. ASSUME NEW u, ForItsLane(u) PROVE ForItsLane(u)'
    BY <2>1, <1>2 DEF ForItsLane, lanes
  <2>2. Pending' \subseteq Pending
    <3>1. \A i \in DOMAIN queued' : i + 1 \in DOMAIN queued /\ queued'[i] = queued[i + 1]
      BY <1>4
    <3>2. 1 \in DOMAIN queued
      BY <1>4
    <3>3. QED
      BY <3>1, <3>2, <1>1, <1>4 DEF Pending
  <2>3. QED
    BY <2>1, <2>2 DEF TasksForTheirLanes
<1>8. OneTaskPerLane'
  <2>1. ASSUME NEW i \in DOMAIN queued' PROVE
        /\ i \in Int /\ i + 1 \in DOMAIN queued /\ i + 1 # 1
        /\ queued'[i] = queued[i + 1] /\ 1 \in DOMAIN queued
    BY <1>4
  <2>2. ASSUME NEW i \in DOMAIN queued', NEW j \in DOMAIN queued',
               queued'[i].lane = queued'[j].lane
        PROVE  i = j
    <3>1. i + 1 = j + 1
      BY <2>1, <2>2 DEF OneTaskPerLane
    <3>2. QED
      BY <3>1, <2>1
  <2>3. \A i \in DOMAIN queued' : queued'[i].lane # t.lane
    BY <2>1, <1>4 DEF OneTaskPerLane
  <2>4. QED
    BY <2>2, <2>3, <1>1 DEF OneTaskPerLane
<1>9. BranchesOfTheTask'
  BY <1>1, <1>3 DEF BranchesOfTheTask
<1>10. HeaderIsFirst' /\ RecordsAreWholeEvents'
  BY <1>2 DEF HeaderIsFirst, RecordsAreWholeEvents
<1>11. QED
  BY <1>5, <1>6, <1>7, <1>8, <1>9, <1>10

\* The record that is written is the task's event, from its buffer or from the
\* objects of the lane, which is still waiting.
LEMMA RecordIsWhole ==
  ASSUME IInv, NEW t \in writing
  PROVE  /\ Record(t).id = t.id /\ t.id \in Nat
         /\ Record(t).products = Whole(t.id)
         /\ Record(t) \in Entries
<1>1. t \in Calls /\ ForItsLane(t) /\ bound = t.lane /\ id_ = t.id
  BY DEF IInv, Types, TasksForTheirLanes, Pending, BranchesOfTheTask
<1>2. t.lane \in Lanes /\ t.id \in Nat
  BY <1>1 DEF Calls
<1>3. objects[t.lane] = Whole(t.id)
  BY <1>1, <1>2 DEF IInv, LaneHoldsEvent, ForItsLane
<1>4. (IF kind \in Serializing THEN t.buffer ELSE objects[bound]) = Whole(t.id)
  BY <1>1, <1>3 DEF ForItsLane
<1>5. Whole(t.id) \in Objects
  BY <1>2 DEF Whole, Objects
<1>6. QED
  BY <1>1, <1>2, <1>4, <1>5 DEF Record, Entries

LEMMA FinishWriteKeeps == ASSUME IInv, FinishWrite PROVE IInv'
<1>1. /\ writing # {} /\ writing' = {} /\ queued' = queued
      /\ UNCHANGED <<kind, next, event, objects, blobs, serialized>>
  BY DEF FinishWrite, Queue!Complete
<1>2. PICK t \in writing : Write(t) /\ pc' = [pc EXCEPT ![t.lane] = "written"]
  BY DEF FinishWrite
<1> DEFINE r == Record(t)
           before == IF firstTime_ THEN Append(file, Header) ELSE file
<1>3. /\ r.id = t.id /\ t.id \in Nat /\ r.products = Whole(t.id) /\ r \in Entries
  BY RecordIsWhole
<1>4. t \in Calls /\ t.lane \in Lanes
  BY DEF IInv, Types, Calls
<1>5. file' = before \o <<r>> /\ firstTime_' = FALSE
  BY <1>2 DEF Write
<1>6. /\ before \in Seq(Entries) /\ Len(before) \in Nat /\ Len(before) >= 1
      /\ \A i \in 2..Len(before) :
           before[i].id # None /\ before[i].products = [p \in Products |-> before[i].id]
  <2>1. file \in Seq(Entries) /\ firstTime_ \in BOOLEAN /\ HeaderIsFirst /\ RecordsAreWholeEvents
    BY DEF IInv, Types
  <2>2. CASE firstTime_
    <3>1. Header \in Entries
      BY HeaderIsEntry
    <3>2. file = <<>> /\ before = Append(<<>>, Header)
      BY <2>1, <2>2 DEF HeaderIsFirst
    <3>3. before \in Seq(Entries) /\ Len(before) = 1
      BY <3>1, <3>2, ShortSequences
    <3>4. QED
      BY <3>3
  <2>3. CASE ~firstTime_
    <3>1. before = file /\ Len(file) >= 1
      BY <2>1, <2>3 DEF HeaderIsFirst
    <3>2. QED
      BY <2>1, <3>1 DEF RecordsAreWholeEvents
  <2>4. QED
    BY <2>1, <2>2, <2>3
<1> HIDE DEF before, r
<1>7. /\ file' \in Seq(Entries) /\ Len(file') = Len(before) + 1
      /\ \A i \in 1..Len(before) : file'[i] = before[i]
      /\ file'[Len(before) + 1] = r
  BY <1>3, <1>5, <1>6
<1>8. RecordsAreWholeEvents'
  <2> SUFFICES ASSUME NEW i \in 2..Len(file')
               PROVE  /\ file'[i].id # None
                      /\ file'[i].products = [p \in Products |-> file'[i].id]
    BY DEF RecordsAreWholeEvents
  <2>1. CASE i \in 2..Len(before)
    <3>1. file'[i] = before[i]
      BY <2>1, <1>6, <1>7
    <3>2. QED
      BY <2>1, <3>1, <1>6
  <2>2. CASE i = Len(before) + 1
    BY <2>2, <1>3, <1>7 DEF Whole, None
  <2>3. QED
    BY <2>1, <2>2, <1>6, <1>7
<1>9. HeaderIsFirst'
  BY <1>5, <1>6, <1>7 DEF HeaderIsFirst
<1>10. Types'
  BY <1>1, <1>2, <1>4, <1>5, <1>7 DEF IInv, Types
<1>11. LaneHoldsEvent'
  BY <1>1, <1>2, <1>4 DEF IInv, Types, LaneHoldsEvent, Whole
<1>12. TasksForTheirLanes'
  <2> SUFFICES ASSUME NEW u \in Pending' PROVE ForItsLane(u)'
    BY DEF TasksForTheirLanes
  <2>1. PICK i \in DOMAIN queued : u = queued[i]
    BY <1>1 DEF Pending
  <2>2. u \in Calls /\ ForItsLane(u) /\ u.lane # t.lane
    BY <2>1 DEF IInv, Types, TasksForTheirLanes, Pending, OneTaskPerLane
  <2>3. pc'[u.lane] = pc[u.lane]
    BY <2>2, <1>2 DEF IInv, Types, Calls
  <2>4. QED
    BY <2>2, <2>3, <1>1 DEF ForItsLane, Whole
<1>13. OneTaskPerLane' /\ BranchesOfTheTask'
  BY <1>1 DEF IInv, OneTaskPerLane, BranchesOfTheTask
<1>14. QED
  BY <1>8, <1>9, <1>10, <1>11, <1>12, <1>13 DEF IInv

LEMMA NextEventKeeps == ASSUME IInv, NEW l \in Lanes, NextEvent(l) PROVE IInv'
<1> USE DEF IInv, NextEvent, Goto, queue, output
<1>1. Types'
  BY DEF Types
<1>2. LaneHoldsEvent'
  BY DEF LaneHoldsEvent, Types, Whole
<1>3. TasksForTheirLanes'
  <2>1. Pending' = Pending /\ Pending \subseteq Calls
    BY DEF Pending, Types
  <2>2. ASSUME NEW u \in Pending PROVE ForItsLane(u)'
    BY <2>1, <2>2 DEF TasksForTheirLanes, ForItsLane, Types, Calls, Whole
  <2>3. QED
    BY <2>1, <2>2 DEF TasksForTheirLanes
<1>4. OneTaskPerLane' /\ BranchesOfTheTask' /\ HeaderIsFirst' /\ RecordsAreWholeEvents'
  BY DEF OneTaskPerLane, BranchesOfTheTask, HeaderIsFirst, RecordsAreWholeEvents
<1>5. QED
  BY <1>1, <1>2, <1>3, <1>4

\* Steps that change none of the variables the invariant is about.
LEMMA OtherStepsKeep ==
  ASSUME IInv, UNCHANGED <<kind, lanes, blobs, serialized, queue, output>> PROVE IInv'
<1> USE DEF IInv, lanes, queue, output
<1>1. Types'
  BY DEF Types
<1>2. LaneHoldsEvent'
  BY DEF LaneHoldsEvent, Whole
<1>3. TasksForTheirLanes'
  <2>1. Pending' = Pending
    BY DEF Pending
  <2>2. ASSUME NEW u \in Pending PROVE ForItsLane(u)'
    BY DEF TasksForTheirLanes, ForItsLane, Whole
  <2>3. QED
    BY <2>1, <2>2 DEF TasksForTheirLanes
<1>4. OneTaskPerLane' /\ BranchesOfTheTask' /\ HeaderIsFirst' /\ RecordsAreWholeEvents'
  BY DEF OneTaskPerLane, BranchesOfTheTask, HeaderIsFirst, RecordsAreWholeEvents
<1>5. QED
  BY <1>1, <1>2, <1>3, <1>4

LEMMA NextKeeps == IInv /\ [Next]_vars => IInv'
<1> SUFFICES ASSUME IInv, [Next]_vars PROVE IInv'
  OBVIOUS
<1>1. CASE StartWrite
  BY <1>1, StartWriteKeeps
<1>2. CASE FinishWrite
  BY <1>2, FinishWriteKeeps
<1>3. ASSUME NEW l \in Lanes, LaneStep(l) PROVE IInv'
  BY <1>3, TakeEventKeeps, SerializeProductKeeps, OutputAsyncKeeps, NextEventKeeps
     DEF LaneStep
<1>4. CASE PrintSummary
  BY <1>4, OtherStepsKeep DEF PrintSummary
<1>5. CASE UNCHANGED vars
  BY <1>5, OtherStepsKeep DEF vars
<1>6. QED
  BY <1>1, <1>2, <1>3, <1>4, <1>5 DEF Next

\* A record of the file has the data products and the identifier of one event, for
\* any number of lanes, although no lock keeps a lane's objects and serializers
\* from being used for its next event while the queue has its last one.
THEOREM WholeEvents == Spec => []RecordsAreWholeEvents
<1>1. IInv => RecordsAreWholeEvents
  BY DEF IInv
<1>2. QED
  BY <1>1, InitHolds, NextKeeps, PTL DEF Spec

----------------------------------------------------------------------------
\* A lane that has an event which is not in the file.
Busy(l) == pc[l] \in {"products", "output"}

Taken == 0..(next - 1)
Rows == 2..Len(file)

\* An event is with one lane or in one row.
NotTwice ==
  /\ \A l \in Lanes : Busy(l) => event[l] \in Taken /\ \A i \in Rows : file[i].id # event[l]
  /\ \A k, l \in Lanes : Busy(k) /\ Busy(l) /\ event[k] = event[l] => k = l
  /\ \A i \in Rows : file[i].id \in Taken
  /\ \A i, j \in Rows : file[i].id = file[j].id => i = j

NoneLost == \A e \in Taken : \/ \E l \in Lanes : Busy(l) /\ event[l] = e
                             \/ \E i \in Rows : file[i].id = e

Begins == ~firstTime_ => file[1] = Header

ClosedIsDone == closed => next = NEvents /\ \A l \in Lanes : pc[l] = "next"

Complete == /\ IInv
            /\ next <= NEvents
            /\ NotTwice /\ NoneLost /\ Begins /\ ClosedIsDone

LEMMA CompleteInit == ASSUME NEvents \in Nat PROVE Init => Complete
<1> SUFFICES ASSUME Init PROVE Complete
  OBVIOUS
<1>1. IInv
  BY InitHolds
<1>2. Len(file) <= 1 /\ Len(file) \in Nat /\ (~firstTime_ => file[1] = Header)
  <2>1. CASE kind \in HeaderInFirst
    <3>1. firstTime_ /\ file = <<>>
      BY <2>1 DEF Init
    <3>2. QED
      BY <3>1
  <2>2. CASE kind \notin HeaderInFirst
    <3>1. file = <<Header>>
      BY <2>2 DEF Init
    <3>2. QED
      BY <3>1
  <2>3. QED
    BY <2>1, <2>2
<1>3. Rows = {} /\ Taken = {} /\ \A l \in Lanes : ~Busy(l)
  BY <1>2 DEF Init, Rows, Taken, Busy
<1>4. NotTwice /\ NoneLost
  BY <1>3 DEF NotTwice, NoneLost
<1>5. Begins /\ ClosedIsDone /\ next <= NEvents
  BY <1>2 DEF Init, Begins, ClosedIsDone
<1>6. QED
  BY <1>1, <1>4, <1>5 DEF Complete

\* Steps by which no lane gets an event and none is written.
LEMMA SameEventsKeep ==
  ASSUME Complete, IInv', UNCHANGED <<next, event, file, firstTime_, closed>>,
         \A l \in Lanes : Busy(l)' <=> Busy(l), closed => UNCHANGED pc
  PROVE  Complete'
<1> USE DEF Complete
<1>1. Taken' = Taken /\ Rows' = Rows
  BY DEF Taken, Rows
<1>2. NotTwice' /\ NoneLost'
  BY <1>1 DEF NotTwice, NoneLost
<1>3. Begins' /\ ClosedIsDone'
  BY DEF Begins, ClosedIsDone
<1>4. QED
  BY <1>2, <1>3

LEMMA TakeEventCompletes ==
  ASSUME Complete, NEvents \in Nat, NEW l \in Lanes, TakeEvent(l) PROVE Complete'
<1> USE DEF Complete
<1>1. /\ pc[l] = "next" /\ pc' = [pc EXCEPT ![l] = "products"]
      /\ next < NEvents /\ next' = next + 1 /\ event' = [event EXCEPT ![l] = next]
      /\ UNCHANGED <<file, firstTime_, closed>>
      /\ next \in Nat
  BY DEF TakeEvent, Goto, output, IInv, Types
<1>2. IInv'
  BY TakeEventKeeps
<1>3. Taken' = Taken \cup {next} /\ next \notin Taken /\ Rows' = Rows
  BY <1>1 DEF Taken, Rows
<1>4. /\ Busy(l)' /\ event'[l] = next /\ ~Busy(l)
      /\ \A k \in Lanes \ {l} : event'[k] = event[k] /\ (Busy(k)' <=> Busy(k))
  BY <1>1 DEF Busy, IInv, Types
<1>5. NotTwice'
  <2>1. \A k \in Lanes : Busy(k)' => /\ event'[k] \in Taken'
                                     /\ \A i \in Rows : file[i].id # event'[k]
    BY <1>3, <1>4 DEF NotTwice
  <2>2. \A j, k \in Lanes : Busy(j)' /\ Busy(k)' /\ event'[j] = event'[k] => j = k
    BY <1>3, <1>4 DEF NotTwice
  <2>3. QED
    BY <1>1, <1>3, <2>1, <2>2 DEF NotTwice
<1>6. NoneLost'
  <2> SUFFICES ASSUME NEW e \in Taken \cup {next}
               PROVE  \/ \E k \in Lanes : Busy(k)' /\ event'[k] = e
                      \/ \E i \in Rows : file[i].id = e
    BY <1>1, <1>3 DEF NoneLost
  <2>1. CASE e = next
    BY <1>4, <2>1
  <2>2. CASE e \in Taken
    BY <1>4, <2>2 DEF NoneLost
  <2>3. QED
    BY <2>1, <2>2
<1>7. Begins' /\ ClosedIsDone' /\ next' <= NEvents
  BY <1>1 DEF Begins, ClosedIsDone
<1>8. QED
  BY <1>2, <1>5, <1>6, <1>7

\* The record that the queue's task writes is of the event of its lane, which has it
\* no longer.
LEMMA FinishWriteCompletes == ASSUME Complete, FinishWrite PROVE Complete'
<1> USE DEF Complete
<1>1. UNCHANGED <<next, event, closed>>
  BY DEF FinishWrite
<1>2. PICK t \in writing : Write(t) /\ pc' = [pc EXCEPT ![t.lane] = "written"]
  BY DEF FinishWrite
<1> DEFINE r == Record(t)
           before == IF firstTime_ THEN Append(file, Header) ELSE file
<1>3. r.id = t.id /\ r \in Entries
  BY RecordIsWhole
<1>4. PICK l \in Lanes : l = t.lane /\ pc[l] = "output" /\ t.id = event[l]
  BY DEF IInv, Types, Calls, TasksForTheirLanes, Pending, ForItsLane
<1>5. /\ file' = before \o <<r>> /\ firstTime_' = FALSE
      /\ before \in Seq(Entries) /\ Len(before) \in Nat /\ Len(before) >= 1
      /\ \A i \in Rows : before[i] = file[i]
      /\ 2..Len(before) = Rows /\ before[1] = Header
  <2>1. file \in Seq(Entries) /\ firstTime_ \in BOOLEAN /\ HeaderIsFirst
    BY DEF IInv, Types
  <2>2. CASE firstTime_
    <3>1. Header \in Entries
      BY HeaderIsEntry
    <3>2. file = <<>> /\ before = Append(<<>>, Header) /\ before = <<Header>>
      BY <2>1, <2>2 DEF HeaderIsFirst
    <3>3. before \in Seq(Entries) /\ Len(before) = 1 /\ before[1] = Header
      BY <3>1, <3>2, ShortSequences
    <3>4. Rows = {}
      BY <3>2 DEF Rows
    <3>5. QED
      BY <1>2, <3>3, <3>4 DEF Write
  <2>3. CASE ~firstTime_
    <3>1. before = file /\ Len(file) >= 1
      BY <2>1, <2>3 DEF HeaderIsFirst
    <3>2. QED
      BY <1>2, <2>1, <2>3, <3>1 DEF Write, Rows, Begins
  <2>4. QED
    BY <2>1, <2>2, <2>3
<1> HIDE DEF before, r
<1>6. /\ Len(file') = Len(before) + 1
      /\ file'[Len(before) + 1] = r
      /\ \A i \in 1..Len(before) : file'[i] = before[i]
  BY <1>3, <1>5
<1>7. PICK n \in Nat : n = Len(before) + 1 /\ n \notin Rows
  BY <1>5
<1>8. /\ Rows' = Rows \cup {n} /\ file'[n].id = event[l]
      /\ \A i \in Rows : file'[i] = file[i]
  BY <1>3, <1>4, <1>5, <1>6, <1>7 DEF Rows
<1>9. /\ Busy(l) /\ ~Busy(l)'
      /\ \A k \in Lanes \ {l} : Busy(k)' <=> Busy(k)
  BY <1>2, <1>4 DEF Busy, IInv, Types
<1>10. IInv'
  BY FinishWriteKeeps
<1>11. Taken' = Taken
  BY <1>1 DEF Taken
<1>12. NotTwice'
  <2>1. \A k \in Lanes : Busy(k)' => /\ event[k] \in Taken
                                     /\ \A i \in Rows' : file'[i].id # event[k]
    BY <1>8, <1>9 DEF NotTwice
  <2>2. \A j, k \in Lanes : Busy(j)' /\ Busy(k)' /\ event[j] = event[k] => j = k
    BY <1>9 DEF NotTwice
  <2>3. \A i \in Rows' : file'[i].id \in Taken
    BY <1>8, <1>9 DEF NotTwice
  <2>4. \A i, j \in Rows' : file'[i].id = file'[j].id => i = j
    BY <1>8, <1>9 DEF NotTwice
  <2>5. QED
    BY <1>1, <1>11, <2>1, <2>2, <2>3, <2>4 DEF NotTwice
<1>13. NoneLost'
  <2> SUFFICES ASSUME NEW e \in Taken
               PROVE  \/ \E k \in Lanes : Busy(k)' /\ event[k] = e
                      \/ \E i \in Rows' : file'[i].id = e
    BY <1>1, <1>11 DEF NoneLost
  <2>1. CASE e = event[l]
    BY <1>8, <2>1
  <2>2. CASE e # event[l]
    BY <1>8, <1>9, <2>2 DEF NoneLost
  <2>3. QED
    BY <2>1, <2>2
<1>14. Begins'
  BY <1>5, <1>6 DEF Begins
<1>15. ClosedIsDone' /\ next' <= NEvents
  BY <1>1, <1>4 DEF ClosedIsDone
<1>16. QED
  BY <1>10, <1>12, <1>13, <1>14, <1>15

LEMMA CompleteNext == ASSUME NEvents \in Nat PROVE Complete /\ [Next]_vars => Complete'
<1> SUFFICES ASSUME Complete, [Next]_vars PROVE Complete'
  OBVIOUS
<1>1. IInv'
  BY NextKeeps DEF Complete
<1>2. CASE StartWrite
  BY <1>1, <1>2, SameEventsKeep DEF StartWrite, lanes, Busy
<1>3. CASE FinishWrite
  BY <1>3, FinishWriteCompletes
<1>4. ASSUME NEW l \in Lanes, LaneStep(l) PROVE Complete'
  <2>1. CASE TakeEvent(l)
    BY <2>1, TakeEventCompletes
  <2>2. CASE \E p \in Products : SerializeProduct(l, p)
    BY <1>1, <2>2, SameEventsKeep DEF SerializeProduct, lanes, output, Busy
  <2>3. CASE OutputAsync(l)
    <3>1. pc[l] = "products" /\ pc' = [pc EXCEPT ![l] = "output"]
      BY <2>3 DEF OutputAsync, OutputObjectsAsync, OutputBufferAsync, Goto
    <3>2. \A k \in Lanes : Busy(k)' <=> Busy(k)
      BY <3>1 DEF Busy, Complete, IInv, Types
    <3>3. ~closed
      BY <3>1 DEF Complete, ClosedIsDone
    <3>4. QED
      BY <1>1, <2>3, <3>2, <3>3, SameEventsKeep DEF OutputAsync, output
  <2>4. CASE NextEvent(l)
    <3>1. pc[l] = "written" /\ pc' = [pc EXCEPT ![l] = "next"]
      BY <2>4 DEF NextEvent, Goto
    <3>2. \A k \in Lanes : Busy(k)' <=> Busy(k)
      BY <3>1 DEF Busy, Complete, IInv, Types
    <3>3. ~closed
      BY <3>1 DEF Complete, ClosedIsDone
    <3>4. QED
      BY <1>1, <2>4, <3>2, <3>3, SameEventsKeep DEF NextEvent, output
  <2>5. QED
    BY <1>4, <2>1, <2>2, <2>3, <2>4 DEF LaneStep
<1>5. CASE PrintSummary
  <2>1. /\ next = NEvents /\ \A l \in Lanes : pc[l] = "next"
        /\ UNCHANGED <<next, pc, event, file, firstTime_>>
    BY <1>5 DEF PrintSummary, lanes, output
  <2>2. Taken' = Taken /\ Rows' = Rows /\ \A l \in Lanes : Busy(l)' <=> Busy(l)
    BY <2>1 DEF Taken, Rows, Busy
  <2>3. NotTwice' /\ NoneLost' /\ Begins' /\ ClosedIsDone' /\ next' <= NEvents
    BY <2>1, <2>2 DEF Complete, NotTwice, NoneLost, Begins, ClosedIsDone
  <2>4. QED
    BY <1>1, <2>3 DEF Complete
<1>6. CASE UNCHANGED vars
  BY <1>1, <1>6, SameEventsKeep DEF vars, lanes, output, Busy
<1>7. QED
  BY <1>2, <1>3, <1>4, <1>5, <1>6 DEF Next

\* The rows of a closed file are the events, one for one, so that their number is
\* that of the events.
LEMMA CompleteIsComplete ==
  ASSUME NEvents \in Nat \ {0} PROVE Complete => FileIsComplete
<1> SUFFICES ASSUME Complete, closed
             PROVE  /\ Len(file) = NEvents + 1
                    /\ file[1] = Header
                    /\ {file[i].id : i \in 2..Len(file)} = Events
  BY DEF FileIsComplete
<1> USE DEF Complete
<1>1. Taken = Events /\ \A l \in Lanes : ~Busy(l)
  BY DEF ClosedIsDone, Taken, Events, Busy
<1>2. file \in Seq(Entries) /\ Len(file) \in Nat /\ firstTime_ \in BOOLEAN
  BY DEF IInv, Types
<1>3. {file[i].id : i \in Rows} = Events
  BY <1>1 DEF NotTwice, NoneLost
<1>4. Len(file) >= 2 /\ file[1] = Header
  <2>1. 0 \in Events
    BY DEF Events
  <2>2. PICK i \in Rows : file[i].id = 0
    BY <1>3, <2>1
  <2>3. Len(file) >= 2
    BY <1>2, <2>2 DEF Rows
  <2>4. file # <<>>
    BY <2>3
  <2>5. QED
    BY <1>2, <2>3, <2>4 DEF IInv, HeaderIsFirst, Begins
<1>5. Cardinality(Rows) = Len(file) - 1 /\ IsFiniteSet(Rows)
  BY <1>2, <1>4, FS_Interval DEF Rows
<1>6. Cardinality(Events) = NEvents /\ IsFiniteSet(Events)
  BY FS_Interval DEF Events
<1> DEFINE row == [i \in Rows |-> file[i].id]
<1>7. row \in Bijection(Rows, Events)
  <2>1. row \in [Rows -> Events]
    BY <1>3
  <2>2. \A i, j \in Rows : row[i] = row[j] => i = j
    BY DEF NotTwice
  <2>3. \A e \in Events : \E i \in Rows : row[i] = e
    BY <1>3
  <2>4. QED
    BY <2>1, <2>2, <2>3 DEF Bijection, Injection, Surjection, IsInjective
<1> HIDE DEF row
<1>8. Cardinality(Rows) = Cardinality(Events)
  BY <1>5, <1>6, <1>7, FS_Bijection DEF ExistsBijection
<1>9. QED
  BY <1>2, <1>3, <1>4, <1>5, <1>6, <1>8 DEF Rows

\* A closed file describes itself first and has every event of the job in one record,
\* in all six outputers; in a job with no event two of them write nothing at all.
THEOREM FilesAreComplete ==
  ASSUME NEvents \in Nat \ {0} PROVE Spec => []FileIsComplete
<1>1. NEvents \in Nat
  OBVIOUS
<1>2. QED
  BY <1>1, CompleteInit, CompleteNext, CompleteIsComplete, PTL DEF Spec

----------------------------------------------------------------------------
\* TypeOK says more of the contents than Types: nothing but events of the job, and
\* None before the first one, gets into an object, a blob or a buffer.
Narrow == /\ next \in 0..NEvents
          /\ event \in [Lanes -> Events \cup {None}]
          /\ objects \in [Lanes -> Contents] /\ blobs \in [Lanes -> Contents]
          /\ queued \in Seq(Closures) /\ writing \subseteq Closures
          /\ bound \in Lanes \cup {None} /\ id_ \in Events \cup {None}

LEMMA NarrowInit == ASSUME NEvents \in Nat, Init PROVE Narrow
<1>1. \A S : <<>> \in Seq(S)
  OBVIOUS
<1>2. objects \in [Lanes -> Contents] /\ blobs \in [Lanes -> Contents]
  BY DEF Init, Contents
<1>3. QED
  BY <1>1, <1>2 DEF Init, Narrow

LEMMA NarrowNext == ASSUME NEvents \in Nat, IInv, Narrow, [Next]_vars PROVE Narrow'
<1> USE DEF Narrow
<1>1. ASSUME NEW l \in Lanes, TakeEvent(l) PROVE Narrow'
  <2>1. next \in Events /\ next' \in 0..NEvents
    BY <1>1 DEF TakeEvent, Events
  <2>2. [p \in Products |-> next] \in Contents
    BY <2>1 DEF Contents
  <2>3. event' \in [Lanes -> Events \cup {None}] /\ objects' \in [Lanes -> Contents]
    BY <1>1, <2>1, <2>2 DEF TakeEvent
  <2>4. QED
    BY <1>1, <2>1, <2>3 DEF TakeEvent, queue, output
<1>2. ASSUME NEW l \in Lanes, NEW p \in Products, SerializeProduct(l, p) PROVE Narrow'
  <2>1. objects[l][p] \in Events \cup {None} /\ blobs[l] \in Contents
    BY DEF Contents
  <2>2. [blobs[l] EXCEPT ![p] = objects[l][p]] \in Contents
    BY <2>1 DEF Contents
  <2>3. blobs' = [blobs EXCEPT ![l] = [blobs[l] EXCEPT ![p] = objects[l][p]]]
    BY <1>2 DEF SerializeProduct
  <2>4. blobs' \in [Lanes -> Contents]
    BY <2>2, <2>3
  <2>5. QED
    BY <1>2, <2>4 DEF SerializeProduct, lanes, queue, output
<1>3. ASSUME NEW l \in Lanes, OutputAsync(l) PROVE Narrow'
  <2>1. event[l] \in Events
    <3>1. event[l] \in Nat
      BY <1>3 DEF OutputAsync, OutputObjectsAsync, OutputBufferAsync, Goto, IInv,
                  LaneHoldsEvent
    <3>2. QED
      BY <3>1 DEF None
  <2>2. PICK buffer \in Contents : Push(l, buffer)
    <3>1. Header.products \in Contents /\ blobs[l] \in Contents
      BY DEF Header, Contents
    <3>2. QED
      BY <1>3, <3>1 DEF OutputAsync, OutputObjectsAsync, OutputBufferAsync
  <2>3. PICK t \in Closures : t = [lane |-> l, id |-> event[l], buffer |-> buffer]
    BY <2>1 DEF Closures
  <2>4. queued' = Append(queued, t) /\ writing' = writing
    BY <2>2, <2>3 DEF Push, Queue!Submit
  <2>5. queued' \in Seq(Closures)
    BY <2>4
  <2>6. QED
    BY <1>3, <2>4, <2>5 DEF OutputAsync, output
<1>4. ASSUME NEW l \in Lanes, NextEvent(l) PROVE Narrow'
  BY <1>4 DEF NextEvent, queue, output
<1>5. CASE StartWrite
  <2>1. /\ queued # <<>> /\ queued' = Tail(queued) /\ writing' = {Head(queued)}
    BY <1>5 DEF StartWrite, Queue!Begin
  <2>2. Head(queued) \in Closures /\ queued' \in Seq(Closures)
    BY <2>1
  <2>3. bound' \in Lanes \cup {None} /\ id_' \in Events \cup {None}
    BY <1>5, <2>1, <2>2 DEF StartWrite, Closures
  <2>4. QED
    BY <1>5, <2>1, <2>2, <2>3 DEF StartWrite, lanes
<1>6. CASE FinishWrite
  BY <1>6 DEF FinishWrite, Queue!Complete
<1>7. CASE PrintSummary \/ UNCHANGED vars
  BY <1>7 DEF PrintSummary, vars, lanes, queue, output
<1>8. QED
  BY <1>1, <1>2, <1>3, <1>4, <1>5, <1>6, <1>7 DEF Next, LaneStep

\* A file has no more rows than there are events, and what describes it.
LEMMA TypesImplied ==
  ASSUME NEvents \in Nat, Complete, Narrow PROVE TypeOK
<1> USE DEF Complete
<1>1. file \in Seq(Entries) /\ Len(file) \in Nat /\ writing \in SUBSET Calls
  BY DEF IInv, Types
<1>2. IsFiniteSet(Rows) /\ (Len(file) >= 2 => Cardinality(Rows) = Len(file) - 1)
  BY <1>1, FS_Interval DEF Rows
<1>3. next \in Nat /\ IsFiniteSet(Taken) /\ Cardinality(Taken) = next
  BY FS_Interval DEF Taken, IInv, Types
<1> DEFINE row == [i \in Rows |-> file[i].id]
<1>4. row \in Injection(Rows, Taken)
  BY DEF NotTwice, Injection, IsInjective
<1> HIDE DEF row
<1>5. Cardinality(Rows) <= Cardinality(Taken)
  BY <1>3, <1>4, FS_Injection
<1>6. Len(file) <= NEvents + 1
  BY <1>1, <1>2, <1>3, <1>5
<1>7. Cardinality(writing) <= 1
  <2>1. CASE writing = {}
    BY <2>1, FS_EmptySet
  <2>2. CASE writing # {}
    <3>1. PICK t \in writing : writing = {t}
      BY <2>2 DEF IInv, OneTaskPerLane
    <3>2. Cardinality({t}) = 1
      BY FS_Singleton
    <3>3. QED
      BY <3>1, <3>2
  <2>3. QED
    BY <2>1, <2>2
<1>8. QED
  BY <1>6, <1>7 DEF IInv, Types, Narrow, TypeOK

\* What lanes, queue, branches and file contain keeps its type, and the file has at
\* most one row for an event, in all six outputers.
THEOREM TypeCorrect == ASSUME NEvents \in Nat PROVE Spec => []TypeOK
<1>1. Init => Complete /\ Narrow
  BY CompleteInit, NarrowInit
<1>2. Complete /\ Narrow /\ [Next]_vars => (Complete /\ Narrow)'
  BY CompleteNext, NarrowNext DEF Complete
<1>3. Complete /\ Narrow => TypeOK
  BY TypesImplied
<1>4. QED
  BY <1>1, <1>2, <1>3, PTL DEF Spec
=============================================================================
