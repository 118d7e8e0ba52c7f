------------------- MODULE TBufferMergerRootOutputerProofs -------------------
(***************************************************************************)
(* TLAPS proofs about TBufferMergerRootOutputer, for any number of lanes,  *)
(* any events and any bytes they take, any autoFlush_ and any value the    *)
(* counter may begin with: an event is merged once, the counter comes      *)
(* back, and a lane that was told to write has written.                    *)
(***************************************************************************)
EXTENDS TBufferMergerRootOutputer, FiniteSetTheorems, TLAPS

\* What the parameters are: numbers.
Parameters == /\ NLanes \in Nat /\ NEvents \in Nat
              /\ AutoFlushes \subseteq Int /\ Sizes \subseteq Int /\ Garbage \subseteq Int

Types == /\ TypeOK
         /\ autoFlush_ \in Int /\ concurrentWrite_ \in BOOLEAN /\ initial \in Int
         /\ bytes \in [Lanes -> Int] /\ nBytesWrittenSinceLastWrite_ \in [Lanes -> Int]
         /\ wasTold \in [Lanes -> BOOLEAN]

\* An event that was filled is merged or with one lane.
InFile(e) == merged[e] = 1 /\ \A l \in Lanes : e \notin buffer[l]
InMemory(e) == /\ merged[e] = 0
               /\ \E l \in Lanes : e \in buffer[l] /\ \A k \in Lanes \ {l} : e \notin buffer[k]
Nowhere(e) == merged[e] = 0 /\ \A l \in Lanes : e \notin buffer[l]

OnePlace == \A e \in Events : IF e < next THEN InFile(e) \/ InMemory(e) ELSE Nowhere(e)

ClosedAreEmpty == \A l \in Lanes : pc[l] = "closed" => buffer[l] = {}

\* A lane waits while the queue has its task, of which there is one.
TasksOfWaitingLanes ==
  /\ \A i \in DOMAIN queued : pc[queued[i]] = "queued" /\ queued[i] \notin running
  /\ \A i, j \in DOMAIN queued : queued[i] = queued[j] => i = j
  /\ \A l \in running : pc[l] = "queued" /\ \A k \in running : k = l

\* The flag of a lane that was told is not taken back before the lane writes.
ToldUntilWritten ==
  autoFlush_ > 0 => \A l \in Lanes : wasTold[l] =>
    /\ pc[l] \in {"count", "reset", "tell", "check"} => shouldWrite_[l]
    /\ pc[l] = "next" => buffer[l] = {}

\* The count of bytes is set back before they are written, and else it is right.
BytesCounted ==
  autoFlush_ < 0 => \A l \in Lanes :
    /\ nBytesWrittenSinceLastWrite_[l] = 0 \/ l \notin running
    /\ nBytesWrittenSinceLastWrite_[l] = bytes[l] \/ l \in running \/ pc[l] = "closed"
    /\ pc[l] = "next" => bytes[l] <= -1 * autoFlush_

IInv == /\ Types
        /\ OnePlace /\ ClosedAreEmpty
        /\ TasksOfWaitingLanes
        /\ CountComesBack
        /\ ToldUntilWritten /\ BytesCounted

LEMMA InitHolds == ASSUME Parameters PROVE Init => IInv
<1> SUFFICES ASSUME Init PROVE IInv
  OBVIOUS
<1> USE DEF Init, Parameters
<1>1. Types
  BY DEF Types, TypeOK, Lanes, Events
<1>2. OnePlace
  BY DEF OnePlace, Nowhere, Events
<1>3. ClosedAreEmpty /\ TasksOfWaitingLanes
  BY DEF ClosedAreEmpty, TasksOfWaitingLanes
<1>4. CountComesBack
  BY DEF CountComesBack
<1>5. ToldUntilWritten /\ BytesCounted
  BY DEF ToldUntilWritten, BytesCounted
<1>6. QED
  BY <1>1, <1>2, <1>3, <1>4, <1>5 DEF IInv

\* The queue's part, while the queue does nothing and no waiting lane goes on.
LEMMA QueueUntouched ==
  ASSUME Types, TasksOfWaitingLanes, UNCHANGED queue,
         \A l \in Lanes : pc[l] = "queued" => pc'[l] = "queued"
  PROVE  TasksOfWaitingLanes'
<1>1. queued' = queued /\ running' = running /\ running \subseteq Lanes
  BY DEF queue, Types, TypeOK
<1>2. \A i \in DOMAIN queued : queued[i] \in Lanes
  BY DEF Types, TypeOK
<1>3. QED
  BY <1>1, <1>2 DEF TasksOfWaitingLanes

\* A lane fills its next event, which was nowhere before.
LEMMA FillKeeps == ASSUME Parameters, IInv, NEW l \in Lanes, Fill(l) PROVE IInv'
<1> USE DEF IInv, Types, TypeOK, Parameters
<1>1. /\ pc[l] = "next" /\ next \in Events /\ next' = next + 1
      /\ pc' = [pc EXCEPT ![l] = IF autoFlush_ < 0 THEN "check" ELSE "count"]
      /\ buffer' = [buffer EXCEPT ![l] = @ \cup {next}]
      /\ wasTold' = [wasTold EXCEPT ![l] = shouldWrite_[l]]
      /\ UNCHANGED <<autoFlush_, concurrentWrite_, initial, numberEventsSinceLastWrite_,
                     shouldWrite_, telling, queued, running, merged>>
  BY DEF Fill, Goto, Events, parameters, flags, queue
<1>2. PICK size \in IF autoFlush_ < 0 THEN Sizes ELSE {0} :
        /\ bytes' = [bytes EXCEPT ![l] = @ + size]
        /\ nBytesWrittenSinceLastWrite_' = [nBytesWrittenSinceLastWrite_ EXCEPT ![l] = @ + size]
  BY DEF Fill
<1> size \in Int
  OBVIOUS
<1>3. Types'
  <2>1. next' \in 0..NEvents
    BY <1>1 DEF Events
  <2>2. buffer' \in [Lanes -> SUBSET Events]
    BY <1>1
  <2>3. bytes' \in [Lanes -> Int] /\ nBytesWrittenSinceLastWrite_' \in [Lanes -> Int]
    BY <1>2
  <2>4. pc' \in [Lanes -> {"next", "count", "reset", "tell", "check", "write",
                           "queued", "closed"}]
    BY <1>1
  <2>5. wasTold' \in [Lanes -> BOOLEAN]
    BY <1>1
  <2>6. QED
    BY <1>1, <2>1, <2>2, <2>3, <2>4, <2>5
<1>4. OnePlace'
  <2> SUFFICES ASSUME NEW e \in Events
               PROVE  IF e < next' THEN (InFile(e) \/ InMemory(e))' ELSE Nowhere(e)'
    BY DEF OnePlace, Events
  <2>1. CASE e = next
    BY <1>1, <2>1 DEF OnePlace, Nowhere, InMemory, Events
  <2>2. CASE e # next
    <3>1. merged'[e] = merged[e] /\ \A k \in Lanes : e \in buffer'[k] <=> e \in buffer[k]
      BY <1>1, <2>2
    <3>2. e < next' <=> e < next
      BY <1>1, <2>2 DEF Events
    <3>3. QED
      BY <3>1, <3>2 DEF OnePlace, Nowhere, InMemory, InFile
  <2>3. QED
    BY <2>1, <2>2
<1>5. ClosedAreEmpty'
  BY <1>1 DEF ClosedAreEmpty
<1>6. TasksOfWaitingLanes'
  BY <1>1, QueueUntouched DEF queue
<1>7. CountComesBack'
  BY <1>1 DEF CountComesBack
<1>8. ToldUntilWritten'
  BY <1>1 DEF ToldUntilWritten
<1>9. BytesCounted'
  <2>1. l \notin running
    BY <1>1 DEF TasksOfWaitingLanes
  <2>2. QED
    BY <1>1, <1>2, <2>1 DEF BytesCounted
<1>10. QED
  BY <1>3, <1>4, <1>5, <1>6, <1>7, <1>8, <1>9

\* A step of a lane that is with an event, between Fill and the decision, or that
\* decides to write at once: it moves no event and no task.
LEMMA EventsStay ==
  ASSUME Types, OnePlace, ClosedAreEmpty, UNCHANGED <<next, buffer, merged>>,
         \A l \in Lanes : pc'[l] = "closed" => pc[l] = "closed"
  PROVE  OnePlace' /\ ClosedAreEmpty'
BY DEF OnePlace, ClosedAreEmpty, InFile, InMemory, Nowhere

LEMMA CountKeeps == ASSUME IInv, NEW l \in Lanes, Count(l) PROVE IInv'
<1> USE DEF IInv, Types, TypeOK
<1>1. /\ pc[l] = "count"
      /\ pc' = [pc EXCEPT ![l] = IF numberEventsSinceLastWrite_ + 1 = autoFlush_
                                 THEN "reset" ELSE "check"]
      /\ numberEventsSinceLastWrite_' = numberEventsSinceLastWrite_ + 1
      /\ UNCHANGED <<autoFlush_, concurrentWrite_, initial, next, shouldWrite_, telling,
                     buffer, bytes, nBytesWrittenSinceLastWrite_, wasTold, queued, running,
                     merged>>
  BY DEF Count, Goto, parameters, memory, queue
<1>2. Types'
  BY <1>1
<1>3. OnePlace' /\ ClosedAreEmpty'
  BY <1>1, EventsStay
<1>4. TasksOfWaitingLanes'
  BY <1>1, QueueUntouched DEF queue
<1>5. CountComesBack'
  <2> SUFFICES ASSUME autoFlush_ > 0, initial < autoFlush_,
                      numberEventsSinceLastWrite_ + 1 >= autoFlush_
               PROVE  \E k \in Lanes : pc'[k] = "reset"
    BY <1>1 DEF CountComesBack
  <2>1. CASE numberEventsSinceLastWrite_ + 1 = autoFlush_
    BY <1>1, <2>1
  <2>2. CASE numberEventsSinceLastWrite_ + 1 # autoFlush_
    <3>1. PICK k \in Lanes : pc[k] = "reset"
      BY <2>2 DEF CountComesBack
    <3>2. QED
      BY <1>1, <3>1
  <2>3. QED
    BY <2>1, <2>2
<1>6. ToldUntilWritten' /\ BytesCounted'
  BY <1>1 DEF ToldUntilWritten, BytesCounted
<1>7. QED
  BY <1>2, <1>3, <1>4, <1>5, <1>6

LEMMA ResetKeeps == ASSUME IInv, NEW l \in Lanes, Reset(l) PROVE IInv'
<1> USE DEF IInv, Types, TypeOK
<1>1. /\ pc[l] = "reset" /\ pc' = [pc EXCEPT ![l] = "tell"]
      /\ numberEventsSinceLastWrite_' = 0
      /\ telling' = [telling EXCEPT ![l] = Lanes]
      /\ UNCHANGED <<autoFlush_, concurrentWrite_, initial, next, shouldWrite_,
                     buffer, bytes, nBytesWrittenSinceLastWrite_, wasTold, queued, running,
                     merged>>
  BY DEF Reset, Goto, parameters, memory, queue
<1>2. Types'
  BY <1>1 DEF Lanes
<1>3. OnePlace' /\ ClosedAreEmpty'
  BY <1>1, EventsStay
<1>4. TasksOfWaitingLanes'
  BY <1>1, QueueUntouched DEF queue
<1>5. CountComesBack'
  BY <1>1 DEF CountComesBack
<1>6. ToldUntilWritten' /\ BytesCounted'
  BY <1>1 DEF ToldUntilWritten, BytesCounted
<1>7. QED
  BY <1>2, <1>3, <1>4, <1>5, <1>6

LEMMA TellKeeps == ASSUME IInv, NEW l \in Lanes, Tell(l) PROVE IInv'
<1> USE DEF IInv, Types, TypeOK
<1>1. PICK k \in Lanes : /\ k \in telling[l]
                         /\ shouldWrite_' = [shouldWrite_ EXCEPT ![k] = TRUE]
                         /\ telling' = [telling EXCEPT ![l] = @ \ {k}]
                         /\ pc' = [pc EXCEPT ![l] = IF telling[l] = {k} THEN "check" ELSE "tell"]
  BY DEF Tell
<1>2. /\ pc[l] = "tell"
      /\ UNCHANGED <<autoFlush_, concurrentWrite_, initial, next, numberEventsSinceLastWrite_,
                     buffer, bytes, nBytesWrittenSinceLastWrite_, wasTold, queued, running,
                     merged>>
  BY DEF Tell, parameters, memory, queue
<1>3. Types'
  BY <1>1, <1>2
<1>4. OnePlace' /\ ClosedAreEmpty'
  BY <1>1, <1>2, EventsStay
<1>5. TasksOfWaitingLanes'
  BY <1>1, <1>2, QueueUntouched DEF queue
<1>6. CountComesBack'
  BY <1>1, <1>2 DEF CountComesBack
<1>7. ToldUntilWritten' /\ BytesCounted'
  BY <1>1, <1>2 DEF ToldUntilWritten, BytesCounted
<1>8. QED
  BY <1>3, <1>4, <1>5, <1>6, <1>7

\* The decision to write: the queue takes the lane's task and the lane waits.
LEMMA CheckKeeps == ASSUME IInv, NEW l \in Lanes, Check(l) PROVE IInv'
<1> USE DEF IInv, Types, TypeOK
<1>1. /\ pc[l] = "check"
      /\ UNCHANGED <<autoFlush_, concurrentWrite_, initial, next, numberEventsSinceLastWrite_,
                     shouldWrite_, telling, buffer, bytes, nBytesWrittenSinceLastWrite_,
                     wasTold, merged>>
  BY DEF Check, NothingToWrite, WriteAtOnce, PushWrite, Goto, parameters, flags, memory
<1>2. CASE NothingToWrite(l)
  <2>1. pc' = [pc EXCEPT ![l] = "next"] /\ queued' = queued /\ running' = running
    BY <1>2 DEF NothingToWrite, Goto, queue
  <2>2. ~MustWrite(l)
    BY <1>2 DEF NothingToWrite
  <2>3. Types'
    BY <1>1, <2>1
  <2>4. OnePlace' /\ ClosedAreEmpty'
    BY <1>1, <2>1, EventsStay
  <2>5. TasksOfWaitingLanes'
    BY <1>1, <2>1, QueueUntouched DEF queue
  <2>6. CountComesBack'
    BY <1>1, <2>1 DEF CountComesBack
  <2>7. ToldUntilWritten'
    BY <1>1, <2>1, <2>2 DEF ToldUntilWritten, MustWrite
  <2>8. BytesCounted'
    <3>1. l \notin running
      BY <1>1 DEF TasksOfWaitingLanes
    <3>2. ASSUME autoFlush_ < 0 PROVE bytes[l] <= -1 * autoFlush_
      <4>1. nBytesWrittenSinceLastWrite_[l] = bytes[l]
        BY <1>1, <3>1, <3>2 DEF BytesCounted
      <4>2. ~(nBytesWrittenSinceLastWrite_[l] > -1 * autoFlush_)
        BY <2>2, <3>2 DEF MustWrite
      <4>3. bytes[l] \in Int /\ -1 * autoFlush_ \in Int
        OBVIOUS
      <4>4. QED
        BY <4>1, <4>2, <4>3
    <3>3. QED
      BY <1>1, <2>1, <3>2 DEF BytesCounted
  <2>9. QED
    BY <2>3, <2>4, <2>5, <2>6, <2>7, <2>8
<1>3. CASE WriteAtOnce(l)
  <2>1. pc' = [pc EXCEPT ![l] = "write"] /\ queued' = queued /\ running' = running
    BY <1>3 DEF WriteAtOnce, Goto, queue
  <2>2. Types'
    BY <1>1, <2>1
  <2>3. OnePlace' /\ ClosedAreEmpty'
    BY <1>1, <2>1, EventsStay
  <2>4. TasksOfWaitingLanes'
    BY <1>1, <2>1, QueueUntouched DEF queue
  <2>5. CountComesBack' /\ ToldUntilWritten' /\ BytesCounted'
    BY <1>1, <2>1 DEF CountComesBack, ToldUntilWritten, BytesCounted
  <2>6. QED
    BY <2>2, <2>3, <2>4, <2>5
<1>4. CASE PushWrite(l)
  <2>1. pc' = [pc EXCEPT ![l] = "queued"] /\ queued' = Append(queued, l) /\ running' = running
    BY <1>4 DEF PushWrite, Goto, Queue!Submit
  <2>2. Types'
    BY <1>1, <2>1
  <2>3. OnePlace' /\ ClosedAreEmpty'
    BY <1>1, <2>1, EventsStay
  <2>4. TasksOfWaitingLanes'
    <3>1. /\ DOMAIN queued = 1..Len(queued) /\ DOMAIN queued' = 1..(Len(queued) + 1)
          /\ Len(queued) \in Nat
          /\ \A i \in DOMAIN queued : queued'[i] = queued[i] /\ queued[i] \in Lanes
          /\ queued'[Len(queued) + 1] = l
      BY <2>1
    <3>2. l \notin running /\ \A i \in DOMAIN queued : queued[i] # l
      BY <1>1 DEF TasksOfWaitingLanes
    <3>3. \A i \in DOMAIN queued' : pc'[queued'[i]] = "queued" /\ queued'[i] \notin running
      BY <2>1, <3>1, <3>2 DEF TasksOfWaitingLanes
    <3>4. ASSUME NEW i \in DOMAIN queued', NEW j \in DOMAIN queued', queued'[i] = queued'[j]
          PROVE  i = j
      <4>1. /\ i \in DOMAIN queued \/ i = Len(queued) + 1
            /\ j \in DOMAIN queued \/ j = Len(queued) + 1
        BY <3>1
      <4>2. QED
        BY <3>1, <3>2, <3>4, <4>1 DEF TasksOfWaitingLanes
    <3>5. \A k \in running : pc'[k] = "queued" /\ \A j \in running : j = k
      BY <2>1 DEF TasksOfWaitingLanes
    <3>6. QED
      BY <2>1, <3>3, <3>4, <3>5 DEF TasksOfWaitingLanes
  <2>5. CountComesBack' /\ ToldUntilWritten' /\ BytesCounted'
    BY <1>1, <2>1 DEF CountComesBack, ToldUntilWritten, BytesCounted
  <2>6. QED
    BY <2>2, <2>3, <2>4, <2>5
<1>5. QED
  BY <1>2, <1>3, <1>4 DEF Check

\* file_->Write(): what the lane has goes from its memory to the file.
LEMMA MergeKeeps ==
  ASSUME Types, OnePlace, ClosedAreEmpty, NEW l \in Lanes, MergeOf(l), next' = next,
         \A k \in Lanes \ {l} : pc'[k] = "closed" => pc[k] = "closed"
  PROVE  /\ OnePlace' /\ ClosedAreEmpty'
         /\ merged' \in [Events -> Nat] /\ buffer' \in [Lanes -> SUBSET Events]
         /\ buffer'[l] = {} /\ \A k \in Lanes \ {l} : buffer'[k] = buffer[k]
         /\ bytes' \in [Lanes -> Int]
         /\ bytes'[l] = 0 /\ \A k \in Lanes \ {l} : bytes'[k] = bytes[k]
<1> USE DEF Types, TypeOK
<1>1. /\ buffer'[l] = {} /\ \A k \in Lanes \ {l} : buffer'[k] = buffer[k]
      /\ bytes'[l] = 0 /\ \A k \in Lanes \ {l} : bytes'[k] = bytes[k]
      /\ bytes' \in [Lanes -> Int] /\ buffer' \in [Lanes -> SUBSET Events]
  BY DEF MergeOf
<1>2. merged' \in [Events -> Nat]
  BY DEF MergeOf
<1>3. ClosedAreEmpty'
  BY <1>1 DEF ClosedAreEmpty
<1>4. OnePlace'
  <2> SUFFICES ASSUME NEW e \in Events
               PROVE  IF e < next THEN (InFile(e) \/ InMemory(e))' ELSE Nowhere(e)'
    BY DEF OnePlace, Events
  <2>1. CASE e \in buffer[l]
    <3>1. e < next /\ merged[e] = 0 /\ \A k \in Lanes \ {l} : e \notin buffer[k]
      BY <2>1 DEF OnePlace, InFile, InMemory, Nowhere
    <3>2. merged'[e] = merged[e] + 1
      BY <2>1 DEF MergeOf
    <3>3. merged'[e] = 1
      BY <3>1, <3>2
    <3>4. \A k \in Lanes : e \notin buffer'[k]
      BY <1>1, <3>1
    <3>5. QED
      BY <3>1, <3>3, <3>4 DEF InFile
  <2>2. CASE e \notin buffer[l]
    <3>1. merged'[e] = merged[e]
      BY <2>2 DEF MergeOf
    <3>2. \A k \in Lanes : e \in buffer'[k] <=> e \in buffer[k]
      BY <1>1, <2>2
    <3>3. QED
      BY <3>1, <3>2 DEF OnePlace, InFile, InMemory, Nowhere
  <2>3. QED
    BY <2>1, <2>2
<1>5. QED
  BY <1>1, <1>2, <1>3, <1>4

\* What is set back before the write, and what it leaves alone.
LEMMA ClearForKeeps ==
  ASSUME Types, NEW l \in Lanes, ClearFor(l)
  PROVE  /\ nBytesWrittenSinceLastWrite_' \in [Lanes -> Int]
         /\ autoFlush_ < 0 => nBytesWrittenSinceLastWrite_'[l] = 0
         /\ \A k \in Lanes \ {l} :
              nBytesWrittenSinceLastWrite_'[k] = nBytesWrittenSinceLastWrite_[k]
         /\ shouldWrite_' \in [Lanes -> BOOLEAN]
         /\ \A k \in Lanes \ {l} : shouldWrite_'[k] = shouldWrite_[k]
BY DEF ClearFor, Types, TypeOK

LEMMA WriteKeeps == ASSUME IInv, NEW l \in Lanes, Write(l) PROVE IInv'
<1> USE DEF IInv, Types, TypeOK
<1>1. /\ pc[l] = "write" /\ pc' = [pc EXCEPT ![l] = "next"]
      /\ ClearFor(l) /\ MergeOf(l)
      /\ UNCHANGED <<autoFlush_, concurrentWrite_, initial, next, numberEventsSinceLastWrite_,
                     telling, wasTold, queued, running>>
  BY DEF Write, Goto, parameters, queue
<1>2. /\ OnePlace' /\ ClosedAreEmpty'
      /\ merged' \in [Events -> Nat] /\ buffer' \in [Lanes -> SUBSET Events]
      /\ buffer'[l] = {} /\ \A k \in Lanes \ {l} : buffer'[k] = buffer[k]
      /\ bytes' \in [Lanes -> Int]
      /\ bytes'[l] = 0 /\ \A k \in Lanes \ {l} : bytes'[k] = bytes[k]
  BY <1>1, MergeKeeps
<1>3. /\ nBytesWrittenSinceLastWrite_' \in [Lanes -> Int]
      /\ autoFlush_ < 0 => nBytesWrittenSinceLastWrite_'[l] = 0
      /\ \A k \in Lanes \ {l} :
           nBytesWrittenSinceLastWrite_'[k] = nBytesWrittenSinceLastWrite_[k]
      /\ shouldWrite_' \in [Lanes -> BOOLEAN]
      /\ \A k \in Lanes \ {l} : shouldWrite_'[k] = shouldWrite_[k]
  BY <1>1, ClearForKeeps
<1>4. Types'
  BY <1>1, <1>2, <1>3
<1>5. TasksOfWaitingLanes'
  BY <1>1, QueueUntouched DEF queue
<1>6. CountComesBack'
  BY <1>1 DEF CountComesBack
<1>7. ToldUntilWritten'
  BY <1>1, <1>2, <1>3 DEF ToldUntilWritten
<1>8. BytesCounted'
  <2>1. /\ autoFlush_ < 0 => /\ nBytesWrittenSinceLastWrite_'[l] = 0
                             /\ bytes'[l] = 0 /\ 0 <= -1 * autoFlush_
        /\ \A k \in Lanes \ {l} : /\ bytes'[k] = bytes[k] /\ pc'[k] = pc[k]
                                  /\ nBytesWrittenSinceLastWrite_'[k] =
                                       nBytesWrittenSinceLastWrite_[k]
    BY <1>1, <1>2, <1>3
  <2>2. QED
    BY <1>1, <2>1 DEF BytesCounted
<1>9. QED
  BY <1>2, <1>4, <1>5, <1>6, <1>7, <1>8

\* The queue begins a write: the lane waits, so that nothing is filled meanwhile.
LEMMA StartQueuedWriteKeeps == ASSUME IInv, StartQueuedWrite PROVE IInv'
<1> USE DEF IInv, Types, TypeOK
<1> DEFINE l == Head(queued)
<1>1. /\ running = {} /\ queued # <<>> /\ running' = {l} /\ queued' = Tail(queued)
      /\ ClearFor(l)
      /\ UNCHANGED <<autoFlush_, concurrentWrite_, initial, next, pc,
                     numberEventsSinceLastWrite_, telling, buffer, bytes, wasTold, merged>>
  BY DEF StartQueuedWrite, Queue!Begin, parameters
<1>2. /\ l \in Lanes /\ Len(queued) \in Nat \ {0} /\ l = queued[1] /\ 1 \in DOMAIN queued
      /\ queued' \in Seq(Lanes)
      /\ \A i \in DOMAIN queued' : /\ i \in Nat \ {0} /\ i + 1 \in DOMAIN queued
                                   /\ queued'[i] = queued[i + 1]
  BY SMTT(30), <1>1
<1> HIDE DEF l
<1>3. /\ nBytesWrittenSinceLastWrite_' \in [Lanes -> Int]
      /\ autoFlush_ < 0 => nBytesWrittenSinceLastWrite_'[l] = 0
      /\ \A k \in Lanes \ {l} :
           nBytesWrittenSinceLastWrite_'[k] = nBytesWrittenSinceLastWrite_[k]
      /\ shouldWrite_' \in [Lanes -> BOOLEAN]
      /\ \A k \in Lanes \ {l} : shouldWrite_'[k] = shouldWrite_[k]
  BY <1>1, <1>2, ClearForKeeps
<1>4. pc[l] = "queued"
  BY <1>2 DEF TasksOfWaitingLanes
<1>5. Types'
  BY <1>1, <1>2, <1>3
<1>6. OnePlace' /\ ClosedAreEmpty'
  BY <1>1, EventsStay
<1>7. TasksOfWaitingLanes'
  <2>1. \A i \in DOMAIN queued' : pc'[queued'[i]] = "queued" /\ queued'[i] # l
    <3> SUFFICES ASSUME NEW i \in DOMAIN queued'
                 PROVE  pc[queued[i + 1]] = "queued" /\ queued[i + 1] # l
      BY <1>1, <1>2
    <3>1. i \in Nat \ {0} /\ i + 1 \in DOMAIN queued /\ 1 \in DOMAIN queued /\ i + 1 # 1
      BY <1>2
    <3>2. QED
      BY <3>1, <1>2 DEF TasksOfWaitingLanes
  <2>2. ASSUME NEW i \in DOMAIN queued', NEW j \in DOMAIN queued', queued'[i] = queued'[j]
        PROVE  i = j
    <3>1. i + 1 = j + 1
      BY <1>2, <2>2 DEF TasksOfWaitingLanes
    <3>2. QED
      BY SMTT(30), <3>1, <1>2
  <2>3. QED
    BY <1>1, <1>4, <2>1, <2>2 DEF TasksOfWaitingLanes
<1>8. CountComesBack'
  BY <1>1 DEF CountComesBack
<1>9. ToldUntilWritten'
  BY <1>1, <1>3, <1>4 DEF ToldUntilWritten
<1>10. BytesCounted'
  BY <1>1, <1>3, <1>4 DEF BytesCounted
<1>11. QED
  BY <1>5, <1>6, <1>7, <1>8, <1>9, <1>10

LEMMA FinishQueuedWriteKeeps == ASSUME IInv, FinishQueuedWrite PROVE IInv'
<1> USE DEF IInv, Types, TypeOK
<1>1. /\ running' = {} /\ queued' = queued
      /\ UNCHANGED <<autoFlush_, concurrentWrite_, initial, next, numberEventsSinceLastWrite_,
                     shouldWrite_, telling, nBytesWrittenSinceLastWrite_, wasTold>>
  BY DEF FinishQueuedWrite, Queue!Complete, parameters, flags
<1>2. PICK l \in running : MergeOf(l) /\ pc' = [pc EXCEPT ![l] = "next"]
  BY DEF FinishQueuedWrite
<1>3. l \in Lanes /\ pc[l] = "queued" /\ running = {l}
  BY DEF TasksOfWaitingLanes
<1>4. /\ OnePlace' /\ ClosedAreEmpty'
      /\ merged' \in [Events -> Nat] /\ buffer' \in [Lanes -> SUBSET Events]
      /\ buffer'[l] = {} /\ \A k \in Lanes \ {l} : buffer'[k] = buffer[k]
      /\ bytes' \in [Lanes -> Int]
      /\ bytes'[l] = 0 /\ \A k \in Lanes \ {l} : bytes'[k] = bytes[k]
  BY <1>1, <1>2, <1>3, MergeKeeps
<1>5. Types'
  BY <1>1, <1>2, <1>3, <1>4
<1>6. TasksOfWaitingLanes'
  <2>1. \A i \in DOMAIN queued : queued[i] \in Lanes \ {l}
    BY <1>3 DEF TasksOfWaitingLanes
  <2>2. QED
    BY <1>1, <1>2, <1>3, <2>1 DEF TasksOfWaitingLanes
<1>7. CountComesBack'
  BY <1>1, <1>2, <1>3 DEF CountComesBack
<1>8. ToldUntilWritten'
  BY <1>1, <1>2, <1>3, <1>4 DEF ToldUntilWritten
<1>9. BytesCounted'
  <2>1. /\ autoFlush_ < 0 => /\ nBytesWrittenSinceLastWrite_[l] = 0
                             /\ 0 <= -1 * autoFlush_
        /\ bytes'[l] = 0
        /\ \A k \in Lanes \ {l} : bytes'[k] = bytes[k] /\ pc'[k] = pc[k] /\ k \notin running
    BY <1>2, <1>3, <1>4 DEF BytesCounted
  <2>2. QED
    BY <1>1, <2>1 DEF BytesCounted
<1>10. QED
  BY <1>4, <1>5, <1>6, <1>7, <1>8, <1>9

LEMMA CloseLaneKeeps == ASSUME IInv, NEW l \in Lanes, CloseLane(l) PROVE IInv'
<1> USE DEF IInv, Types, TypeOK
<1>1. /\ pc[l] = "next" /\ pc' = [pc EXCEPT ![l] = "closed"]
      /\ MergeOf(l)
      /\ UNCHANGED <<autoFlush_, concurrentWrite_, initial, next, numberEventsSinceLastWrite_,
                     shouldWrite_, telling, nBytesWrittenSinceLastWrite_, wasTold, queued,
                     running>>
  BY DEF CloseLane, Goto, parameters, flags, queue
<1>2. /\ OnePlace' /\ ClosedAreEmpty'
      /\ merged' \in [Events -> Nat] /\ buffer' \in [Lanes -> SUBSET Events]
      /\ buffer'[l] = {} /\ \A k \in Lanes \ {l} : buffer'[k] = buffer[k]
      /\ bytes' \in [Lanes -> Int]
      /\ bytes'[l] = 0 /\ \A k \in Lanes \ {l} : bytes'[k] = bytes[k]
  BY <1>1, MergeKeeps
<1>3. Types'
  BY <1>1, <1>2
<1>4. TasksOfWaitingLanes'
  BY <1>1, QueueUntouched DEF queue
<1>5. CountComesBack'
  BY <1>1 DEF CountComesBack
<1>6. ToldUntilWritten'
  BY <1>1, <1>2 DEF ToldUntilWritten
<1>7. BytesCounted'
  <2>1. \A k \in Lanes \ {l} : bytes'[k] = bytes[k] /\ pc'[k] = pc[k]
    BY <1>1, <1>2
  <2>2. pc'[l] = "closed" /\ l \notin running
    BY <1>1 DEF TasksOfWaitingLanes
  <2>3. QED
    BY <1>1, <2>1, <2>2 DEF BytesCounted
<1>8. QED
  BY <1>2, <1>3, <1>4, <1>5, <1>6, <1>7

LEMMA StutterKeeps == ASSUME IInv, UNCHANGED vars PROVE IInv'
<1> USE DEF IInv, vars, parameters, flags, queue, memory
<1>1. Types'
  BY DEF Types, TypeOK
<1>2. OnePlace' /\ ClosedAreEmpty'
  BY DEF OnePlace, ClosedAreEmpty, InFile, InMemory, Nowhere
<1>3. TasksOfWaitingLanes' /\ CountComesBack' /\ ToldUntilWritten' /\ BytesCounted'
  BY DEF TasksOfWaitingLanes, CountComesBack, ToldUntilWritten, BytesCounted
<1>4. QED
  BY <1>1, <1>2, <1>3

LEMMA NextKeeps == ASSUME Parameters PROVE IInv /\ [Next]_vars => IInv'
<1> SUFFICES ASSUME IInv, [Next]_vars PROVE IInv'
  OBVIOUS
<1>1. ASSUME NEW l \in Lanes, LaneStep(l) PROVE IInv'
  BY <1>1, FillKeeps, CountKeeps, ResetKeeps, TellKeeps, CheckKeeps, WriteKeeps,
     CloseLaneKeeps DEF LaneStep
<1>2. CASE StartQueuedWrite
  BY <1>2, StartQueuedWriteKeeps
<1>3. CASE FinishQueuedWrite
  BY <1>3, FinishQueuedWriteKeeps
<1>4. CASE UNCHANGED vars
  BY <1>4, StutterKeeps
<1>5. QED
  BY <1>1, <1>2, <1>3, <1>4 DEF Next, Finished

\* The lanes that have an event are counted: none, or the one that filled it.
LEMMA InvariantMergesOnce == IInv => MergedOnce
<1> SUFFICES ASSUME IInv PROVE MergedOnce
  OBVIOUS
<1> DEFINE holders(e) == {l \in Lanes : e \in buffer[l]}
<1>1. ASSUME NEW e \in Events
      PROVE  merged[e] + Cardinality(holders(e)) = IF e < next THEN 1 ELSE 0
  <2>1. CASE InFile(e) \/ Nowhere(e)
    <3>1. holders(e) = {}
      BY <2>1 DEF InFile, Nowhere
    <3>2. Cardinality(holders(e)) = 0
      BY <3>1, FS_EmptySet
    <3>3. merged[e] = IF e < next THEN 1 ELSE 0
      BY <2>1 DEF IInv, OnePlace, InFile, InMemory, Nowhere
    <3>4. QED
      BY <3>2, <3>3
  <2>2. CASE InMemory(e)
    <3>1. PICK l \in Lanes : holders(e) = {l}
      BY <2>2 DEF InMemory
    <3>2. Cardinality(holders(e)) = 1
      BY <3>1, FS_Singleton
    <3>3. merged[e] = 0 /\ e < next
      BY <2>2 DEF IInv, OnePlace, InMemory, Nowhere
    <3>4. QED
      BY <3>2, <3>3
  <2>3. QED
    BY <1>1, <2>1, <2>2 DEF IInv, OnePlace
<1>2. QED
  BY <1>1 DEF MergedOnce, IInv, ClosedAreEmpty

LEMMA InvariantTellsLanes == IInv => ToldLanesWrite
<1> SUFFICES ASSUME IInv, NEW l \in Lanes, pc[l] = "next"
             PROVE  /\ autoFlush_ > 0 /\ wasTold[l] => buffer[l] = {}
                    /\ autoFlush_ < 0 => /\ nBytesWrittenSinceLastWrite_[l] = bytes[l]
                                         /\ bytes[l] <= -1 * autoFlush_
  BY DEF ToldLanesWrite
<1>1. l \notin running
  BY DEF IInv, TasksOfWaitingLanes
<1>2. QED
  BY <1>1 DEF IInv, ToldUntilWritten, BytesCounted

LEMMA Invariance == ASSUME Parameters PROVE Spec => []IInv
BY InitHolds, NextKeeps, PTL DEF Spec

\* The variables of TBufferMergerRootOutputer keep their types.
THEOREM TypeCorrect == ASSUME Parameters PROVE Spec => []TypeOK
<1>1. IInv => TypeOK
  BY DEF IInv, Types
<1>2. QED
  BY <1>1, Invariance, PTL

\* Every event that was filled is with one lane or merged once, and all are merged
\* at the end: whatever flushes raced, with the lanes' own threads or the queue's.
THEOREM Merged == ASSUME Parameters PROVE Spec => []MergedOnce
BY Invariance, InvariantMergesOnce, PTL

\* The counter that lanes increment with no lock is set back by the lane that
\* reaches autoFlush_, for any number of lanes that increment it meanwhile.
THEOREM CountReset == ASSUME Parameters PROVE Spec => []CountComesBack
<1>1. IInv => CountComesBack
  BY DEF IInv
<1>2. QED
  BY <1>1, Invariance, PTL

\* A lane that another lane told to write has written when it is done with its next
\* event, and a lane that counts bytes is below the limit.
THEOREM Told == ASSUME Parameters PROVE Spec => []ToldLanesWrite
BY Invariance, InvariantTellsLanes, PTL
=============================================================================
