------------------------- MODULE EventSourcesProofs -------------------------
(***************************************************************************)
(* TLAPS proofs about EventSources, for any numbers of lanes, events and   *)
(* data products, any limit and any of the sources: what the outputer is   *)
(* given is one event with its identifier, and when the lanes have ended   *)
(* every event of the source below the limit was output once.              *)
(***************************************************************************)
EXTENDS EventSources, FiniteSetTheorems, FunctionTheorems, TLAPS

\* A job has a lane, an event a data product, and RepeatingRootSource an event
\* to repeat; there may be no event in the file, and the limit may be 0.
Parameters == /\ NLanes \in Nat \ {0} /\ NProducts \in Nat \ {0}
              /\ nUniqueEvents \in Nat \ {0}
              /\ maxNEvents \in Nat /\ NInFile \in Nat

Indices == 0..(maxNEvents - 1)
Whole(e) == [p \in Products |-> e]
Contents == [Products -> Events \cup {None}]
Entries == [index : Indices, id : Events \cup {None}, products : Contents]

Types == /\ ievt \in Nat
         /\ index \in [Lanes -> Nat \cup {None}]
         /\ pc \in [Lanes -> {"next", "asking", "asked", "decode", "process", "done"}]
         /\ asked \in [Lanes -> 0..NProducts] /\ ready \in [Lanes -> 0..NProducts]
         /\ queued \in Seq(Closures) /\ reading \subseteq Closures
         /\ entry \in [Lanes -> Events \cup {None}]
         /\ loaded \in [Lanes -> Events \cup {None}]
         /\ identifiers \in [Lanes -> Events \cup {None}]
         /\ objects \in [Lanes -> Contents]
         /\ idAddress \in Lanes \cup {None} /\ (hasAux => idAddress = None)
         /\ filePos \in [Lanes -> 0..NInFile]
         /\ presentEventIndex \in [Lanes -> Nat]
         /\ kind = "ReplicatedPDS" => filePos = presentEventIndex
         /\ output \subseteq Entries

\* Only a lane that ends takes an index that is not below the limit.
Ended == {l \in Lanes : pc[l] = "done"}
Counted == ievt <= maxNEvents + Cardinality(Ended)

\* The queue has no closure twice.
Outstanding == {queued[i] : i \in DOMAIN queued} \cup reading
Distinct == /\ \A i, j \in DOMAIN queued : queued[i] = queued[j] => i = j
            /\ \A t \in reading : \A i \in DOMAIN queued : queued[i] # t
            /\ \A t, u \in reading : t = u

\* A closure is for the event its lane still has: it reads what the lane waits
\* for before its data products, or one of those that it has asked for.
ForItsLane(t) == /\ t.index = index[t.lane]
                 /\ \/ t.product = 0 /\ pc[t.lane] = "asked"
                    \/ /\ t.product \in Products /\ kind \in Delayed
                       /\ pc[t.lane] = "process" /\ t.product <= asked[t.lane]

ClosuresOfLanes == \A t \in Outstanding : ForItsLane(t)

\* The data products of the lane that are still to be read.
Unread(l) == {p \in Products : \E t \in Outstanding : t.lane = l /\ t.product = p}

Busy(l) == pc[l] \in {"asking", "asked", "decode", "process"}

\* A lane is at an event of the source, and where its kind of source takes it.
AtAnEvent(l) ==
  /\ index[l] < ievt
  /\ Busy(l) => index[l] \in Indices
  /\ pc[l] = "asked" => kind \in TestsFirst \cup Decoding
  /\ pc[l] = "decode" => kind \in Decoding
  /\ pc[l] = "process" => kind \in TestsFirst \cup Decoding \cup AtOnce
  /\ pc[l] \in {"asked", "process"} /\ kind \in TestsFirst => index[l] < NInFile
  /\ /\ pc[l] \in {"decode", "process"}
     /\ kind \in {"SharedRootEvent", "ReplicatedRoot", "ReplicatedPDS"}
     => index[l] < NInFile
  /\ pc[l] \in {"decode", "process"} /\ kind = "SharedPDS"
     => identifiers[l] \in 0..(NInFile - 1)
  /\ pc[l] \in {"asking", "asked", "decode"} => asked[l] = 0 /\ ready[l] = 0

\* The event that the data products of the lane are to be of.
EventOf(l) == CASE kind = "Repeating" -> index[l] % nUniqueEvents
                [] kind = "SharedPDS" -> identifiers[l]
                [] OTHER -> index[l]

\* The identifier is read with the event and stays, as far as no other lane has
\* its address: that is the branch without EventAuxiliary.
Identified(l) ==
  /\ pc[l] \in {"decode", "process"}
  /\ kind \notin {"Repeating", "TestProducts"}
  /\ kind = "TreeGetEntry" => hasAux
  => identifiers[l] = EventOf(l)

\* What a lane has read, and with what it asks for the rest.
HasRead(l) ==
  /\ pc[l] = "decode" => loaded[l] = EventOf(l)
  /\ pc[l] = "process" =>
       /\ Cardinality(Unread(l)) = asked[l] - ready[l]
       /\ kind \in Delayed \cup {"TestProducts"} =>
            /\ entry[l] = index[l]
            /\ \A p \in 1..asked[l] : p \in Unread(l) \/ objects[l][p] = index[l]
       /\ kind \notin Delayed \cup {"TestProducts"} => objects[l] = Whole(EventOf(l))

LaneInv(l) == AtAnEvent(l) /\ Identified(l) /\ HasRead(l)
Lanewise == \A l \in Lanes : LaneInv(l)

\* What was output is one event, and one the source has.
OneEvent(o) ==
  \E e \in Events :
    /\ o.products = Whole(e)
    /\ kind = "Repeating" => e = o.index % nUniqueEvents
    /\ kind \notin {"Repeating", "SharedPDS"} => e = o.index
    /\ kind \notin {"Repeating", "TestProducts"} => e < NInFile
    /\ (kind = "TreeGetEntry" => hasAux) => o.id = e

Outputs == \A o \in output : OneEvent(o)

\* An event is with one lane or output once.  It is known by its index, in
\* SharedPDSSource by its place in the file.
Mark(l) == IF kind = "SharedPDS" THEN identifiers[l] ELSE index[l]
MarkOf(o) == IF kind = "SharedPDS" THEN o.products[1] ELSE o.index
Has(l) == IF kind = "SharedPDS" THEN pc[l] \in {"decode", "process"} ELSE Busy(l)
Given == IF kind = "SharedPDS" THEN filePos[0] ELSE ievt

NotTwice ==
  /\ \A l \in Lanes : Has(l) => /\ Mark(l) \in 0..(Given - 1)
                                /\ \A o \in output : MarkOf(o) # Mark(l)
  /\ \A k, l \in Lanes : Has(k) /\ Has(l) /\ Mark(k) = Mark(l) => k = l
  /\ \A o \in output : MarkOf(o) \in 0..(Given - 1)
  /\ \A o, q \in output : MarkOf(o) = MarkOf(q) => o = q

\* Behind the end of the file, or behind the limit, there is nothing to lose.
Endless == kind \in {"Repeating", "TestProducts"}
Behind(i) == kind # "SharedPDS" /\ (i >= maxNEvents \/ (~Endless /\ i >= NInFile))

NoneLost == \A i \in 0..(Given - 1) : \/ \E l \in Lanes : Has(l) /\ Mark(l) = i
                                      \/ \E o \in output : MarkOf(o) = i
                                      \/ Behind(i)

\* A lane ends at the limit or at the end of the file.
EndsThere ==
  \A l \in Ended : \/ ievt >= maxNEvents
                   \/ kind = "SharedPDS" /\ filePos[0] = NInFile
                   \/ kind # "SharedPDS" /\ ~Endless /\ index[l] >= NInFile

\* SharedPDSSource: every index below the limit gets an event as long as there are any.
Waiting == {l \in Lanes : pc[l] \in {"asking", "asked"}}
Asking == IF ievt < maxNEvents THEN ievt ELSE maxNEvents
OneForEachIndex ==
  kind = "SharedPDS" =>
    /\ filePos[0] + Cardinality(Waiting) <= Asking
    /\ filePos[0] = NInFile \/ filePos[0] + Cardinality(Waiting) = Asking

Queues == Distinct /\ ClosuresOfLanes
Once == NotTwice /\ NoneLost /\ EndsThere /\ OneForEachIndex

IInv == Types /\ Counted /\ Queues /\ Lanewise /\ Outputs /\ Once

LEMMA ParameterFacts ==
  ASSUME Parameters
  PROVE  /\ 0 \in Lanes /\ Lanes \subseteq Nat /\ IsFiniteSet(Lanes) /\ None \notin Lanes
         /\ 1 \in Products /\ Products \subseteq Nat /\ 0 \notin Products
         /\ IsFiniteSet(Products)
         /\ Indices \subseteq Nat /\ Indices \subseteq Events /\ Events \subseteq Nat
         /\ None \notin Nat /\ 0..(NInFile - 1) \subseteq Events
         /\ \A i \in Indices : i % nUniqueEvents \in Events
<1>1. \A i \in Indices : i % nUniqueEvents \in 0..i
  <2>1. ASSUME NEW i \in Nat, NEW u \in Nat \ {0} PROVE i % u \in 0..i
    OBVIOUS
  <2>2. QED
    BY <2>1 DEF Parameters, Indices
<1>2. IsFiniteSet(Lanes) /\ IsFiniteSet(Products)
  BY FS_Interval DEF Parameters, Lanes, Products
<1>3. QED
  BY <1>1, <1>2 DEF Parameters, Lanes, Products, Indices, Events, None

LEMMA ClosureFacts ==
  ASSUME Types
  PROVE  \A t \in Outstanding : /\ t \in Closures /\ t.lane \in Lanes /\ t.index \in Nat
                                /\ t.product \in {0} \cup Products
<1>1. Outstanding \subseteq Closures
  BY DEF Types, Outstanding
<1>2. QED
  BY <1>1 DEF Closures

\* What the steps of the queue do to the closures that are outstanding.
LEMMA SubmitFacts ==
  ASSUME NEW t \in Closures, queued \in Seq(Closures), reading \subseteq Closures,
         Distinct, Queue!Submit(t)
  PROVE  /\ queued' \in Seq(Closures) /\ reading' \subseteq Closures
         /\ Outstanding' = Outstanding \cup {t} /\ t \notin Outstanding
         /\ Distinct'
<1> USE DEF Queue!Submit
<1>1. queued' = Append(queued, t) /\ reading' = reading /\ t \notin Outstanding
  BY DEF Outstanding
<1>2. /\ Len(queued) \in Nat /\ DOMAIN queued = 1..Len(queued)
      /\ DOMAIN queued' = 1..(Len(queued) + 1)
      /\ \A i \in 1..Len(queued) : queued'[i] = queued[i]
      /\ queued'[Len(queued) + 1] = t
  BY <1>1
<1>3. Outstanding' = Outstanding \cup {t}
  <2>1. {queued'[i] : i \in DOMAIN queued'} = {queued[i] : i \in DOMAIN queued} \cup {t}
    BY <1>2
  <2>2. QED
    BY <1>1, <2>1 DEF Outstanding
<1>4. Distinct'
  <2>1. \A i, j \in 1..(Len(queued) + 1) : queued'[i] = queued'[j] => i = j
    BY <1>1, <1>2 DEF Distinct, Outstanding
  <2>2. \A u \in reading : \A i \in 1..(Len(queued) + 1) : queued'[i] # u
    BY <1>1, <1>2 DEF Distinct, Outstanding
  <2>3. QED
    BY <1>1, <1>2, <2>1, <2>2 DEF Distinct
<1>5. QED
  BY <1>1, <1>3, <1>4

LEMMA BeginFacts ==
  ASSUME queued \in Seq(Closures), reading \subseteq Closures, Distinct, Queue!Begin
  PROVE  /\ queued' \in Seq(Closures) /\ reading' \subseteq Closures
         /\ Outstanding' = Outstanding /\ Distinct'
<1> USE DEF Queue!Begin
<1>1. /\ Len(queued) \in Nat \ {0} /\ DOMAIN queued = 1..Len(queued)
      /\ DOMAIN queued' = 1..(Len(queued) - 1)
      /\ \A i \in 1..(Len(queued) - 1) : queued'[i] = queued[i + 1]
      /\ reading' = {queued[1]} /\ reading = {}
  OBVIOUS
<1>2. Outstanding' = Outstanding
  <2>1. {queued[i] : i \in 1..Len(queued)}
          = {queued'[i] : i \in 1..(Len(queued) - 1)} \cup {queued[1]}
    <3>1. ASSUME NEW i \in 1..Len(queued), i # 1
          PROVE  i - 1 \in 1..(Len(queued) - 1) /\ queued'[i - 1] = queued[i]
      BY <1>1, <3>1
    <3>2. QED
      BY SMTT(30), <1>1, <3>1
  <2>2. QED
    BY <1>1, <2>1 DEF Outstanding
<1>3. Distinct'
  <2>1. \A i, j \in 1..(Len(queued) - 1) : queued'[i] = queued'[j] => i = j
    <3>1. ASSUME NEW i \in 1..(Len(queued) - 1), NEW j \in 1..(Len(queued) - 1),
                 queued'[i] = queued'[j]
          PROVE  i = j
      <4>1. i + 1 \in DOMAIN queued /\ j + 1 \in DOMAIN queued /\ queued[i + 1] = queued[j + 1]
        BY <1>1, <3>1
      <4>2. i + 1 = j + 1
        BY <4>1 DEF Distinct
      <4>3. QED
        BY <4>2
    <3>2. QED
      BY <3>1
  <2>2. \A i \in 1..(Len(queued) - 1) : queued'[i] # queued[1]
    <3>1. ASSUME NEW i \in 1..(Len(queued) - 1), queued'[i] = queued[1] PROVE FALSE
      <4>1. i + 1 \in DOMAIN queued /\ 1 \in DOMAIN queued /\ queued[i + 1] = queued[1]
        BY <1>1, <3>1
      <4>2. i + 1 = 1
        BY <4>1 DEF Distinct
      <4>3. QED
        BY <4>2
    <3>2. QED
      BY <3>1
  <2>3. QED
    BY <1>1, <2>1, <2>2 DEF Distinct
<1>4. QED
  BY <1>1, <1>2, <1>3

LEMMA CompleteFacts ==
  ASSUME NEW t \in reading, queued \in Seq(Closures), reading \subseteq Closures,
         Distinct, Queue!Complete
  PROVE  /\ queued' \in Seq(Closures) /\ reading' \subseteq Closures
         /\ t \in Closures /\ t \in Outstanding
         /\ Outstanding' = Outstanding \ {t} /\ Distinct'
BY DEF Queue!Complete, Distinct, Outstanding

LEMMA SameQueue ==
  ASSUME queued' = queued, reading' = reading
  PROVE  Outstanding' = Outstanding /\ (Distinct => Distinct')
BY DEF Outstanding, Distinct

\* A lane that waits for nothing has no closure in the queue.
LEMMA NoneOfIdle ==
  ASSUME ClosuresOfLanes, NEW l \in Lanes, pc[l] \notin {"asked", "process"}
  PROVE  \A t \in Outstanding : t.lane # l
BY DEF ClosuresOfLanes, ForItsLane

\* A closure is of one lane only: the others have the same to read as before.
LEMMA UnreadOfOthers ==
  ASSUME NEW t, NEW l \in Lanes, t.lane # l \/ t.product \notin Products,
         Outstanding' \in {Outstanding, Outstanding \cup {t}, Outstanding \ {t}}
  PROVE  Unread(l)' = Unread(l)
<1>1. \A p \in Products : (\E u \in Outstanding' : u.lane = l /\ u.product = p)
                            <=> (\E u \in Outstanding : u.lane = l /\ u.product = p)
  OBVIOUS
<1>2. QED
  BY <1>1 DEF Unread

LEMMA SameUnread ==
  ASSUME Outstanding' = Outstanding, NEW l \in Lanes PROVE Unread(l)' = Unread(l)
BY DEF Unread

\* A lane that a step leaves alone keeps its invariant.
LEMMA OtherLane ==
  ASSUME NEW l \in Lanes, LaneInv(l), kind' = kind, hasAux' = hasAux,
         index[l] \in Int, ievt \in Int, ievt' \in Int, ievt <= ievt',
         index'[l] = index[l], pc'[l] = pc[l], asked'[l] = asked[l], ready'[l] = ready[l],
         entry'[l] = entry[l], loaded'[l] = loaded[l], objects'[l] = objects[l],
         \/ identifiers'[l] = identifiers[l]
         \/ kind = "TreeGetEntry" /\ ~hasAux,
         Unread(l)' = Unread(l)
  PROVE  LaneInv(l)'
<1>1. EventOf(l)' = EventOf(l)
  BY DEF EventOf
<1>2. AtAnEvent(l)'
  BY DEF LaneInv, AtAnEvent, Busy, Indices
<1>3. Identified(l)'
  BY <1>1 DEF LaneInv, Identified
<1>4. HasRead(l)'
  BY <1>1 DEF LaneInv, HasRead, Whole
<1>5. QED
  BY <1>2, <1>3, <1>4 DEF LaneInv

\* A step that neither gives nor takes an event keeps what is said of each of them.
LEMMA OnceSame ==
  ASSUME Once, kind' = kind, ievt' = ievt, index' = index, output' = output,
         filePos' = filePos, Ended' = Ended, Waiting' = Waiting,
         \A l \in Lanes : Has(l)' = Has(l) /\ (Has(l) => Mark(l)' = Mark(l))
  PROVE  Once'
<1>1. Given' = Given
  BY DEF Given
<1>2. \A o : MarkOf(o)' = MarkOf(o)
  BY DEF MarkOf
<1>3. NotTwice'
  BY <1>1, <1>2 DEF Once, NotTwice
<1>4. NoneLost'
  BY <1>1, <1>2 DEF Once, NoneLost, Behind, Endless
<1>5. EndsThere' /\ OneForEachIndex'
  BY DEF Once, EndsThere, Endless, OneForEachIndex, Asking
<1>6. QED
  BY <1>3, <1>4, <1>5 DEF Once

\* Nothing is outstanding, read or output at the start.
LEMMA InitHolds == ASSUME Parameters, Init PROVE IInv
<1> USE DEF Init
<1>1. Types
  <2>1. /\ ievt \in Nat /\ index \in [Lanes -> Nat \cup {None}]
        /\ pc \in [Lanes -> {"next", "asking", "asked", "decode", "process", "done"}]
        /\ queued \in Seq(Closures) /\ reading \subseteq Closures
    OBVIOUS
  <2>2. asked \in [Lanes -> 0..NProducts] /\ ready \in [Lanes -> 0..NProducts]
    BY DEF Parameters
  <2>3. /\ entry \in [Lanes -> Events \cup {None}]
        /\ loaded \in [Lanes -> Events \cup {None}]
        /\ identifiers \in [Lanes -> Events \cup {None}]
        /\ objects \in [Lanes -> Contents]
    BY DEF Contents
  <2>4. /\ idAddress \in Lanes \cup {None} /\ idAddress = None
        /\ filePos \in [Lanes -> 0..NInFile]
        /\ presentEventIndex \in [Lanes -> Nat]
        /\ filePos = presentEventIndex
        /\ output \subseteq Entries
    BY DEF Parameters
  <2>5. QED
    BY <2>1, <2>2, <2>3, <2>4 DEF Types
<1>2. queued = <<>> /\ DOMAIN queued = {} /\ reading = {} /\ Outstanding = {}
  BY DEF Outstanding
<1>3. Queues
  BY <1>2 DEF Queues, Distinct, ClosuresOfLanes
<1>4. Ended = {} /\ Cardinality(Ended) = 0
  BY FS_EmptySet DEF Ended
<1>5. Counted
  BY <1>4 DEF Counted, Parameters
<1>6. Lanewise
  BY DEF Lanewise, LaneInv, AtAnEvent, Identified, HasRead, Busy, None
<1>7. Outputs
  BY DEF Outputs
<1>8. Once
  <2>1. Given = 0
    BY ParameterFacts DEF Given
  <2>2. NotTwice /\ NoneLost
    BY <2>1 DEF NotTwice, NoneLost, Has, Busy
  <2>3. EndsThere
    BY <1>4 DEF EndsThere
  <2>4. Waiting = {} /\ Cardinality(Waiting) = 0
    BY FS_EmptySet DEF Waiting
  <2>5. OneForEachIndex
    BY <2>4, ParameterFacts DEF OneForEachIndex, Asking, Parameters
  <2>6. QED
    BY <2>2, <2>3, <2>5 DEF Once
<1>9. QED
  BY <1>1, <1>3, <1>5, <1>6, <1>7, <1>8 DEF IInv

\* A lane takes an index: every one below the limit is with one lane.
LEMMA NextIndexKeeps ==
  ASSUME Parameters, IInv, NEW l \in Lanes, NextIndex(l) PROVE IInv'
<1> USE DEF NextIndex, Goto, job, queue, pds
<1>1. /\ ievt \in Nat /\ pc[l] = "next" /\ Types /\ Lanewise
      /\ pc \in [Lanes -> {"next", "asking", "asked", "decode", "process", "done"}]
      /\ index \in [Lanes -> Nat \cup {None}]
      /\ ievt' = ievt + 1 /\ index'[l] = ievt
      /\ pc'[l] = IF ievt < maxNEvents THEN "asking" ELSE "done"
      /\ \A k \in Lanes : k # l => index'[k] = index[k] /\ pc'[k] = pc[k]
  BY DEF IInv, Types
<1>2. Types'
  <2>1. ievt' \in Nat /\ index' \in [Lanes -> Nat \cup {None}]
    BY <1>1
  <2>2. pc' \in [Lanes -> {"next", "asking", "asked", "decode", "process", "done"}]
    BY <1>1
  <2>3. asked' \in [Lanes -> 0..NProducts] /\ ready' \in [Lanes -> 0..NProducts]
    BY <1>1 DEF Types, Parameters
  <2>4. QED
    BY <1>1, <2>1, <2>2, <2>3 DEF Types, Closures, Contents, Entries
<1>3. Outstanding' = Outstanding /\ Distinct'
  BY SameQueue DEF IInv, Queues
<1>4. \A t \in Outstanding : t.lane # l
  BY <1>1, NoneOfIdle DEF IInv, Queues
<1>5. Queues'
  <2>1. ASSUME NEW t \in Outstanding PROVE ForItsLane(t)'
    <3>1. PICK k \in Lanes : k = t.lane
      BY <1>1, ClosureFacts
    <3>2. k # l /\ ForItsLane(t)
      BY <1>4, <3>1 DEF IInv, Queues, ClosuresOfLanes
    <3>3. QED
      BY <1>1, <3>1, <3>2 DEF ForItsLane, Types
  <2>2. QED
    BY <1>3, <2>1 DEF Queues, ClosuresOfLanes
<1>6. Lanewise'
  <2>1. ASSUME NEW k \in Lanes, k # l PROVE LaneInv(k)'
    <3>1. Unread(k)' = Unread(k)
      BY <1>3, SameUnread
    <3>2. QED
      BY <1>1, <2>1, <3>1, OtherLane DEF Lanewise, Types, None
  <2>2. LaneInv(l)'
    BY <1>1 DEF LaneInv, AtAnEvent, Busy, Indices, Identified, HasRead, Parameters, Types
  <2>3. QED
    BY <2>1, <2>2 DEF Lanewise
<1>7. Counted'
  <2>1. IsFiniteSet(Ended)
    BY ParameterFacts, FS_Subset DEF Ended
  <2>2. CASE ievt < maxNEvents
    <3>1. Ended' = Ended
      BY <1>1, <2>2 DEF Ended
    <3>2. Cardinality(Ended) \in Nat
      BY <2>1, FS_CardinalityType
    <3>3. QED
      BY <1>1, <2>2, <3>1, <3>2 DEF Counted, Parameters
  <2>3. CASE ievt >= maxNEvents
    <3>1. Ended' = Ended \cup {l} /\ l \notin Ended
      BY <1>1, <2>3 DEF Ended, Parameters
    <3>2. Cardinality(Ended') = Cardinality(Ended) + 1 /\ Cardinality(Ended) \in Nat
      BY <2>1, <3>1, FS_AddElement, FS_CardinalityType
    <3>3. QED
      BY <1>1, <3>2 DEF IInv, Counted, Parameters
  <2>4. QED
    BY <1>1, <2>2, <2>3 DEF Parameters
<1>8. Outputs'
  BY DEF IInv, Outputs, OneEvent, Whole
<1>9. NotTwice' /\ NoneLost'
  <2>1. \A o : MarkOf(o)' = MarkOf(o)
    BY DEF MarkOf
  <2>2. NotTwice /\ NoneLost
    BY DEF IInv, Once
  <2>3. CASE kind = "SharedPDS"
    <3>1. Given' = Given
      BY <2>3 DEF Given
    <3>2. ASSUME NEW k \in Lanes PROVE Has(k)' = Has(k) /\ Mark(k)' = Mark(k)
      BY <1>1, <2>3 DEF Has, Mark
    <3>3. NotTwice'
      BY <2>1, <2>2, <3>1, <3>2 DEF NotTwice
    <3>4. NoneLost'
      BY <2>1, <2>2, <3>1, <3>2 DEF NoneLost, Behind, Endless
    <3>5. QED
      BY <3>3, <3>4
  <2>4. CASE kind # "SharedPDS"
    <3>1. Given = ievt /\ Given' = ievt + 1
      BY <1>1, <2>4 DEF Given
    <3>2. ASSUME NEW k \in Lanes, k # l
          PROVE  Has(k)' = Has(k) /\ Mark(k)' = Mark(k)
      BY <1>1, <2>4, <3>2 DEF Has, Mark, Busy
    <3>3. ~Has(l) /\ Mark(l)' = ievt /\ (Has(l)' <=> ievt < maxNEvents)
      BY <1>1, <2>4 DEF Has, Mark, Busy
    <3>4. NotTwice'
      BY <1>1, <2>1, <2>2, <3>1, <3>2, <3>3 DEF NotTwice
    <3>5. NoneLost'
      <4>1. ASSUME NEW i \in 0..ievt
            PROVE  \/ \E k \in Lanes : Has(k)' /\ Mark(k)' = i
                   \/ \E o \in output : MarkOf(o) = i
                   \/ Behind(i)
        <5>1. CASE i = ievt
          BY <1>1, <2>4, <3>3, <5>1 DEF Behind, Parameters
        <5>2. CASE i # ievt
          BY <1>1, <2>2, <3>1, <3>2, <3>3, <5>2 DEF NoneLost
        <5>3. QED
          BY <5>1, <5>2
      <4>2. QED
        BY <1>1, <2>1, <3>1, <4>1 DEF NoneLost, Behind, Endless
    <3>6. QED
      BY <3>4, <3>5
  <2>5. QED
    BY <2>3, <2>4
<1>10. EndsThere'
  BY <1>1 DEF IInv, Once, EndsThere, Ended, Endless, Parameters, Types
<1>11. OneForEachIndex'
  <2>1. SUFFICES ASSUME kind = "SharedPDS"
        PROVE  /\ filePos[0] + Cardinality(Waiting') <= Asking'
               /\ filePos[0] = NInFile \/ filePos[0] + Cardinality(Waiting') = Asking'
    BY DEF OneForEachIndex
  <2>2. IsFiniteSet(Waiting) /\ Cardinality(Waiting) \in Nat
    BY ParameterFacts, FS_Subset, FS_CardinalityType DEF Waiting
  <2>3. filePos[0] \in Nat
    BY <1>1, ParameterFacts DEF Types
  <2>4. CASE ievt < maxNEvents
    <3>1. Waiting' = Waiting \cup {l} /\ l \notin Waiting
      BY <1>1, <2>4 DEF Waiting
    <3>2. Cardinality(Waiting') = Cardinality(Waiting) + 1
      BY <2>2, <3>1, FS_AddElement
    <3>3. Asking' = Asking + 1 /\ Asking = ievt
      BY <1>1, <2>4 DEF Asking, Parameters
    <3>4. QED
      BY <1>1, <2>1, <2>2, <2>3, <3>2, <3>3 DEF IInv, Once, OneForEachIndex
  <2>5. CASE ievt >= maxNEvents
    <3>1. Waiting' = Waiting
      BY <1>1, <2>5 DEF Waiting, Parameters
    <3>2. Asking' = Asking
      BY <1>1, <2>5 DEF Asking, Parameters
    <3>3. QED
      BY <2>1, <3>1, <3>2 DEF IInv, Once, OneForEachIndex
  <2>6. QED
    BY <1>1, <2>4, <2>5 DEF Parameters
<1>12. QED
  BY <1>2, <1>5, <1>6, <1>7, <1>8, <1>9, <1>10, <1>11 DEF IInv, Once

\* The closures of the lanes that a step leaves alone are still for their events.
LEMMA OtherClosures ==
  ASSUME Types, ClosuresOfLanes, kind' = kind, NEW l \in Lanes,
         \A k \in Lanes : k # l => /\ index'[k] = index[k] /\ pc'[k] = pc[k]
                                   /\ asked'[k] = asked[k]
  PROVE  \A t \in Outstanding : t.lane # l => ForItsLane(t)'
<1>1. ASSUME NEW t \in Outstanding, t.lane # l PROVE ForItsLane(t)'
  <2>1. PICK k \in Lanes : k = t.lane
    BY ClosureFacts
  <2>2. k # l /\ ForItsLane(t)
    BY <1>1, <2>1 DEF ClosuresOfLanes
  <2>3. QED
    BY <2>1, <2>2 DEF ForItsLane, Types
<1>2. QED
  BY <1>1

LEMMA MoreEnded ==
  ASSUME Parameters, Types, Counted, ievt' = ievt, Ended \subseteq Ended' PROVE Counted'
<1>1. IsFiniteSet(Ended')
  BY ParameterFacts, FS_Subset DEF Ended
<1>2. /\ Cardinality(Ended) <= Cardinality(Ended')
      /\ Cardinality(Ended) \in Nat /\ Cardinality(Ended') \in Nat
  BY <1>1, FS_Subset, FS_CardinalityType
<1>3. QED
  BY <1>2 DEF Types, Counted, Parameters

\* The read of the lane's event is pushed: it is the lane's only closure.
LEMMA PushKeeps ==
  ASSUME Parameters, IInv, NEW l \in Lanes, PushRead(l), Goto(l, "asking", "asked"),
         kind \in TestsFirst => index[l] < NInFile, kind \in TestsFirst \cup Decoding,
         entry' = entry \/ entry' = [entry EXCEPT ![l] = index[l]],
         UNCHANGED <<job, ievt, lane, loaded, identifiers, objects, idAddress, pds, output>>
  PROVE  IInv'
<1> DEFINE t == [product |-> 0, lane |-> l, index |-> index[l]]
<1> USE DEF Goto, job, lane, pds
<1>1. /\ Types /\ Lanewise /\ pc[l] = "asking" /\ pc'[l] = "asked"
      /\ \A k \in Lanes : k # l => pc'[k] = pc[k]
      /\ pc' \in [Lanes -> {"next", "asking", "asked", "decode", "process", "done"}]
      /\ index[l] \in Indices
  BY DEF IInv, Types, Lanewise, LaneInv, AtAnEvent, Busy
<1>2. t \in Closures
  BY <1>1, ParameterFacts DEF Closures
<1>3. /\ queued' \in Seq(Closures) /\ reading' \subseteq Closures /\ Distinct'
      /\ Outstanding' = Outstanding \cup {t} /\ t \notin Outstanding
  BY <1>1, <1>2, SubmitFacts DEF Types, IInv, Queues, PushRead
<1>4. Types'
  <2>1. entry' \in [Lanes -> Events \cup {None}]
    BY <1>1, ParameterFacts DEF Types
  <2>2. QED
    BY <1>1, <1>3, <2>1 DEF Types, Closures, Contents, Entries
<1>5. \A u \in Outstanding : u.lane # l
  BY <1>1, NoneOfIdle DEF IInv, Queues
<1>6. Queues'
  <2>1. \A u \in Outstanding : ForItsLane(u)'
    BY <1>1, <1>5, OtherClosures DEF IInv, Queues
  <2>2. ForItsLane(t)'
    BY <1>1 DEF ForItsLane
  <2>3. QED
    BY <1>3, <2>1, <2>2 DEF Queues, ClosuresOfLanes
<1>7. Lanewise'
  <2>1. ASSUME NEW k \in Lanes, k # l PROVE LaneInv(k)'
    <3>1. Unread(k)' = Unread(k)
      BY <1>3, <2>1, UnreadOfOthers
    <3>2. entry'[k] = entry[k]
      BY <1>1, <2>1 DEF Types
    <3>3. QED
      BY <1>1, <2>1, <3>1, <3>2, OtherLane DEF Lanewise, Types, None
  <2>2. LaneInv(l)'
    BY <1>1 DEF Lanewise, LaneInv, AtAnEvent, Busy, Indices, Identified, HasRead, Types
  <2>3. QED
    BY <2>1, <2>2 DEF Lanewise
<1>8. Ended' = Ended /\ Waiting' = Waiting
  BY <1>1 DEF Ended, Waiting
<1>9. Counted'
  BY <1>1, <1>8, MoreEnded DEF IInv
<1>10. Outputs'
  BY DEF IInv, Outputs, OneEvent, Whole
<1>11. Once'
  <2>1. \A k \in Lanes : Has(k)' = Has(k) /\ Mark(k)' = Mark(k)
    BY <1>1 DEF Has, Busy, Mark
  <2>2. QED
    BY <1>8, <2>1, OnceSame DEF IInv
<1>12. QED
  BY <1>4, <1>6, <1>7, <1>9, <1>10, <1>11 DEF IInv

\* The end of the file, found before anything is asked of the queue.
LEMMA EndKeeps ==
  ASSUME Parameters, IInv, NEW l \in Lanes, Goto(l, "asking", "done"),
         kind \in TestsFirst \cup {"ReplicatedRoot", "ReplicatedPDS"}, index[l] >= NInFile,
         UNCHANGED <<job, ievt, lane, queue, entry, loaded, identifiers, objects,
                     idAddress, pds, output>>
  PROVE  IInv'
<1> USE DEF Goto, job, lane, pds, queue
<1>1. /\ Types /\ Lanewise /\ pc[l] = "asking" /\ pc'[l] = "done"
      /\ \A k \in Lanes : k # l => pc'[k] = pc[k]
      /\ pc' \in [Lanes -> {"next", "asking", "asked", "decode", "process", "done"}]
      /\ index[l] \in Indices /\ index[l] < ievt
      /\ kind # "SharedPDS" /\ ~Endless
  BY DEF IInv, Types, Lanewise, LaneInv, AtAnEvent, Busy, TestsFirst, Delayed, Endless
<1>2. Types'
  BY <1>1 DEF Types, Closures, Contents, Entries
<1>3. Outstanding' = Outstanding /\ Distinct'
  BY SameQueue DEF IInv, Queues
<1>4. Queues'
  <2>1. \A u \in Outstanding : u.lane # l
    BY <1>1, NoneOfIdle DEF IInv, Queues
  <2>2. QED
    BY <1>1, <1>3, <2>1, OtherClosures DEF IInv, Queues, ClosuresOfLanes
<1>5. Lanewise'
  <2>1. ASSUME NEW k \in Lanes, k # l PROVE LaneInv(k)'
    <3>1. Unread(k)' = Unread(k)
      BY <1>3, SameUnread
    <3>2. QED
      BY <1>1, <2>1, <3>1, OtherLane DEF Lanewise, Types, None
  <2>2. LaneInv(l)'
    BY <1>1 DEF Lanewise, LaneInv, AtAnEvent, Busy, Identified, HasRead
  <2>3. QED
    BY <2>1, <2>2 DEF Lanewise
<1>6. Ended' = Ended \cup {l}
  BY <1>1 DEF Ended
<1>7. Counted'
  BY <1>1, <1>6, MoreEnded DEF IInv
<1>8. Outputs'
  BY DEF IInv, Outputs, OneEvent, Whole
<1>9. Once'
  <2>1. Given = ievt /\ Given' = ievt
    BY <1>1 DEF Given
  <2>2. \A o : MarkOf(o)' = MarkOf(o)
    BY DEF MarkOf
  <2>3. \A k \in Lanes : /\ Has(k)' <=> Has(k) /\ k # l
                         /\ Mark(k)' = Mark(k)
    BY <1>1 DEF Has, Busy, Mark
  <2>4. Mark(l) = index[l] /\ Behind(index[l])
    BY <1>1 DEF Mark, Behind
  <2>5. NotTwice'
    BY <2>1, <2>2, <2>3 DEF IInv, Once, NotTwice
  <2>6. NoneLost'
    <3>1. \A i : Behind(i)' = Behind(i)
      BY DEF Behind, Endless
    <3>2. QED
      BY <2>1, <2>2, <2>3, <2>4, <3>1 DEF IInv, Once, NoneLost
  <2>7. EndsThere' /\ OneForEachIndex'
    BY <1>1, <1>6 DEF IInv, Once, EndsThere, OneForEachIndex, Endless
  <2>8. QED
    BY <2>5, <2>6, <2>7 DEF Once
<1>10. QED
  BY <1>2, <1>4, <1>5, <1>7, <1>8, <1>9 DEF IInv

LEMMA ReadEventAsyncKeeps ==
  ASSUME Parameters, IInv, NEW l \in Lanes, ReadEventAsync(l) PROVE IInv'
<1>1. CASE ReadSerial(l)
  BY <1>1, PushKeeps DEF ReadEventAsync, ReadSerial
<1>2. CASE EndOfSerial(l)
  BY <1>2, EndKeeps DEF ReadEventAsync, EndOfSerial, queue
<1>3. CASE ReadShared(l)
  <2>1. kind \notin TestsFirst
    BY <1>3 DEF ReadShared, Decoding, TestsFirst, Delayed
  <2>2. QED
    BY <1>3, <2>1, PushKeeps DEF ReadEventAsync, ReadShared
<1>4. QED
  BY <1>1, <1>2, <1>3 DEF ReadEventAsync

LEMMA StartClosureKeeps == ASSUME Parameters, IInv, StartClosure PROVE IInv'
<1> USE DEF StartClosure, job, lane, pds
<1>1. Types /\ Lanewise
  BY DEF IInv
<1>2. /\ queued' \in Seq(Closures) /\ reading' \subseteq Closures
      /\ Outstanding' = Outstanding /\ Distinct'
  BY BeginFacts DEF IInv, Types, Queues
<1>3. Types'
  BY <1>1, <1>2 DEF Types, Closures, Contents, Entries
<1>4. Queues'
  BY <1>2 DEF IInv, Queues, ClosuresOfLanes, ForItsLane
<1>5. Lanewise'
  <2>1. ASSUME NEW k \in Lanes PROVE LaneInv(k)'
    <3>1. Unread(k)' = Unread(k)
      BY <1>2, SameUnread
    <3>2. QED
      BY <1>1, <3>1, OtherLane DEF Lanewise, Types, None
  <2>2. QED
    BY <2>1 DEF Lanewise
<1>6. Counted' /\ Outputs'
  BY DEF IInv, Counted, Ended, Outputs, OneEvent, Whole
<1>7. Once'
  BY OnceSame DEF IInv, Ended, Waiting, Has, Mark, Busy
<1>8. QED
  BY <1>3, <1>4, <1>5, <1>6, <1>7 DEF IInv

\* A closure that reads the event of its lane has run: the lane has no other one
\* in the queue, and no other lane is disturbed.
LEMMA ReadFacts ==
  ASSUME Parameters, IInv, NEW t \in reading, t.product = 0
  PROVE  /\ t.lane \in Lanes /\ pc[t.lane] = "asked"
         /\ t.index = index[t.lane] /\ index[t.lane] \in Indices
         /\ index[t.lane] < ievt
         /\ kind \in TestsFirst \cup Decoding
         /\ kind \in TestsFirst => index[t.lane] < NInFile
         /\ asked[t.lane] = 0 /\ ready[t.lane] = 0
<1>1. t \in Outstanding /\ Types
  BY DEF IInv, Outstanding
<1>2. PICK l \in Lanes : l = t.lane
  BY <1>1, ClosureFacts
<1>3. pc[l] = "asked" /\ t.index = index[l]
  BY <1>1, <1>2, ParameterFacts DEF IInv, Queues, ClosuresOfLanes, ForItsLane
<1>4. AtAnEvent(l)
  BY DEF IInv, Lanewise, LaneInv
<1>5. QED
  BY <1>2, <1>3, <1>4 DEF AtAnEvent, Busy

LEMMA ReadCore ==
  ASSUME Parameters, IInv, NEW t \in reading, t.product = 0, Queue!Complete,
         NEW l \in Lanes, l = t.lane,
         NEW to \in {"decode", "process", "done"}, Goto(l, "asked", to),
         UNCHANGED <<job, ievt, lane>>,
         \A k \in Lanes : k # l =>
           /\ entry'[k] = entry[k] /\ loaded'[k] = loaded[k] /\ objects'[k] = objects[k]
           /\ identifiers'[k] = identifiers[k] \/ (kind = "TreeGetEntry" /\ ~hasAux)
  PROVE  /\ queued' \in Seq(Closures) /\ reading' \subseteq Closures /\ Queues'
         /\ \A k \in Lanes : k # l => LaneInv(k)'
         /\ Unread(l)' = {} /\ Cardinality(Unread(l)') = 0
<1> USE DEF job, lane, Goto
<1>1. /\ Types /\ Lanewise /\ pc'[l] = to /\ pc[l] = "asked"
      /\ \A k \in Lanes : k # l => pc'[k] = pc[k]
  BY DEF IInv, Types
<1>2. /\ queued' \in Seq(Closures) /\ reading' \subseteq Closures
      /\ t \in Closures /\ t \in Outstanding
      /\ Outstanding' = Outstanding \ {t} /\ Distinct'
  BY <1>1, CompleteFacts DEF Types, IInv, Queues
<1>3. ASSUME NEW u \in Outstanding, u # t PROVE u.lane # l
  <2>1. SUFFICES ASSUME u.lane = l PROVE u = t
    BY <1>3
  <2>2. u \in Closures /\ t \in Closures
    BY <1>1, <1>2, ClosureFacts
  <2>3. u.product = 0 /\ u.index = index[l] /\ t.index = index[l]
    BY <1>1, <1>2, <2>1 DEF IInv, Queues, ClosuresOfLanes, ForItsLane
  <2>4. QED
    BY <2>1, <2>2, <2>3 DEF Closures
<1>4. Queues'
  <2>1. \A u \in Outstanding : u.lane # l => ForItsLane(u)'
    BY <1>1, OtherClosures DEF IInv, Queues
  <2>2. QED
    BY <1>2, <1>3, <2>1 DEF Queues, ClosuresOfLanes
<1>5. ASSUME NEW k \in Lanes, k # l PROVE LaneInv(k)'
  <2>1. Unread(k)' = Unread(k)
    BY <1>2, <1>5, UnreadOfOthers
  <2>2. QED
    BY SMTT(30), <1>1, <1>5, <2>1, OtherLane DEF Lanewise, Types, None
<1>6. Unread(l)' = {}
  BY <1>2, <1>3 DEF Unread
<1>7. Cardinality(Unread(l)') = 0
  BY <1>6, FS_EmptySet
<1>8. QED
  BY <1>2, <1>4, <1>5, <1>6, <1>7

\* A closure of a source that knows the event by its index has read it.
LEMMA ReadKeeps ==
  ASSUME Parameters, IInv, NEW t \in reading, t.product = 0, Queue!Complete,
         NEW l \in Lanes, l = t.lane, kind # "SharedPDS",
         NEW to \in {"decode", "process"}, Goto(l, "asked", to),
         UNCHANGED <<job, ievt, lane, pds, output>>,
         \A k \in Lanes : k # l =>
           /\ entry'[k] = entry[k] /\ loaded'[k] = loaded[k] /\ objects'[k] = objects[k]
           /\ identifiers'[k] = identifiers[k] \/ (kind = "TreeGetEntry" /\ ~hasAux),
         Identified(l)', HasRead(l)',
         to = "decode" => kind = "SharedRootEvent" /\ index[l] < NInFile,
         to = "process" => kind \in TestsFirst,
         /\ entry' \in [Lanes -> Events \cup {None}]
         /\ loaded' \in [Lanes -> Events \cup {None}]
         /\ identifiers' \in [Lanes -> Events \cup {None}]
         /\ objects' \in [Lanes -> Contents]
         /\ idAddress' \in Lanes \cup {None} /\ (hasAux => idAddress' = None)
  PROVE  IInv'
<1>1. /\ queued' \in Seq(Closures) /\ reading' \subseteq Closures /\ Queues'
      /\ \A k \in Lanes : k # l => LaneInv(k)'
  BY ReadCore DEF pds
<1> USE DEF job, lane, pds, Goto
<1>2. /\ Types /\ Lanewise /\ pc'[l] = to /\ pc[l] = "asked"
      /\ \A k \in Lanes : k # l => pc'[k] = pc[k]
      /\ pc' \in [Lanes -> {"next", "asking", "asked", "decode", "process", "done"}]
  BY DEF IInv, Types
<1>3. Types'
  BY <1>1, <1>2 DEF Types, Closures, Contents, Entries
<1>4. Lanewise'
  <2>1. AtAnEvent(l)'
    BY <1>2, ReadFacts DEF AtAnEvent, Busy, Indices, TestsFirst, Delayed, Decoding
  <2>2. QED
    BY <1>1, <2>1 DEF Lanewise, LaneInv
<1>5. Counted'
  <2>1. Ended' = Ended
    BY <1>2 DEF Ended
  <2>2. QED
    BY <1>2, <2>1, MoreEnded DEF IInv
<1>6. Outputs'
  BY DEF IInv, Outputs, OneEvent, Whole
<1>7. Once'
  <2>1. Given' = Given /\ \A o : MarkOf(o)' = MarkOf(o)
    BY DEF Given, MarkOf
  <2>2. \A k \in Lanes : Has(k)' = Has(k) /\ Mark(k)' = Mark(k)
    BY <1>2 DEF Has, Busy, Mark
  <2>3. NotTwice'
    BY <2>1, <2>2 DEF IInv, Once, NotTwice
  <2>4. NoneLost'
    BY <2>1, <2>2 DEF IInv, Once, NoneLost, Behind, Endless
  <2>5. Ended' = Ended
    BY <1>2 DEF Ended
  <2>6. EndsThere' /\ OneForEachIndex'
    BY <2>5 DEF IInv, Once, EndsThere, OneForEachIndex, Endless
  <2>7. QED
    BY <2>3, <2>4, <2>6 DEF Once
<1>8. QED
  BY <1>1, <1>3, <1>4, <1>5, <1>6, <1>7 DEF IInv

\* The end of the tree, found inside the closure.
LEMMA ReadEndKeeps ==
  ASSUME Parameters, IInv, NEW t \in reading, t.product = 0, Queue!Complete,
         NEW l \in Lanes, l = t.lane, Goto(l, "asked", "done"),
         \/ kind = "SharedRootEvent" /\ index[l] >= NInFile
         \/ kind = "SharedPDS" /\ filePos[0] >= NInFile,
         UNCHANGED <<job, ievt, lane, entry, loaded, identifiers, objects, idAddress,
                     pds, output>>
  PROVE  IInv'
<1>1. /\ queued' \in Seq(Closures) /\ reading' \subseteq Closures /\ Queues'
      /\ \A k \in Lanes : k # l => LaneInv(k)'
  BY ReadCore
<1> USE DEF job, lane, pds, Goto
<1>2. /\ Types /\ Lanewise /\ pc'[l] = "done" /\ pc[l] = "asked"
      /\ \A k \in Lanes : k # l => pc'[k] = pc[k]
      /\ pc' \in [Lanes -> {"next", "asking", "asked", "decode", "process", "done"}]
      /\ index[l] \in Indices /\ index[l] < ievt
  BY ReadFacts DEF IInv, Types
<1>3. Types'
  BY <1>1, <1>2 DEF Types, Closures, Contents, Entries
<1>4. Lanewise'
  <2>1. LaneInv(l)'
    BY <1>2 DEF LaneInv, AtAnEvent, Busy, Identified, HasRead
  <2>2. QED
    BY <1>1, <2>1 DEF Lanewise
<1>5. Ended' = Ended \cup {l}
  BY <1>2 DEF Ended
<1>6. Counted'
  BY <1>2, <1>5, MoreEnded DEF IInv
<1>7. Outputs'
  BY DEF IInv, Outputs, OneEvent, Whole
<1>8. Given' = Given /\ \A o : MarkOf(o)' = MarkOf(o)
  BY DEF Given, MarkOf
<1>9. \A i : Behind(i)' = Behind(i)
  BY DEF Behind, Endless
<1>10. NotTwice' /\ NoneLost'
  <2>1. CASE kind = "SharedPDS"
    <3>1. \A k \in Lanes : Has(k)' = Has(k) /\ Mark(k)' = Mark(k)
      BY <1>2, <2>1 DEF Has, Mark
    <3>2. QED
      BY <1>8, <1>9, <3>1 DEF IInv, Once, NotTwice, NoneLost
  <2>2. CASE kind # "SharedPDS"
    <3>1. \A k \in Lanes : (Has(k)' <=> Has(k) /\ k # l) /\ Mark(k)' = Mark(k)
      BY <1>2, <2>2 DEF Has, Busy, Mark
    <3>2. Mark(l) = index[l] /\ Behind(index[l])
      BY <2>2 DEF Mark, Behind, Endless
    <3>3. NotTwice'
      BY <1>8, <3>1 DEF IInv, Once, NotTwice
    <3>4. NoneLost'
      BY <1>8, <1>9, <3>1, <3>2 DEF IInv, Once, NoneLost
    <3>5. QED
      BY <3>3, <3>4
  <2>3. QED
    BY <2>1, <2>2
<1>11. filePos[0] \in 0..NInFile
  BY <1>2, ParameterFacts DEF Types
<1>12. EndsThere'
  BY <1>2, <1>5, <1>11 DEF IInv, Once, EndsThere, Endless, Parameters
<1>13. OneForEachIndex'
  <2>1. SUFFICES ASSUME kind = "SharedPDS"
        PROVE  /\ filePos[0] + Cardinality(Waiting') <= Asking'
               /\ filePos[0] = NInFile
    BY DEF OneForEachIndex
  <2>2. Waiting' = Waiting \ {l} /\ l \in Waiting
    BY <1>2 DEF Waiting
  <2>3. IsFiniteSet(Waiting) /\ Cardinality(Waiting) \in Nat
    BY ParameterFacts, FS_Subset, FS_CardinalityType DEF Waiting
  <2>4. Cardinality(Waiting') = Cardinality(Waiting) - 1
    BY <2>2, <2>3, FS_RemoveElement
  <2>5. Asking' = Asking /\ Asking \in Int
    BY <1>2 DEF Asking, Types, Parameters
  <2>6. filePos[0] + Cardinality(Waiting) <= Asking
    BY <2>1 DEF IInv, Once, OneForEachIndex
  <2>7. QED
    BY <2>1, <2>3, <2>4, <2>5, <2>6, <1>11 DEF Parameters
<1>14. QED
  BY <1>1, <1>3, <1>4, <1>6, <1>7, <1>10, <1>12, <1>13 DEF IInv, Once

\* SharedPDSSource: the next event of the file, whatever the index.
LEMMA ReadPDSKeeps ==
  ASSUME Parameters, IInv, NEW t \in reading, t.product = 0, Queue!Complete,
         NEW l \in Lanes, l = t.lane, ReadPDS(l), filePos[0] < NInFile,
         UNCHANGED <<job, ievt, lane, output>>
  PROVE  IInv'
<1> DEFINE P == filePos[0]
<1>1. /\ kind = "SharedPDS" /\ Goto(l, "asked", "decode")
      /\ identifiers' = [identifiers EXCEPT ![l] = P]
      /\ loaded' = [loaded EXCEPT ![l] = P]
      /\ filePos' = [filePos EXCEPT ![0] = P + 1]
  BY DEF ReadPDS
<1>2. /\ queued' \in Seq(Closures) /\ reading' \subseteq Closures /\ Queues'
      /\ \A k \in Lanes : k # l => LaneInv(k)'
  <2>1. \A k \in Lanes : k # l => /\ loaded'[k] = loaded[k]
                                  /\ identifiers'[k] = identifiers[k]
    BY <1>1 DEF IInv, Types
  <2>2. QED
    BY <1>1, <2>1, ReadCore DEF ReadPDS
<1> USE DEF job, lane, Goto, ReadPDS
<1>3. /\ Types /\ Lanewise /\ pc'[l] = "decode" /\ pc[l] = "asked"
      /\ \A k \in Lanes : k # l => pc'[k] = pc[k]
      /\ pc' \in [Lanes -> {"next", "asking", "asked", "decode", "process", "done"}]
      /\ index[l] \in Indices /\ index[l] < ievt /\ asked[l] = 0 /\ ready[l] = 0
      /\ P \in 0..(NInFile - 1) /\ P \in Events /\ filePos'[0] = P + 1
      /\ filePos' \in [Lanes -> 0..NInFile]
      /\ identifiers'[l] = P /\ loaded'[l] = P
      /\ \A k \in Lanes : k # l => identifiers'[k] = identifiers[k]
  <2>1. Types /\ Lanewise
    BY DEF IInv
  <2>2. /\ index[l] \in Indices /\ index[l] < ievt /\ asked[l] = 0 /\ ready[l] = 0
        /\ pc[l] = "asked"
    BY ReadFacts
  <2>3. P \in 0..NInFile /\ 0 \in Lanes
    BY <2>1, ParameterFacts DEF Types
  <2>4. P \in 0..(NInFile - 1) /\ P + 1 \in 0..NInFile /\ P \in Events
    BY <2>3, ParameterFacts DEF Parameters
  <2>5. /\ filePos'[0] = P + 1 /\ filePos' \in [Lanes -> 0..NInFile]
        /\ identifiers'[l] = P /\ loaded'[l] = P /\ pc'[l] = "decode"
        /\ \A k \in Lanes : k # l => identifiers'[k] = identifiers[k] /\ pc'[k] = pc[k]
        /\ pc' \in [Lanes -> {"next", "asking", "asked", "decode", "process", "done"}]
    BY <1>1, <2>1, <2>3, <2>4 DEF Types
  <2>6. QED
    BY <2>1, <2>2, <2>4, <2>5
<1>4. Types'
  <2>1. /\ identifiers' \in [Lanes -> Events \cup {None}]
        /\ loaded' \in [Lanes -> Events \cup {None}]
    BY <1>1, <1>3 DEF Types
  <2>2. QED
    BY <1>1, <1>2, <1>3, <2>1 DEF Types, Closures, Contents, Entries
<1>5. Lanewise'
  <2>1. LaneInv(l)'
    BY <1>1, <1>3 DEF LaneInv, AtAnEvent, Busy, Indices, Identified, HasRead, EventOf,
                      Decoding, TestsFirst, Delayed
  <2>2. QED
    BY <1>2, <2>1 DEF Lanewise
<1>6. Ended' = Ended
  BY <1>3 DEF Ended
<1>7. Counted'
  BY <1>3, <1>6, MoreEnded DEF IInv
<1>8. Outputs'
  BY DEF IInv, Outputs, OneEvent, Whole
<1>9. /\ Given = P /\ Given' = P + 1 /\ \A o : MarkOf(o)' = MarkOf(o)
      /\ \A k \in Lanes : k # l => Has(k)' = Has(k) /\ Mark(k)' = Mark(k)
      /\ Has(l)' /\ ~Has(l) /\ Mark(l)' = P
  BY <1>1, <1>3 DEF Given, MarkOf, Has, Mark
<1>10. NotTwice /\ NoneLost
  BY DEF IInv, Once
<1>11. NotTwice'
  BY <1>3, <1>9, <1>10 DEF NotTwice
<1>12. NoneLost'
  <2>1. ASSUME NEW i \in 0..P
        PROVE  \/ \E k \in Lanes : Has(k)' /\ Mark(k)' = i
               \/ \E o \in output : MarkOf(o) = i
    <3>1. CASE i = P
      BY <1>9, <3>1
    <3>2. CASE i # P
      BY <1>1, <1>3, <1>9, <1>10, <3>2 DEF NoneLost, Behind
    <3>3. QED
      BY <3>1, <3>2
  <2>2. QED
    BY <1>3, <1>9, <2>1 DEF NoneLost
<1>13. EndsThere'
  BY <1>1, <1>3, <1>6 DEF IInv, Once, EndsThere
<1>14. OneForEachIndex'
  <2>1. Waiting' = Waiting \ {l} /\ l \in Waiting
    BY <1>3 DEF Waiting
  <2>2. IsFiniteSet(Waiting) /\ Cardinality(Waiting) \in Nat
    BY ParameterFacts, FS_Subset, FS_CardinalityType DEF Waiting
  <2>3. Cardinality(Waiting') = Cardinality(Waiting) - 1
    BY <2>1, <2>2, FS_RemoveElement
  <2>4. Asking' = Asking /\ Asking \in Int
    BY <1>3 DEF Asking, Types, Parameters
  <2>5. P + Cardinality(Waiting) = Asking
    BY <1>1, <1>3 DEF IInv, Once, OneForEachIndex
  <2>6. filePos'[0] + Cardinality(Waiting') = Asking'
    BY <1>3, <2>2, <2>3, <2>4, <2>5
  <2>7. QED
    BY <2>4, <2>6 DEF OneForEachIndex
<1>15. QED
  BY <1>2, <1>4, <1>5, <1>7, <1>8, <1>11, <1>12, <1>13, <1>14 DEF IInv, Once

LEMMA RunReadKeeps == ASSUME Parameters, IInv, RunRead PROVE IInv'
<1>1. PICK t \in reading :
        /\ t.product = 0 /\ Queue!Complete
        /\ \/ ReadIdentifier(t.lane, t.index) \/ ReadPrompt(t.lane, t.index)
           \/ ReadTree(t.lane, t.index) \/ ReadRootEvent(t.lane, t.index)
           \/ ReadPDS(t.lane)
  BY DEF RunRead
<1>2. PICK l \in Lanes : l = t.lane
  BY <1>1, ReadFacts
<1>3. /\ t.index = index[l] /\ index[l] \in Indices /\ index[l] \in Events
      /\ pc[l] = "asked" /\ asked[l] = 0 /\ ready[l] = 0
      /\ UNCHANGED <<job, ievt, lane, output>> /\ Types
  BY <1>1, <1>2, ReadFacts, ParameterFacts DEF RunRead, IInv
<1> DEFINE i == index[l]
<1>4. ASSUME NEW x \in Events \cup {None}
      PROVE  Whole(x) \in Contents
  BY <1>4 DEF Whole, Contents
<1>5. ASSUME NEW to \in {"decode", "process"}, Goto(l, "asked", to), kind # "SharedPDS",
             \A k \in Lanes : k # l =>
               /\ entry'[k] = entry[k] /\ loaded'[k] = loaded[k] /\ objects'[k] = objects[k]
               /\ identifiers'[k] = identifiers[k] \/ (kind = "TreeGetEntry" /\ ~hasAux)
      PROVE  Cardinality(Unread(l)') = 0
  BY <1>1, <1>2, <1>3, <1>5, ReadCore
<1>6. CASE ReadIdentifier(l, i)
  <2>1. /\ kind \in Delayed /\ kind \in TestsFirst /\ kind # "SharedPDS"
        /\ Goto(l, "asked", "process") /\ pc'[l] = "process"
        /\ UNCHANGED <<loaded, objects, idAddress, pds, lane, job>>
        /\ identifiers' = [identifiers EXCEPT ![l] = i]
        /\ entry' = [entry EXCEPT ![l] = i]
    BY <1>3, <1>6 DEF ReadIdentifier, Delayed, TestsFirst, Goto, Types
  <2>2. /\ identifiers' \in [Lanes -> Events \cup {None}]
        /\ entry' \in [Lanes -> Events \cup {None}]
        /\ identifiers'[l] = i /\ entry'[l] = i
        /\ \A k \in Lanes : k # l => identifiers'[k] = identifiers[k] /\ entry'[k] = entry[k]
    BY <1>3, <2>1 DEF Types
  <2>3. Cardinality(Unread(l)') = 0
    BY <1>5, <2>1, <2>2
  <2>4. Identified(l)' /\ HasRead(l)'
    BY <1>3, <2>1, <2>2, <2>3 DEF Identified, HasRead, EventOf, lane, job, Delayed
  <2>5. QED
    BY <1>1, <1>2, <1>3, <2>1, <2>2, <2>4, ReadKeeps DEF Types
<1>7. CASE ReadPrompt(l, i)
  <2>1. /\ kind = "RNTuplePrompt" /\ kind \in TestsFirst
        /\ Goto(l, "asked", "process") /\ pc'[l] = "process"
        /\ UNCHANGED <<loaded, entry, idAddress, pds, lane, job>>
        /\ identifiers' = [identifiers EXCEPT ![l] = i]
        /\ objects' = [objects EXCEPT ![l] = Whole(i)]
    BY <1>3, <1>7 DEF ReadPrompt, TestsFirst, Goto, Types, AllProducts, Whole
  <2>2. /\ identifiers' \in [Lanes -> Events \cup {None}]
        /\ objects' \in [Lanes -> Contents]
        /\ identifiers'[l] = i /\ objects'[l] = Whole(i)
        /\ \A k \in Lanes : k # l => /\ identifiers'[k] = identifiers[k]
                                     /\ objects'[k] = objects[k]
    BY <1>3, <1>4, <2>1 DEF Types
  <2>3. Cardinality(Unread(l)') = 0
    BY <1>5, <2>1, <2>2
  <2>4. Identified(l)' /\ HasRead(l)'
    BY <1>3, <2>1, <2>2, <2>3 DEF Identified, HasRead, EventOf, lane, job, Delayed, Whole
  <2>5. QED
    BY <1>1, <1>2, <1>3, <2>1, <2>2, <2>4, ReadKeeps DEF Types
<1>8. CASE ReadTree(l, i)
  <2>1. /\ kind = "TreeGetEntry" /\ kind \in TestsFirst
        /\ Goto(l, "asked", "process") /\ pc'[l] = "process"
        /\ UNCHANGED <<loaded, entry, pds, lane, job>>
        /\ identifiers' = [k \in Lanes |-> IF k \in {l, idAddress} THEN i
                                                                   ELSE identifiers[k]]
        /\ objects' = [objects EXCEPT ![l] = Whole(i)]
        /\ idAddress' = IF hasAux THEN idAddress ELSE l
    BY <1>3, <1>8 DEF ReadTree, TestsFirst, Goto, Types, AllProducts, Whole
  <2>2. /\ identifiers' \in [Lanes -> Events \cup {None}]
        /\ objects' \in [Lanes -> Contents]
        /\ identifiers'[l] = i /\ objects'[l] = Whole(i)
        /\ idAddress' \in Lanes \cup {None} /\ (hasAux => idAddress' = None)
        /\ \A k \in Lanes : k # l => /\ identifiers'[k] = identifiers[k] \/ ~hasAux
                                     /\ objects'[k] = objects[k]
    BY <1>3, <1>4, <2>1, ParameterFacts DEF Types
  <2>3. Cardinality(Unread(l)') = 0
    BY <1>5, <2>1, <2>2
  <2>4. Identified(l)' /\ HasRead(l)'
    BY <1>3, <2>1, <2>2, <2>3 DEF Identified, HasRead, EventOf, lane, job, Delayed, Whole
  <2>5. QED
    BY <1>1, <1>2, <1>3, <2>1, <2>2, <2>4, ReadKeeps DEF Types
<1>9. CASE ReadRootEvent(l, i) /\ i < NInFile
  <2>1. /\ kind = "SharedRootEvent"
        /\ Goto(l, "asked", "decode") /\ pc'[l] = "decode"
        /\ UNCHANGED <<entry, objects, idAddress, pds, lane, job>>
        /\ identifiers' = [identifiers EXCEPT ![l] = i]
        /\ loaded' = [loaded EXCEPT ![l] = i]
    BY <1>3, <1>9 DEF ReadRootEvent, Goto, Types
  <2>2. /\ identifiers' \in [Lanes -> Events \cup {None}]
        /\ loaded' \in [Lanes -> Events \cup {None}]
        /\ identifiers'[l] = i /\ loaded'[l] = i
        /\ \A k \in Lanes : k # l => identifiers'[k] = identifiers[k] /\ loaded'[k] = loaded[k]
    BY <1>3, <2>1 DEF Types
  <2>3. Identified(l)' /\ HasRead(l)'
    BY <1>3, <2>1, <2>2 DEF Identified, HasRead, EventOf, lane, job, Delayed
  <2>4. QED
    BY <1>1, <1>2, <1>3, <1>9, <2>1, <2>2, <2>3, ReadKeeps DEF Types
<1>10. CASE ReadRootEvent(l, i) /\ ~(i < NInFile)
  <2>1. i >= NInFile
    BY <1>3, <1>10, ParameterFacts DEF Parameters
  <2>2. QED
    BY <1>1, <1>2, <1>3, <1>10, <2>1, ReadEndKeeps DEF ReadRootEvent
<1>11. CASE ReadPDS(l) /\ filePos[0] < NInFile
  BY <1>1, <1>2, <1>3, <1>11, ReadPDSKeeps
<1>12. CASE ReadPDS(l) /\ ~(filePos[0] < NInFile)
  <2>1. filePos[0] >= NInFile
    BY <1>3, <1>12, ParameterFacts DEF Parameters, Types
  <2>2. QED
    BY <1>1, <1>2, <1>3, <1>12, <2>1, ReadEndKeeps DEF ReadPDS, pds
<1>13. QED
  BY <1>1, <1>2, <1>3, <1>6, <1>7, <1>8, <1>9, <1>10, <1>11, <1>12

LEMMA IdleHasRead ==
  ASSUME IInv, NEW l \in Lanes, pc[l] \in {"asking", "decode"}
  PROVE  /\ \A t \in Outstanding : t.lane # l
         /\ Unread(l) = {} /\ Cardinality(Unread(l)) = 0
<1>1. \A t \in Outstanding : t.lane # l
  BY NoneOfIdle DEF IInv, Queues
<1>2. QED
  BY <1>1, FS_EmptySet DEF Unread

\* A lane gets its event without the queue: decoded from what its closure
\* captured, or read by a source of its own.
LEMMA ProcessKeeps ==
  ASSUME Parameters, IInv, NEW l \in Lanes, NEW from \in {"asking", "decode"},
         Goto(l, from, "process"),
         UNCHANGED <<job, ievt, lane, queue, loaded, idAddress, output>>,
         \A k \in Lanes : k # l =>
           /\ entry'[k] = entry[k] /\ objects'[k] = objects[k]
           /\ identifiers'[k] = identifiers[k],
         from = "decode" => UNCHANGED <<identifiers, filePos>>,
         from = "asking" => kind \in AtOnce,
         kind = "SharedPDS" => UNCHANGED filePos,
         kind \in {"ReplicatedRoot", "ReplicatedPDS"} => index[l] < NInFile,
         kind = "TestProducts" => entry'[l] = index[l],
         kind # "TestProducts" => objects'[l] = Whole(EventOf(l)),
         Identified(l)',
         /\ entry' \in [Lanes -> Events \cup {None}]
         /\ identifiers' \in [Lanes -> Events \cup {None}]
         /\ objects' \in [Lanes -> Contents]
         /\ filePos' \in [Lanes -> 0..NInFile]
         /\ presentEventIndex' \in [Lanes -> Nat]
         /\ kind = "ReplicatedPDS" => filePos' = presentEventIndex'
  PROVE  IInv'
<1> USE DEF job, lane, queue, Goto
<1>1. /\ Types /\ Lanewise /\ pc'[l] = "process" /\ pc[l] = from
      /\ \A k \in Lanes : k # l => pc'[k] = pc[k]
      /\ pc' \in [Lanes -> {"next", "asking", "asked", "decode", "process", "done"}]
      /\ index[l] \in Indices /\ index[l] < ievt /\ asked[l] = 0 /\ ready[l] = 0
      /\ kind \in AtOnce \cup Decoding
      /\ kind = "SharedPDS" => from = "decode"
      /\ from = "decode" /\ kind = "SharedRootEvent" => index[l] < NInFile
      /\ from = "decode" /\ kind = "SharedPDS" => identifiers[l] \in 0..(NInFile - 1)
  BY DEF IInv, Types, Lanewise, LaneInv, AtAnEvent, Busy, AtOnce, Decoding
<1>2. /\ \A u \in Outstanding : u.lane # l
      /\ Unread(l) = {} /\ Cardinality(Unread(l)) = 0
  BY <1>1, IdleHasRead
<1>3. Outstanding' = Outstanding /\ Distinct'
  BY SameQueue DEF IInv, Queues
<1>4. Types'
  BY <1>1 DEF Types, Closures, Contents, Entries
<1>5. Queues'
  BY <1>1, <1>2, <1>3, OtherClosures DEF IInv, Queues, ClosuresOfLanes
<1>6. Lanewise'
  <2>1. ASSUME NEW k \in Lanes, k # l PROVE LaneInv(k)'
    <3>1. Unread(k)' = Unread(k)
      BY <1>3, SameUnread
    <3>2. QED
      BY <1>1, <2>1, <3>1, OtherLane DEF Lanewise, Types, None
  <2>2. AtAnEvent(l)'
    BY <1>1 DEF AtAnEvent, Busy, Indices, AtOnce, Decoding, TestsFirst, Delayed
  <2>3. HasRead(l)'
    <3>1. Unread(l)' = Unread(l)
      BY <1>3, SameUnread
    <3>2. EventOf(l)' = EventOf(l)
      BY <1>1 DEF EventOf
    <3>3. kind \notin Delayed
      BY <1>1 DEF AtOnce, Decoding, Delayed
    <3>4. QED
      BY <1>1, <1>2, <3>1, <3>2, <3>3 DEF HasRead, Whole
  <2>4. QED
    BY <2>1, <2>2, <2>3 DEF Lanewise, LaneInv
<1>7. Ended' = Ended /\ (kind = "SharedPDS" => Waiting' = Waiting)
  BY <1>1 DEF Ended, Waiting
<1>8. Counted'
  BY <1>1, <1>7, MoreEnded DEF IInv
<1>9. Outputs'
  BY DEF IInv, Outputs, OneEvent, Whole
<1>10. Once'
  <2>1. Given' = Given /\ \A o : MarkOf(o)' = MarkOf(o)
    BY DEF Given, MarkOf
  <2>2. \A k \in Lanes : Has(k)' = Has(k) /\ Mark(k)' = Mark(k)
    BY <1>1 DEF Has, Busy, Mark
  <2>3. NotTwice'
    BY <2>1, <2>2 DEF IInv, Once, NotTwice
  <2>4. NoneLost'
    BY <2>1, <2>2 DEF IInv, Once, NoneLost, Behind, Endless
  <2>5. EndsThere' /\ OneForEachIndex'
    BY <1>7 DEF IInv, Once, EndsThere, OneForEachIndex, Endless, Asking
  <2>6. QED
    BY <2>3, <2>4, <2>5 DEF Once
<1>11. QED
  BY <1>4, <1>5, <1>6, <1>8, <1>9, <1>10 DEF IInv

LEMMA DecodeKeeps ==
  ASSUME Parameters, IInv, NEW l \in Lanes, Decode(l) PROVE IInv'
<1>1. /\ Types /\ pc[l] = "decode" /\ kind \in Decoding /\ loaded[l] = EventOf(l)
      /\ Identified(l)
  BY DEF IInv, Decode, Goto, Lanewise, LaneInv, AtAnEvent, HasRead
<1>2. /\ Goto(l, "decode", "process")
      /\ objects' = [objects EXCEPT ![l] = Whole(EventOf(l))]
      /\ UNCHANGED <<job, ievt, lane, queue, entry, loaded, identifiers, idAddress, pds,
                     output>>
  BY <1>1 DEF Decode, AllProducts, Whole
<1>3. Whole(EventOf(l)) \in Contents
  <2>1. EventOf(l) \in Events \cup {None}
    BY <1>1 DEF Types
  <2>2. QED
    BY <2>1 DEF Whole, Contents
<1>4. /\ objects' \in [Lanes -> Contents] /\ objects'[l] = Whole(EventOf(l))
      /\ \A k \in Lanes : k # l => objects'[k] = objects[k]
  BY <1>1, <1>2, <1>3 DEF Types
<1>5. Identified(l)'
  BY <1>1, <1>2 DEF Identified, EventOf, job, lane
<1>6. kind \notin AtOnce
  BY <1>1 DEF AtOnce, Decoding
<1>7. QED
  BY <1>1, <1>2, <1>4, <1>5, <1>6, ProcessKeeps DEF Types, pds, AtOnce, Decoding

LEMMA ReadAtOnceKeeps ==
  ASSUME Parameters, IInv, NEW l \in Lanes, ReadAtOnce(l) PROVE IInv'
<1>1. Types /\ UNCHANGED <<job, ievt, lane, queue, loaded, idAddress, output>>
  BY DEF IInv, ReadAtOnce
<1>2. pc[l] = "asking" => /\ index[l] \in Indices /\ index[l] \in Events /\ index[l] \in Nat
                          /\ (index[l] % nUniqueEvents) \in Events
  BY ParameterFacts DEF IInv, Lanewise, LaneInv, AtAnEvent, Busy
<1>3. ASSUME NEW x \in Events PROVE Whole(x) \in Contents
  BY <1>3 DEF Whole, Contents
<1>4. CASE Repeat(l)
  <2>1. /\ kind = "Repeating" /\ Goto(l, "asking", "process") /\ pc[l] = "asking"
        /\ UNCHANGED <<entry, identifiers, filePos, presentEventIndex>>
        /\ objects' = [objects EXCEPT ![l] = Whole(index[l] % nUniqueEvents)]
    BY <1>4 DEF Repeat, AllProducts, Whole, pds, Goto
  <2>2. EventOf(l) = index[l] % nUniqueEvents /\ EventOf(l) \in Events
    BY <1>2, <2>1 DEF EventOf
  <2>3. /\ objects' \in [Lanes -> Contents] /\ objects'[l] = Whole(EventOf(l))
        /\ \A k \in Lanes : k # l => objects'[k] = objects[k]
    BY <1>1, <1>3, <2>1, <2>2 DEF Types
  <2>4. Identified(l)'
    BY <1>1, <2>1 DEF Identified, job
  <2>5. QED
    BY <1>1, <2>1, <2>3, <2>4, ProcessKeeps DEF Types, AtOnce
<1>5. CASE SetEventIndex(l)
  <2>1. /\ kind = "TestProducts" /\ Goto(l, "asking", "process") /\ pc[l] = "asking"
        /\ UNCHANGED <<objects, identifiers, filePos, presentEventIndex>>
        /\ entry' = [entry EXCEPT ![l] = index[l]]
    BY <1>5 DEF SetEventIndex, pds, Goto
  <2>2. /\ entry' \in [Lanes -> Events \cup {None}] /\ entry'[l] = index[l]
        /\ \A k \in Lanes : k # l => entry'[k] = entry[k]
    BY <1>1, <1>2, <2>1 DEF Types
  <2>3. Identified(l)'
    BY <1>1, <2>1 DEF Identified, job
  <2>4. QED
    BY <1>1, <2>1, <2>2, <2>3, ProcessKeeps DEF Types, AtOnce
<1>6. CASE ReadReplicatedRoot(l) /\ index[l] < NInFile
  <2>1. /\ kind = "ReplicatedRoot" /\ Goto(l, "asking", "process") /\ pc[l] = "asking"
        /\ UNCHANGED <<entry, filePos, presentEventIndex>>
        /\ identifiers' = [identifiers EXCEPT ![l] = index[l]]
        /\ objects' = [objects EXCEPT ![l] = Whole(index[l])]
    BY <1>6 DEF ReadReplicatedRoot, AllProducts, Whole, pds, Goto
  <2>2. EventOf(l) = index[l] /\ EventOf(l)' = index[l]
    BY <1>1, <2>1 DEF EventOf, job, lane
  <2>3. /\ objects' \in [Lanes -> Contents] /\ objects'[l] = Whole(EventOf(l))
        /\ identifiers' \in [Lanes -> Events \cup {None}] /\ identifiers'[l] = index[l]
        /\ \A k \in Lanes : k # l => /\ objects'[k] = objects[k]
                                     /\ identifiers'[k] = identifiers[k]
    BY <1>1, <1>2, <1>3, <2>1, <2>2 DEF Types
  <2>4. Identified(l)'
    BY <2>2, <2>3 DEF Identified
  <2>5. QED
    BY <1>1, <1>6, <2>1, <2>3, <2>4, ProcessKeeps DEF Types, AtOnce
<1>7. CASE ReadReplicatedRoot(l) /\ ~(index[l] < NInFile)
  <2>1. pc[l] = "asking" /\ index[l] >= NInFile
    BY <1>2, <1>7 DEF ReadReplicatedRoot, Goto, Parameters
  <2>2. QED
    BY <1>1, <1>7, <2>1, EndKeeps DEF ReadReplicatedRoot
<1> DEFINE e == filePos[l] + (index[l] - presentEventIndex[l])
<1>8. kind = "ReplicatedPDS" /\ pc[l] = "asking" => e = index[l]
  <2>1. kind = "ReplicatedPDS" => filePos[l] = presentEventIndex[l] /\ filePos[l] \in Nat
    BY <1>1 DEF Types, Parameters
  <2>2. QED
    BY <1>2, <2>1
<1>9. CASE ReadReplicatedPDS(l) /\ e < NInFile
  <2>1. /\ kind = "ReplicatedPDS" /\ Goto(l, "asking", "process") /\ pc[l] = "asking"
        /\ entry' = entry
        /\ identifiers' = [identifiers EXCEPT ![l] = index[l]]
        /\ objects' = [objects EXCEPT ![l] = Whole(index[l])]
        /\ filePos' = [filePos EXCEPT ![l] = index[l] + 1]
        /\ presentEventIndex' = [presentEventIndex EXCEPT ![l] = index[l] + 1]
        /\ index[l] < NInFile
    BY <1>8, <1>9 DEF ReadReplicatedPDS, AllProducts, Whole, Goto
  <2>2. EventOf(l) = index[l] /\ EventOf(l)' = index[l]
    BY <1>1, <2>1 DEF EventOf, job, lane
  <2>3. /\ objects' \in [Lanes -> Contents] /\ objects'[l] = Whole(EventOf(l))
        /\ identifiers' \in [Lanes -> Events \cup {None}] /\ identifiers'[l] = index[l]
        /\ \A k \in Lanes : k # l => /\ objects'[k] = objects[k]
                                     /\ identifiers'[k] = identifiers[k]
    BY <1>1, <1>2, <1>3, <2>1, <2>2 DEF Types
  <2>4. index[l] + 1 \in 0..NInFile /\ index[l] + 1 \in Nat
    BY <1>2, <2>1 DEF Parameters
  <2>5. /\ filePos' \in [Lanes -> 0..NInFile] /\ presentEventIndex' \in [Lanes -> Nat]
        /\ filePos' = presentEventIndex'
    BY <1>1, <2>1, <2>4 DEF Types
  <2>6. Identified(l)'
    BY <2>2, <2>3 DEF Identified
  <2>7. QED
    BY <1>1, <2>1, <2>3, <2>5, <2>6, ProcessKeeps DEF Types, AtOnce
<1>10. CASE ReadReplicatedPDS(l) /\ ~(e < NInFile)
  <2>1. /\ pc[l] = "asking" /\ kind = "ReplicatedPDS" /\ Goto(l, "asking", "done")
        /\ UNCHANGED <<identifiers, objects, pds, entry>>
    BY <1>10 DEF ReadReplicatedPDS, Goto
  <2>2. index[l] >= NInFile
    BY <1>2, <1>8, <1>10, <2>1 DEF Parameters
  <2>3. QED
    BY <1>1, <2>1, <2>2, EndKeeps
<1>11. QED
  BY <1>4, <1>5, <1>6, <1>7, <1>9, <1>10 DEF ReadAtOnce

\* A step inside an event, of a lane that processes it or of its closure, changes
\* neither where the lanes are nor whose event is whose.
LEMMA InsideKeeps ==
  ASSUME IInv, UNCHANGED <<job, ievt, index, pc, identifiers, pds, output>>
  PROVE  Counted' /\ Outputs' /\ Once'
<1> USE DEF job, pds
<1>1. Ended' = Ended /\ Waiting' = Waiting
  BY DEF Ended, Waiting
<1>2. Counted' /\ Outputs'
  BY <1>1 DEF IInv, Counted, Outputs, OneEvent, Whole
<1>3. Once'
  BY <1>1, OnceSame DEF IInv, Has, Mark, Busy
<1>4. QED
  BY <1>2, <1>3

LEMMA UnreadFacts ==
  ASSUME Parameters, IInv, NEW l \in Lanes
  PROVE  /\ IsFiniteSet(Unread(l)) /\ Cardinality(Unread(l)) \in Nat
         /\ Unread(l) \subseteq Products
         /\ \A p \in Unread(l) : p <= asked[l]
<1>1. IsFiniteSet(Unread(l)) /\ Unread(l) \subseteq Products
  BY ParameterFacts, FS_Subset DEF Unread
<1>2. ASSUME NEW p \in Unread(l) PROVE p <= asked[l]
  <2>1. PICK t \in Outstanding : t.lane = l /\ t.product = p
    BY DEF Unread
  <2>2. ForItsLane(t) /\ p # 0
    BY <2>1, <1>1, ParameterFacts DEF IInv, Queues, ClosuresOfLanes
  <2>3. QED
    BY <2>1, <2>2 DEF ForItsLane
<1>3. QED
  BY <1>1, <1>2, FS_CardinalityType

\* The retriever pushes the reading of the next data product.
LEMMA AskDelayedKeeps ==
  ASSUME Parameters, IInv, NEW l \in Lanes, GetAsync(l), AskDelayed(l) PROVE IInv'
<1> USE DEF GetAsync, AskDelayed, job, pds
<1>1. /\ Types /\ Lanewise /\ LaneInv(l) /\ pc[l] = "process" /\ kind \in Delayed
      /\ index[l] \in Indices /\ asked[l] \in 0..NProducts /\ asked[l] < NProducts
      /\ ready[l] \in 0..NProducts
  BY DEF IInv, Types, Lanewise, LaneInv, AtAnEvent, Busy
<1>2. PICK q \in Products :
        /\ q = asked[l] + 1 /\ q \in 0..NProducts /\ asked'[l] = q
        /\ asked' \in [Lanes -> 0..NProducts]
        /\ \A k \in Lanes : k # l => asked'[k] = asked[k]
  <2>1. asked[l] + 1 \in Products /\ asked[l] + 1 \in 0..NProducts
    BY <1>1 DEF Products, Parameters
  <2>2. PICK q \in Products : q = asked[l] + 1
    BY <2>1
  <2>3. asked' = [asked EXCEPT ![l] = q] /\ asked \in [Lanes -> 0..NProducts]
    BY <1>1, <2>2 DEF Types
  <2>4. QED
    BY <2>1, <2>2, <2>3
<1>3. PICK t \in Closures : t = [product |-> q, lane |-> l, index |-> index[l]]
  BY <1>1, <1>2, ParameterFacts DEF Closures
<1>4. /\ queued' \in Seq(Closures) /\ reading' \subseteq Closures /\ Distinct'
      /\ Outstanding' = Outstanding \cup {t} /\ t \notin Outstanding
  BY <1>1, <1>2, <1>3, SubmitFacts DEF Types, IInv, Queues
<1>5. Types'
  BY <1>1, <1>2, <1>4 DEF Types, Closures, Contents, Entries
<1>6. Queues'
  <2>1. ASSUME NEW u \in Outstanding PROVE ForItsLane(u)'
    <3>1. CASE u.lane # l
      BY <1>2, <3>1, <1>1, OtherClosures DEF IInv, Queues
    <3>2. CASE u.lane = l
      <4>1. ForItsLane(u) /\ u.product \in {0} \cup Products
        BY <1>1, ClosureFacts DEF IInv, Queues, ClosuresOfLanes
      <4>2. u.product <= asked[l] => u.product <= q
        <5>1. u.product \in Nat /\ asked[l] \in Nat
          BY <1>1, <4>1, ParameterFacts
        <5>2. QED
          BY <1>2, <5>1
      <4>3. QED
        BY <1>1, <1>2, <3>2, <4>1, <4>2 DEF ForItsLane
    <3>3. QED
      BY <3>1, <3>2
  <2>2. ForItsLane(t)'
    <3>1. q <= q /\ q \in Int
      BY <1>2, ParameterFacts
    <3>2. QED
      BY <1>1, <1>2, <1>3, <3>1 DEF ForItsLane
  <2>3. QED
    BY <1>4, <2>1, <2>2 DEF Queues, ClosuresOfLanes
<1>7. Lanewise'
  <2>1. ASSUME NEW k \in Lanes, k # l PROVE LaneInv(k)'
    <3>1. Unread(k)' = Unread(k)
      BY <1>3, <1>4, <2>1, UnreadOfOthers
    <3>2. QED
      BY <1>1, <1>2, <2>1, <3>1, OtherLane DEF Lanewise, Types, None
  <2>2. AtAnEvent(l)' /\ Identified(l)'
    BY <1>1 DEF LaneInv, AtAnEvent, Identified, EventOf, Busy, Indices
  <2>3. HasRead(l)'
    <3>1. Unread(l)' = Unread(l) \cup {q}
      BY <1>2, <1>3, <1>4 DEF Unread
    <3>2. q \notin Unread(l)
      BY <1>1, <1>2, UnreadFacts
    <3>3. Cardinality(Unread(l)') = Cardinality(Unread(l)) + 1
      BY <3>1, <3>2, UnreadFacts, FS_AddElement
    <3>4. Cardinality(Unread(l)') = asked'[l] - ready'[l]
      BY <1>1, <1>2, <3>3 DEF LaneInv, HasRead
    <3>5. ASSUME NEW p \in 1..q PROVE p \in Unread(l)' \/ objects[l][p] = index[l]
      <4>1. CASE p = q
        BY <3>1, <4>1
      <4>2. CASE p # q
        BY <1>1, <1>2, <3>1, <4>2 DEF LaneInv, HasRead
      <4>3. QED
        BY <4>1, <4>2
    <3>6. QED
      BY <1>1, <1>2, <3>4, <3>5 DEF LaneInv, HasRead
  <2>4. QED
    BY <2>1, <2>2, <2>3 DEF Lanewise, LaneInv
<1>8. QED
  BY <1>5, <1>6, <1>7, InsideKeeps DEF IInv

\* The other retrievers have the data product, or make it, at once.
LEMMA AskPromptKeeps ==
  ASSUME Parameters, IInv, NEW l \in Lanes, GetAsync(l), AskPrompt(l) PROVE IInv'
<1> DEFINE q == asked[l] + 1
<1> USE DEF GetAsync, AskPrompt, job, pds
<1>1. /\ Types /\ Lanewise /\ LaneInv(l) /\ pc[l] = "process" /\ kind \notin Delayed
      /\ index[l] \in Indices /\ index[l] \in Events
      /\ asked[l] \in 0..NProducts /\ asked[l] < NProducts
      /\ ready[l] \in 0..NProducts /\ Cardinality(Unread(l)) = asked[l] - ready[l]
  BY ParameterFacts DEF IInv, Types, Lanewise, LaneInv, AtAnEvent, HasRead, Busy
<1>2. ready[l] <= asked[l]
  BY <1>1, UnreadFacts
<1>3. /\ q \in Products /\ asked'[l] = q /\ ready'[l] = ready[l] + 1
      /\ asked' \in [Lanes -> 0..NProducts] /\ ready' \in [Lanes -> 0..NProducts]
      /\ \A k \in Lanes : k # l => asked'[k] = asked[k] /\ ready'[k] = ready[k]
  BY SMTT(30), <1>1, <1>2 DEF Products, Parameters, Types
<1>4. /\ objects' \in [Lanes -> Contents]
      /\ \A k \in Lanes : k # l => objects'[k] = objects[k]
      /\ kind # "TestProducts" => objects' = objects
      /\ kind = "TestProducts" => objects'[l] = [objects[l] EXCEPT ![q] = entry[l]]
  BY <1>1, <1>3 DEF Types, Contents
<1>5. Outstanding' = Outstanding /\ Distinct'
  BY SameQueue DEF IInv, Queues, queue
<1>6. Types'
  BY <1>1, <1>3, <1>4 DEF Types, Closures, Contents, Entries, queue
<1>7. Queues'
  <2>1. ASSUME NEW u \in Outstanding PROVE ForItsLane(u)'
    <3>1. u.product = 0 /\ ForItsLane(u)
      BY <1>1 DEF IInv, Queues, ClosuresOfLanes, ForItsLane
    <3>2. QED
      BY <3>1 DEF ForItsLane
  <2>2. QED
    BY <1>5, <2>1 DEF Queues, ClosuresOfLanes
<1>8. Lanewise'
  <2>1. ASSUME NEW k \in Lanes, k # l PROVE LaneInv(k)'
    <3>1. Unread(k)' = Unread(k)
      BY <1>5, SameUnread
    <3>2. QED
      BY <1>1, <1>3, <1>4, <2>1, <3>1, OtherLane DEF Lanewise, Types, None
  <2>2. AtAnEvent(l)' /\ Identified(l)'
    BY <1>1 DEF LaneInv, AtAnEvent, Identified, EventOf, Busy, Indices
  <2>3. HasRead(l)'
    <3>1. Unread(l)' = Unread(l)
      BY <1>5, SameUnread
    <3>2. Cardinality(Unread(l)') = asked'[l] - ready'[l]
      BY <1>1, <1>3, <3>1
    <3>3. CASE kind = "TestProducts"
      <4>1. /\ entry[l] = index[l]
            /\ \A p \in 1..asked[l] : p \in Unread(l) \/ objects[l][p] = index[l]
        BY <1>1, <3>3 DEF LaneInv, HasRead
      <4>2. \A p \in 1..q : p \in Unread(l) \/ objects'[l][p] = index[l]
        <5>1. objects[l] \in [Products -> Events \cup {None}]
          BY <1>1 DEF Types, Contents
        <5>2. ASSUME NEW p \in 1..q PROVE p \in Unread(l) \/ objects'[l][p] = index[l]
          <6>1. p \in Products /\ (p # q => p \in 1..asked[l])
            BY <1>1, <1>3 DEF Products, Parameters
          <6>2. QED
            BY <1>4, <3>3, <4>1, <5>1, <6>1
        <5>3. QED
          BY <5>2
      <4>3. QED
        BY <1>1, <1>3, <3>1, <3>2, <3>3, <4>1, <4>2 DEF HasRead
    <3>4. CASE kind # "TestProducts"
      <4>1. objects[l] = Whole(EventOf(l)) /\ EventOf(l)' = EventOf(l)
        BY <1>1, <3>4 DEF LaneInv, HasRead, EventOf
      <4>2. QED
        BY <1>1, <1>4, <3>2, <3>4, <4>1 DEF HasRead, Whole
    <3>5. QED
      BY <3>3, <3>4
  <2>4. QED
    BY <2>1, <2>2, <2>3 DEF Lanewise, LaneInv
<1>9. QED
  BY <1>6, <1>7, <1>8, InsideKeeps DEF IInv

\* A data product of a lane is read at the entry that the lane's retriever has.
LEMMA RunGetKeeps == ASSUME Parameters, IInv, RunGet PROVE IInv'
<1> USE DEF job, pds
<1>1. PICK t \in reading :
        /\ Queue!Complete /\ t.product \in Products
        /\ objects' = [objects EXCEPT ![t.lane][t.product] = entry[t.lane]]
        /\ ready' = [ready EXCEPT ![t.lane] = @ + 1]
  BY DEF RunGet
<1>2. UNCHANGED <<job, ievt, index, asked, pc, entry, loaded, identifiers, idAddress,
                  pds, output>>
  BY DEF RunGet
<1>3. /\ queued' \in Seq(Closures) /\ reading' \subseteq Closures
      /\ t \in Closures /\ t \in Outstanding
      /\ Outstanding' = Outstanding \ {t} /\ Distinct' /\ Types /\ Lanewise
  BY <1>1, CompleteFacts DEF Types, IInv, Queues
<1>4. PICK l \in Lanes : l = t.lane
  BY <1>3, ClosureFacts
<1> DEFINE q == t.product
<1>5. /\ q \in Products /\ kind \in Delayed /\ pc[l] = "process" /\ t.index = index[l]
      /\ LaneInv(l) /\ entry[l] = index[l] /\ q \in Unread(l)
      /\ Cardinality(Unread(l)) = asked[l] - ready[l]
      /\ \A p \in 1..asked[l] : p \in Unread(l) \/ objects[l][p] = index[l]
  <2>1. ForItsLane(t)
    BY <1>3 DEF IInv, Queues, ClosuresOfLanes
  <2>2. q # 0
    BY <1>1, ParameterFacts
  <2>3. kind \in Delayed /\ pc[l] = "process" /\ t.index = index[l]
    BY <1>4, <2>1, <2>2 DEF ForItsLane
  <2>4. QED
    BY <1>1, <1>3, <1>4, <2>3 DEF Lanewise, LaneInv, HasRead, Unread
<1>6. ASSUME NEW u \in Outstanding, u # t, u.lane = l PROVE u.product # q
  <2>1. u \in Closures /\ u.index = index[l]
    BY <1>3, <1>6, ClosureFacts DEF IInv, Queues, ClosuresOfLanes, ForItsLane
  <2>2. QED
    BY <1>3, <1>4, <1>5, <1>6, <2>1 DEF Closures
<1>7. Unread(l)' = Unread(l) \ {q}
  BY <1>3, <1>4, <1>6 DEF Unread
<1>8. Cardinality(Unread(l)') = Cardinality(Unread(l)) - 1
  BY ZenonT(30), <1>5, <1>7, UnreadFacts, FS_RemoveElement
<1>9. /\ asked[l] \in 0..NProducts /\ ready[l] \in 0..NProducts
      /\ Cardinality(Unread(l)) \in Nat /\ Cardinality(Unread(l)') \in Nat
  <2>1. IsFiniteSet(Unread(l)')
    BY <1>7, UnreadFacts, FS_Subset
  <2>2. QED
    BY <1>3, <2>1, UnreadFacts, FS_CardinalityType DEF Types
<1>10. /\ ready'[l] = ready[l] + 1 /\ ready' \in [Lanes -> 0..NProducts]
       /\ \A k \in Lanes : k # l => ready'[k] = ready[k]
  <2>1. ready[l] + 1 \in 0..NProducts
    BY <1>5, <1>8, <1>9 DEF Parameters
  <2>2. QED
    BY <1>1, <1>3, <1>4, <2>1 DEF Types
<1>11. /\ objects' \in [Lanes -> Contents]
       /\ objects'[l] = [objects[l] EXCEPT ![q] = index[l]]
       /\ \A k \in Lanes : k # l => objects'[k] = objects[k]
  BY <1>1, <1>3, <1>4, <1>5 DEF Types, Contents
<1>12. Types'
  BY <1>2, <1>3, <1>10, <1>11 DEF Types, Closures, Contents, Entries
<1>13. Queues'
  <2>1. \A u \in Outstanding : ForItsLane(u)'
    BY <1>2 DEF IInv, Queues, ClosuresOfLanes, ForItsLane
  <2>2. QED
    BY <1>3, <2>1 DEF Queues, ClosuresOfLanes
<1>14. Lanewise'
  <2>1. ASSUME NEW k \in Lanes, k # l PROVE LaneInv(k)'
    <3>1. Unread(k)' = Unread(k)
      BY <1>3, <1>4, <2>1, UnreadOfOthers
    <3>2. QED
      BY <1>2, <1>3, <1>10, <1>11, <2>1, <3>1, OtherLane DEF Lanewise, Types, None
  <2>2. AtAnEvent(l)' /\ Identified(l)'
    BY <1>2, <1>5 DEF LaneInv, AtAnEvent, Identified, EventOf, Busy, Indices
  <2>3. HasRead(l)'
    <3>1. Cardinality(Unread(l)') = asked'[l] - ready'[l]
      BY <1>2, <1>5, <1>8, <1>9, <1>10
    <3>2. ASSUME NEW p \in 1..asked[l] PROVE p \in Unread(l)' \/ objects'[l][p] = index[l]
      <4>1. p \in Products /\ objects[l] \in [Products -> Events \cup {None}]
        BY SMTT(30), <1>3, <1>9 DEF Products, Parameters, Types, Contents
      <4>2. QED
        BY <1>5, <1>7, <1>11, <4>1
    <3>3. QED
      BY <1>2, <1>5, <3>1, <3>2 DEF HasRead
  <2>4. QED
    BY <2>1, <2>2, <2>3 DEF Lanewise, LaneInv
<1>15. QED
  BY <1>2, <1>12, <1>13, <1>14, InsideKeeps DEF IInv

LEMMA GetAsyncKeeps ==
  ASSUME Parameters, IInv, NEW l \in Lanes, GetAsync(l) PROVE IInv'
BY AskDelayedKeeps, AskPromptKeeps DEF GetAsync

\* What a lane has when its last data product is there is the event it is at,
\* with the identifier of that event.
LEMMA HasWholeEvent ==
  ASSUME Parameters, IInv, NEW l \in Lanes, pc[l] = "process", ready[l] = NProducts
  PROVE  /\ index[l] \in Indices /\ objects[l] = Whole(EventOf(l))
         /\ EventOf(l) \in Events
         /\ kind \notin {"Repeating", "TestProducts"} => EventOf(l) \in 0..(NInFile - 1)
         /\ (kind = "TreeGetEntry" => hasAux) => EventIdentifier(l) = EventOf(l)
<1>1. Types /\ AtAnEvent(l) /\ Identified(l) /\ HasRead(l)
  BY DEF IInv, Lanewise, LaneInv
<1>2. index[l] \in Indices
  BY <1>1 DEF AtAnEvent, Busy
<1>3. asked[l] = NProducts /\ Unread(l) = {}
  <2>1. Cardinality(Unread(l)) = asked[l] - ready[l] /\ asked[l] \in 0..NProducts
    BY <1>1 DEF HasRead, Types
  <2>2. asked[l] = NProducts /\ Cardinality(Unread(l)) = 0
    BY <2>1, UnreadFacts DEF Parameters
  <2>3. QED
    BY <2>2, UnreadFacts, FS_EmptySet
<1>4. objects[l] = Whole(EventOf(l))
  <2>1. CASE kind \in Delayed \cup {"TestProducts"}
    <3>1. \A p \in Products : objects[l][p] = index[l]
      BY <1>1, <1>3, <2>1 DEF HasRead, Products
    <3>2. EventOf(l) = index[l]
      BY <2>1 DEF EventOf, Delayed
    <3>3. QED
      BY <1>1, <3>1, <3>2 DEF Types, Contents, Whole
  <2>2. CASE kind \notin Delayed \cup {"TestProducts"}
    BY <1>1, <2>2 DEF HasRead
  <2>3. QED
    BY <2>1, <2>2
<1>5. kind \notin {"Repeating", "TestProducts"} => EventOf(l) \in 0..(NInFile - 1)
  <2>1. CASE kind = "SharedPDS"
    BY <1>1, <2>1 DEF AtAnEvent, EventOf
  <2>2. CASE kind \notin {"Repeating", "TestProducts", "SharedPDS"}
    <3>1. index[l] < NInFile
      BY <1>1, <2>2 DEF AtAnEvent, Decoding, AtOnce
    <3>2. EventOf(l) = index[l]
      BY <2>2 DEF EventOf
    <3>3. QED
      BY <1>2, <3>1, <3>2 DEF Indices, Parameters
  <2>3. QED
    BY <2>1, <2>2
<1>6. EventOf(l) \in Events
  BY <1>2, <1>5, ParameterFacts DEF EventOf
<1>7. (kind = "TreeGetEntry" => hasAux) => EventIdentifier(l) = EventOf(l)
  BY <1>1 DEF Identified, EventIdentifier, EventOf
<1>8. QED
  BY <1>2, <1>4, <1>5, <1>6, <1>7

LEMMA OutputKeeps ==
  ASSUME Parameters, IInv, NEW l \in Lanes, Output(l) PROVE IInv'
<1> USE DEF job, lane, pds, queue, Goto
<1>1. /\ Types /\ Lanewise /\ pc[l] = "process" /\ ready[l] = NProducts
      /\ pc'[l] = "next" /\ \A k \in Lanes : k # l => pc'[k] = pc[k]
      /\ pc' \in [Lanes -> {"next", "asking", "asked", "decode", "process", "done"}]
      /\ UNCHANGED <<job, ievt, lane, queue, entry, loaded, identifiers, objects,
                     idAddress, pds>>
  BY DEF IInv, Output, Types
<1>2. PICK o : o = [index |-> index[l], id |-> EventIdentifier(l),
                    products |-> objects[l]]
  OBVIOUS
<1>3. PICK e \in Events :
        /\ e = EventOf(l) /\ o.products = Whole(e) /\ o.index = index[l]
        /\ index[l] \in Indices
        /\ kind \notin {"Repeating", "TestProducts"} => e \in 0..(NInFile - 1)
        /\ (kind = "TreeGetEntry" => hasAux) => o.id = e
  BY <1>1, <1>2, HasWholeEvent
<1>4. output' = output \cup {o}
  BY <1>2 DEF Output
<1>5. o \in Entries
  <2>1. EventIdentifier(l) \in Events \cup {None}
    BY <1>1, <1>3, ParameterFacts DEF EventIdentifier, Types
  <2>2. objects[l] \in Contents
    BY <1>1 DEF Types
  <2>3. QED
    BY <1>2, <1>3, <2>1, <2>2 DEF Entries
<1>6. Types'
  BY <1>1, <1>4, <1>5 DEF Types, Closures, Contents, Entries
<1>7. Outstanding' = Outstanding /\ Distinct'
  BY <1>1, SameQueue DEF IInv, Queues
<1>8. Unread(l) = {}
  <2>1. Cardinality(Unread(l)) = asked[l] - ready[l] /\ asked[l] \in 0..NProducts
    BY <1>1 DEF Lanewise, LaneInv, HasRead, Types
  <2>2. QED
    BY <1>1, <2>1, UnreadFacts, FS_EmptySet DEF Parameters
<1>9. Queues'
  <2>1. ASSUME NEW u \in Outstanding PROVE u.lane # l
    <3>1. u.lane = l => u.product \in Products
      BY <1>1 DEF IInv, Queues, ClosuresOfLanes, ForItsLane
    <3>2. QED
      BY <1>8, <3>1 DEF Unread
  <2>2. QED
    BY <1>1, <1>7, <2>1, OtherClosures DEF IInv, Queues, ClosuresOfLanes
<1>10. Lanewise'
  <2>1. ASSUME NEW k \in Lanes, k # l PROVE LaneInv(k)'
    <3>1. Unread(k)' = Unread(k)
      BY <1>7, SameUnread
    <3>2. QED
      BY <1>1, <2>1, <3>1, OtherLane DEF Lanewise, Types, None
  <2>2. LaneInv(l)'
    BY <1>1 DEF Lanewise, LaneInv, AtAnEvent, Busy, Identified, HasRead
  <2>3. QED
    BY <2>1, <2>2 DEF Lanewise
<1>11. Ended' = Ended /\ Waiting' = Waiting
  BY <1>1 DEF Ended, Waiting
<1>12. Counted'
  BY <1>1, <1>11, MoreEnded DEF IInv
<1>13. Outputs'
  <2>1. OneEvent(o)'
    <3>1. kind = "Repeating" => e = o.index % nUniqueEvents
      BY <1>3 DEF EventOf
    <3>2. kind \notin {"Repeating", "SharedPDS"} => e = o.index
      BY <1>3 DEF EventOf
    <3>3. kind \notin {"Repeating", "TestProducts"} => e < NInFile
      BY <1>3 DEF Parameters
    <3>4. QED
      BY <1>1, <1>3, <3>1, <3>2, <3>3 DEF OneEvent, Whole
  <2>2. \A q \in output : OneEvent(q)'
    BY <1>1 DEF IInv, Outputs, OneEvent, Whole
  <2>3. QED
    BY <1>4, <2>1, <2>2 DEF Outputs
<1>14. /\ Given' = Given /\ \A q : MarkOf(q)' = MarkOf(q)
       /\ \A i : Behind(i)' = Behind(i)
  BY <1>1 DEF Given, MarkOf, Behind, Endless
<1>15. /\ Has(l) /\ \A k \in Lanes : Has(k)' <=> Has(k) /\ k # l
       /\ \A k \in Lanes : Mark(k)' = Mark(k)
  BY <1>1 DEF Has, Busy, Mark
<1>16. MarkOf(o) = Mark(l)
  BY <1>3, ParameterFacts DEF MarkOf, Mark, EventOf, Whole
<1>17. NotTwice'
  <2>1. NotTwice
    BY DEF IInv, Once
  <2>2. \A k \in Lanes : Has(k) /\ k # l => Mark(k) # Mark(l)
    BY <1>15, <2>1 DEF NotTwice
  <2>3. \A q \in output : MarkOf(q) # Mark(l)
    BY <1>15, <2>1 DEF NotTwice
  <2>4. QED
    BY <1>4, <1>14, <1>15, <1>16, <2>1, <2>2, <2>3 DEF NotTwice
<1>18. NoneLost'
  BY <1>4, <1>14, <1>15, <1>16 DEF IInv, Once, NoneLost
<1>19. EndsThere' /\ OneForEachIndex'
  BY <1>1, <1>11 DEF IInv, Once, EndsThere, OneForEachIndex, Endless, Asking
<1>20. QED
  BY <1>6, <1>9, <1>10, <1>12, <1>13, <1>17, <1>18, <1>19 DEF IInv, Once

LEMMA StutterKeeps == ASSUME IInv, UNCHANGED vars PROVE IInv'
<1> USE DEF vars, job, queue, lane, pds
<1>1. Outstanding' = Outstanding /\ Distinct'
  BY SameQueue DEF IInv, Queues
<1>2. Types'
  BY DEF IInv, Types, Closures, Contents, Entries
<1>3. Queues'
  BY <1>1 DEF IInv, Queues, ClosuresOfLanes, ForItsLane
<1>4. Lanewise'
  <2>1. ASSUME NEW k \in Lanes PROVE LaneInv(k)'
    <3>1. Unread(k)' = Unread(k)
      BY <1>1, SameUnread
    <3>2. QED
      BY <3>1, OtherLane DEF IInv, Lanewise, Types, None
  <2>2. QED
    BY <2>1 DEF Lanewise
<1>5. QED
  BY <1>2, <1>3, <1>4, InsideKeeps DEF IInv

LEMMA NextKeeps == ASSUME Parameters, IInv, [Next]_vars PROVE IInv'
<1>1. ASSUME NEW l \in Lanes, LaneStep(l) PROVE IInv'
  BY <1>1, NextIndexKeeps, ReadEventAsyncKeeps, ReadAtOnceKeeps, DecodeKeeps,
     GetAsyncKeeps, OutputKeeps DEF LaneStep
<1>2. CASE Finished
  BY <1>2, StutterKeeps DEF Finished
<1>3. QED
  BY <1>1, <1>2, StartClosureKeeps, RunReadKeeps, RunGetKeeps, StutterKeeps DEF Next

THEOREM InvariantHolds == ASSUME Parameters PROVE Spec => []IInv
<1>1. Init => IInv
  BY InitHolds
<1>2. IInv /\ [Next]_vars => IInv'
  BY NextKeeps
<1>3. QED
  BY <1>1, <1>2, PTL DEF Spec

LEMMA TypesImplied == ASSUME Parameters, IInv PROVE TypeOK
<1>1. ievt \in 0..(maxNEvents + NLanes)
  <2>1. IsFiniteSet(Lanes) /\ Cardinality(Lanes) = NLanes
    BY FS_Interval DEF Lanes, Parameters
  <2>2. Cardinality(Ended) <= NLanes /\ Cardinality(Ended) \in Nat
    BY <2>1, FS_Subset, FS_CardinalityType DEF Ended
  <2>3. QED
    BY <2>2 DEF IInv, Types, Counted, Parameters
<1>2. Cardinality(reading) <= 1
  <2>1. CASE reading = {}
    BY <2>1, FS_EmptySet
  <2>2. ASSUME NEW t \in reading PROVE Cardinality(reading) <= 1
    <3>1. reading = {t}
      BY DEF IInv, Queues, Distinct
    <3>2. Cardinality({t}) = 1
      BY FS_Singleton
    <3>3. QED
      BY <3>1, <3>2
  <2>3. QED
    BY <2>1, <2>2
<1>3. QED
  BY <1>1, <1>2 DEF IInv, Types, TypeOK, Contents

LEMMA OutputsImply ==
  ASSUME Parameters, IInv PROVE ProductsOfOneEvent /\ IdentifierUnlessAddressKept
<1>1. ASSUME NEW o \in output, NEW p \in Products, kind = "TreeGetEntry" => hasAux
      PROVE  o.id = o.products[p]
  BY <1>1 DEF IInv, Outputs, OneEvent, Whole
<1>2. IdentifierUnlessAddressKept
  BY <1>1 DEF IdentifierUnlessAddressKept, IdentifierOfItsProducts
<1>3. ProductsOfOneEvent
  BY DEF IInv, Outputs, OneEvent, Whole, ProductsOfOneEvent
<1>4. QED
  BY <1>2, <1>3

\* The events that were output, by their marks, are those that were to be.
LEMMA AllMarked ==
  ASSUME Parameters, IInv, \A l \in Lanes : pc[l] = "done"
  PROVE  {MarkOf(o) : o \in output}
           = {i \in 0..(maxNEvents - 1) : Endless \/ i < NInFile}
<1> DEFINE M == {MarkOf(o) : o \in output}
           E == {i \in 0..(maxNEvents - 1) : Endless \/ i < NInFile}
<1>1. /\ Types /\ NotTwice /\ NoneLost /\ 0 \in Lanes /\ 0 \in Ended
      /\ \A l \in Lanes : ~Has(l)
  BY ParameterFacts DEF IInv, Once, Has, Busy, Ended
<1>2. \A i \in 0..(Given - 1) : i \in M \/ Behind(i)
  BY <1>1 DEF NoneLost
<1>3. M \subseteq 0..(Given - 1)
  BY <1>1 DEF NotTwice
<1>4. CASE kind = "SharedPDS"
  <2>1. Given = filePos[0] /\ filePos[0] \in 0..NInFile /\ ~Endless
    BY <1>1, <1>4 DEF Given, Types, Endless
  <2>2. \A i : ~Behind(i)
    BY <1>4 DEF Behind
  <2>3. M = 0..(filePos[0] - 1)
    BY <1>2, <1>3, <2>1, <2>2
  <2>4. Waiting = {} /\ Cardinality(Waiting) = 0
    BY FS_EmptySet DEF Waiting
  <2>5. /\ filePos[0] <= Asking
        /\ filePos[0] = NInFile \/ filePos[0] = Asking
        /\ ievt >= maxNEvents \/ filePos[0] = NInFile
    BY <1>1, <1>4, <2>1, <2>4 DEF IInv, Once, OneForEachIndex, EndsThere, Asking, Types,
                                  Parameters
  <2>6. E = 0..(filePos[0] - 1)
    <3>1. filePos[0] <= maxNEvents /\ (filePos[0] = NInFile \/ filePos[0] = maxNEvents)
      BY <1>1, <2>1, <2>5 DEF Asking, Parameters, Types
    <3>2. E = {i \in 0..(maxNEvents - 1) : i < NInFile}
      BY <2>1
    <3>3. QED
      BY <2>1, <3>1, <3>2 DEF Parameters
  <2>7. QED
    BY <2>3, <2>6
<1>5. CASE kind # "SharedPDS"
  <2>1. Given = ievt /\ ievt \in Nat
    BY <1>1, <1>5 DEF Given, Types
  <2>2. E \subseteq M
    <3>1. ASSUME NEW i \in E PROVE i \in M
      <4>1. ~Behind(i) /\ i \in Nat
        BY <1>5 DEF Behind, Parameters
      <4>2. i < ievt
        <5>1. \/ ievt >= maxNEvents
              \/ ~Endless /\ index[0] >= NInFile /\ index[0] < ievt
          BY <1>1, <1>5 DEF IInv, Once, EndsThere, Lanewise, LaneInv, AtAnEvent
        <5>2. index[0] \in Int
          BY <1>1 DEF Types, None
        <5>3. QED
          BY <2>1, <4>1, <5>1, <5>2 DEF Parameters
      <4>3. QED
        BY <1>2, <2>1, <4>1, <4>2
    <3>2. QED
      BY <3>1
  <2>3. M \subseteq E
    <3>1. ASSUME NEW o \in output PROVE MarkOf(o) \in E
      <4>1. MarkOf(o) = o.index /\ o.index \in Indices /\ OneEvent(o)
        BY <1>1, <1>5 DEF MarkOf, Types, Entries, IInv, Outputs
      <4>2. Endless \/ o.index < NInFile
        BY <1>5, <4>1 DEF OneEvent, Endless
      <4>3. QED
        BY <4>1, <4>2 DEF Indices
    <3>2. QED
      BY <3>1
  <2>4. QED
    BY <2>2, <2>3
<1>6. QED
  BY <1>4, <1>5

LEMMA OnceImplied == ASSUME Parameters, IInv PROVE EachEventOnce
<1> DEFINE E == {i \in 0..(maxNEvents - 1) : Endless \/ i < NInFile}
<1>1. SUFFICES ASSUME \A l \in Lanes : pc[l] = "done"
      PROVE  /\ Cardinality(output) = Cardinality(E)
             /\ E = IF kind = "Repeating" THEN {o.index : o \in output}
                                         ELSE {o.products[1] : o \in output}
  BY DEF EachEventOnce, Endless
<1>2. {MarkOf(o) : o \in output} = E
  BY <1>1, AllMarked
<1>3. Cardinality(output) = Cardinality(E)
  <2> DEFINE f == [o \in output |-> MarkOf(o)]
  <2>1. f \in Bijection(output, E)
    <3>1. \A o, q \in output : f[o] = f[q] => o = q
      BY DEF IInv, Once, NotTwice
    <3>2. f \in Surjection(output, E)
      BY <1>2 DEF Surjection
    <3>3. f \in Injection(output, E)
      BY <1>2, <3>1 DEF Injection, IsInjective
    <3>4. QED
      BY <3>2, <3>3 DEF Bijection
  <2>2. IsFiniteSet(E)
    <3>1. IsFiniteSet(0..(maxNEvents - 1))
      BY FS_Interval DEF Parameters
    <3>2. QED
      BY <3>1, FS_Subset
  <2>3. ExistsBijection(E, output)
    BY <2>1, Fun_ExistsBijSymmetric DEF ExistsBijection
  <2>4. QED
    BY <2>2, <2>3, FS_Bijection
<1>4. \A o \in output : MarkOf(o) = IF kind = "Repeating" THEN o.index ELSE o.products[1]
  <2>1. ASSUME NEW o \in output PROVE kind # "Repeating" => MarkOf(o) = o.products[1]
    BY ParameterFacts DEF IInv, Outputs, OneEvent, MarkOf, Whole
  <2>2. ASSUME NEW o \in output PROVE kind = "Repeating" => MarkOf(o) = o.index
    BY DEF MarkOf
  <2>3. QED
    BY <2>1, <2>2
<1>5. QED
  BY <1>2, <1>3, <1>4

\* The sources keep their types: every index asked for is one of the job, every
\* event read one of the file, and one closure runs at a time.
THEOREM TypeCorrect == ASSUME Parameters PROVE Spec => []TypeOK
<1>1. IInv => TypeOK
  BY TypesImplied
<1>2. QED
  BY <1>1, InvariantHolds, PTL

\* What the outputer is given is one event, the one the lane asked for, in every
\* source: neither the closures of other lanes nor the delayed reading of the data
\* products, one by one, puts two events together.
THEOREM OneEventGiven == ASSUME Parameters PROVE Spec => []ProductsOfOneEvent
<1>1. IInv => ProductsOfOneEvent
  BY OutputsImply
<1>2. QED
  BY <1>1, InvariantHolds, PTL

\* The identifier that eventIdentifier returns when the event is output is that of
\* its data products, but for SerialRootTreeGetEntrySource without EventAuxiliary.
THEOREM IdentifierKept == ASSUME Parameters PROVE Spec => []IdentifierUnlessAddressKept
<1>1. IInv => IdentifierUnlessAddressKept
  BY OutputsImply
<1>2. QED
  BY <1>1, InvariantHolds, PTL

\* When all lanes have ended every event of the source below the limit was output
\* once, wherever its end is found.
THEOREM EachOnce == ASSUME Parameters PROVE Spec => []EachEventOnce
<1>1. IInv => EachEventOnce
  BY OnceImplied
<1>2. QED
  BY <1>1, InvariantHolds, PTL
=============================================================================
