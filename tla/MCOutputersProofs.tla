-------------------------- MODULE MCOutputersProofs --------------------------
(***************************************************************************)
(* TLAPS proofs about the job of MCOutputers.                              *)
(*                                                                         *)
(* First BatchEventsOutputer, whose variables are the job's own, for any   *)
(* numbers of lanes and events and any batch size: the ring of batches     *)
(* never loses track of which batch a lane writes.                         *)
(*                                                                         *)
(* Then the other outputers, for any number of lanes: the invariants of    *)
(* EventOutputersProofs, TBufferMergerRootOutputerProofs and               *)
(* RNTupleAsyncOutputerProofs hold in the job whose outputer they are for. *)
(* The proofs' modules are instantiated with the same variables as the     *)
(* modules of MCOutputers, so that what both define is the same.           *)
(*                                                                         *)
(* Last HDFOutputer, for any numbers, sizes and batch sizes: the ends it   *)
(* writes cut its datasets into the data products of the events.           *)
(***************************************************************************)
EXTENDS MCOutputers, FiniteSetTheorems, SequenceTheorems, WellFoundedInduction, TLAPS

Turn(e) == e \div batchSize          \* the batch an entry belongs to

Early == {"load", "cas", "reload", "fill"}  \* the lane has an entry, in no batch yet
BeforeCount == Early \cup {"count"}
Completing == {"exchange", "readCount", "clearCount"}
Owning == {"readCount", "clearCount", "push"}

Contents == Entries \cup {Null}

Types == /\ presentEventEntry \in 0..NEvents
         /\ eventBatches \in [Ring -> Contents]
         /\ waitingEventsInBatch \in [Ring -> Nat]
         /\ DOMAIN heap \subseteq Entries
         /\ \A c \in DOMAIN heap : heap[c] \in [1..batchSize -> Contents]
         /\ expired \subseteq Entries
         /\ queued \in Seq(Closures) /\ writing \in SUBSET Closures
         /\ \A t, u \in writing : t = u
         /\ tree \in Seq(Seq(Contents))
         /\ pc \in [Actors -> PC]
         /\ \A l \in Lanes : pc[l] \notin {"summary", "done"}
         /\ pc[Main] \in {"idle", "summary", "done"} \cup Completing \cup Owning
         /\ event \in [Actors -> Contents]
         /\ batchIndex \in [Actors -> 0..NLanes]
         /\ \A l \in Lanes : batchIndex[l] \in Ring
         /\ \A a \in Actors : pc[a] \in Completing \cup Owning => batchIndex[a] \in Ring
         /\ batch \in [Actors -> Contents]
         /\ eventsInBatch \in [Actors -> Nat]
         /\ crashed \in BOOLEAN /\ overrun \in BOOLEAN

\* An entry belongs to one lane, and to the place of the ring it was taken for.
LaneEvents ==
  /\ \A l \in Lanes :
       /\ pc[l] # "idle" => event[l] # Null
       /\ event[l] # Null => /\ event[l] < presentEventEntry
                             /\ batchIndex[l] = Turn(event[l]) % NLanes
  /\ \A l, m \in Lanes : event[l] = event[m] /\ event[l] # Null => l = m

\* A batch that an actor, the ring or the heap knows of was allocated for an entry
\* that was taken, and that lane allocates no other.
Known(c) == \/ c \in DOMAIN heap \cup expired
            \/ \E b \in Ring : eventBatches[b] = c
            \/ \E a \in Actors : batch[a] = c

AllocatedOnce ==
  \A c \in Entries : Known(c) =>
    c < presentEventEntry /\ \A l \in Lanes : event[l] = c => pc[l] \notin {"load", "cas"}

\* A batch is at one place of the ring, or one actor is taking it out, or it has
\* been pushed.
Unpushed == DOMAIN heap \ expired

Owns(a, c) == pc[a] \in Owning /\ batch[a] = c

OnePlacePerBatch ==
  /\ \A b \in Ring : eventBatches[b] # Null => eventBatches[b] \in Unpushed
  /\ \A b, d \in Ring : eventBatches[b] = eventBatches[d] /\ eventBatches[b] # Null => b = d
  /\ \A a \in Actors, c \in Entries : Owns(a, c) =>
       c \in Unpushed /\ \A b \in Ring : eventBatches[b] # c
  /\ \A a, d \in Actors, c \in Entries : Owns(a, c) /\ Owns(d, c) => a = d
  /\ ~crashed => \A a \in Actors : pc[a] \in Owning => batch[a] # Null
  /\ \A c \in Unpushed : \/ \E b \in Ring : eventBatches[b] = c
                         \/ \E a \in Actors : Owns(a, c)

\* An event is only in the slot of its index.
InSlot(x, i) == x # Null => x < presentEventEntry /\ IndexInBatch(x) = i

SlotsAreIndices ==
  /\ \A c \in DOMAIN heap : \A i \in 1..batchSize : InSlot(heap[c][i], i)
  /\ \A k \in DOMAIN queued : \A i \in DOMAIN queued[k].events : InSlot(queued[k].events[i], i)
  /\ \A t \in writing : \A i \in DOMAIN t.events : InSlot(t.events[i], i)
  /\ \A k \in DOMAIN tree : \A i \in DOMAIN tree[k] : InSlot(tree[k][i], i)

\* Where an event may be.
Held(e) == \E l \in Lanes : pc[l] \in Early /\ event[l] = e
InBatch(c, e) == heap[c][IndexInBatch(e)] = e
Has(s, e) == IndexInBatch(e) \in DOMAIN s /\ s[IndexInBatch(e)] = e

Ahead(e) == e >= presentEventEntry \/ Held(e)
InHeap(e) == \E c \in Unpushed : InBatch(c, e)
InQueue(e) == \E k \in DOMAIN queued : Has(queued[k].events, e)
InWriting(e) == \E t \in writing : Has(t.events, e)
InTree(e) == \E k \in DOMAIN tree : Has(tree[k], e)

OnePlacePerEvent ==
  \A e \in Entries :
    /\ Ahead(e) => ~InHeap(e) /\ ~InQueue(e) /\ ~InWriting(e) /\ ~InTree(e)
    /\ InHeap(e) => ~InQueue(e) /\ ~InWriting(e) /\ ~InTree(e)
    /\ InQueue(e) => ~InWriting(e) /\ ~InTree(e)
    /\ InWriting(e) => ~InTree(e)
    /\ \A c, d \in Unpushed : InBatch(c, e) /\ InBatch(d, e) => c = d
    /\ \A k, m \in DOMAIN queued : Has(queued[k].events, e) /\ Has(queued[m].events, e) => k = m
    /\ \A k, m \in DOMAIN tree : Has(tree[k], e) /\ Has(tree[m], e) => k = m

IInv == Types /\ LaneEvents /\ AllocatedOnce /\ OnePlacePerBatch /\ SlotsAreIndices
        /\ OnePlacePerEvent

----------------------------------------------------------------------------
\* What a step does not touch.

LEMMA LanesStay ==
  ASSUME LaneEvents, UNCHANGED <<presentEventEntry, event>>,
         \A l \in Lanes : batchIndex'[l] = batchIndex[l] /\ (pc[l] = "idle" => pc'[l] = "idle")
  PROVE  LaneEvents'
BY DEF LaneEvents, Turn

LEMMA AllocationStays ==
  ASSUME AllocatedOnce, UNCHANGED <<presentEventEntry, event>>,
         \A c \in Entries : Known(c)' => Known(c),
         \A l \in Lanes : pc'[l] \in {"load", "cas"} => pc[l] \in {"load", "cas"}
  PROVE  AllocatedOnce'
BY DEF AllocatedOnce

LEMMA PlacesStay ==
  ASSUME OnePlacePerBatch, UNCHANGED <<eventBatches, expired, crashed>>,
         DOMAIN heap' = DOMAIN heap,
         \A a \in Actors : /\ pc'[a] \in Owning <=> pc[a] \in Owning
                           /\ pc[a] \in Owning => batch'[a] = batch[a]
  PROVE  OnePlacePerBatch'
BY DEF OnePlacePerBatch, Unpushed, Owns

LEMMA SlotsStay ==
  ASSUME SlotsAreIndices, UNCHANGED <<presentEventEntry, heap, queue, tree>>
  PROVE  SlotsAreIndices'
BY DEF SlotsAreIndices, InSlot, queue

LEMMA EventsStay ==
  ASSUME OnePlacePerEvent, UNCHANGED <<presentEventEntry, heap, expired, queue, tree, event>>,
         \A l \in Lanes : pc'[l] \in Early => pc[l] \in Early
  PROVE  OnePlacePerEvent'
<1>1. \A e \in Entries : Ahead(e)' => Ahead(e)
  BY DEF Ahead, Held
<1>2. Unpushed' = Unpushed
  BY DEF Unpushed
<1>3. \A e \in Entries : /\ InHeap(e)' = InHeap(e) /\ InQueue(e)' = InQueue(e)
                         /\ InWriting(e)' = InWriting(e) /\ InTree(e)' = InTree(e)
  BY <1>2 DEF InHeap, InQueue, InWriting, InTree, InBatch, Has, queue
<1>4. QED
  BY <1>1, <1>2, <1>3 DEF OnePlacePerEvent, InBatch, Has, queue

LEMMA SequenceElements ==
  ASSUME NEW S, NEW s \in Seq(S)
  PROVE  \A i \in DOMAIN s : i \in Nat /\ s[i] \in S
OBVIOUS

LEMMA ContentsOfSlots ==
  ASSUME Types
  PROVE  /\ \A c \in DOMAIN heap : \A i \in 1..batchSize : heap[c][i] \in Contents
         /\ \A k \in DOMAIN queued : /\ queued[k].events \in Seq(Contents)
                                     /\ queued[k].callback \in Actors
                                     /\ \A i \in DOMAIN queued[k].events : queued[k].events[i] \in Contents
         /\ \A t \in writing : /\ t.events \in Seq(Contents) /\ t.callback \in Actors
                               /\ \A i \in DOMAIN t.events : t.events[i] \in Contents
         /\ \A k \in DOMAIN tree : /\ tree[k] \in Seq(Contents)
                                   /\ \A i \in DOMAIN tree[k] : tree[k][i] \in Contents
<1>1. \A t \in Closures : t.events \in Seq(Contents) /\ t.callback \in Actors
  BY DEF Closures, Contents
<1>2. \A k \in DOMAIN queued : queued[k] \in Closures
  BY SequenceElements DEF Types
<1>3. \A k \in DOMAIN tree : tree[k] \in Seq(Contents)
  BY SequenceElements DEF Types
<1>4. \A s \in Seq(Contents) : \A i \in DOMAIN s : s[i] \in Contents
  BY SequenceElements
<1>5. \A t \in writing : t \in Closures
  BY DEF Types
<1>6. \A c \in DOMAIN heap : \A i \in 1..batchSize : heap[c][i] \in Contents
  BY DEF Types
<1>7. QED
  BY <1>1, <1>2, <1>3, <1>4, <1>5, <1>6

LEMMA InitHolds == Init => IInv
<1> SUFFICES ASSUME Init PROVE IInv
  OBVIOUS
<1> USE BatchAssumption DEF Init
<1>0. DOMAIN heap = {} /\ DOMAIN queued = {} /\ DOMAIN tree = {}
  OBVIOUS
<1>1. Types
  <2>1. heap = <<>> /\ DOMAIN heap = {} /\ queued \in Seq(Closures) /\ tree \in Seq(Seq(Contents))
    BY <1>0
  <2>2. /\ pc \in [Actors -> PC] /\ event \in [Actors -> Contents]
        /\ batch \in [Actors -> Contents] /\ batchIndex \in [Actors -> 0..NLanes]
        /\ eventsInBatch \in [Actors -> Nat]
    BY DEF PC, Contents
  <2>3. eventBatches \in [Ring -> Contents] /\ waitingEventsInBatch \in [Ring -> Nat]
    BY DEF Contents
  <2>4. \A l \in Lanes : pc[l] = "idle" /\ batchIndex[l] \in Ring
    BY DEF Lanes, Actors, Ring
  <2>5. pc[Main] = "idle" /\ \A a \in Actors : pc[a] = "idle"
    BY DEF Actors
  <2>6. presentEventEntry \in 0..NEvents /\ DOMAIN heap \subseteq Entries
        /\ (\A c \in DOMAIN heap : heap[c] \in [1..batchSize -> Contents])
        /\ expired \subseteq Entries /\ writing \in SUBSET Closures
        /\ \A t, u \in writing : t = u
    BY <1>0
  <2>7. crashed \in BOOLEAN /\ overrun \in BOOLEAN
    OBVIOUS
  <2> HIDE DEF Init
  <2>8. QED
    BY <2>1, <2>2, <2>3, <2>4, <2>5, <2>6, <2>7 DEF Types, Completing, Owning
<1>2. LaneEvents /\ AllocatedOnce
  BY DEF LaneEvents, AllocatedOnce, Known, Null, Entries, Actors, Lanes
<1>3. OnePlacePerBatch
  BY DEF OnePlacePerBatch, Owns, Owning, Unpushed
<1>4. SlotsAreIndices
  BY DEF SlotsAreIndices
<1>5. OnePlacePerEvent
  BY DEF OnePlacePerEvent, InHeap, InQueue, InWriting, InTree, Unpushed
<1>6. QED
  BY <1>1, <1>2, <1>3, <1>4, <1>5 DEF IInv

LEMMA LoadKeeps == ASSUME IInv, NEW l \in Lanes, Load(l) PROVE IInv'
<1> USE BatchAssumption DEF IInv
<1>0. l \in Actors
  BY DEF Actors
<1>1. /\ pc[l] = "load" /\ pc' = [pc EXCEPT ![l] = IF At(l) = Null THEN "cas" ELSE "fill"]
      /\ batch' = [batch EXCEPT ![l] = At(l)] /\ At(l) \in Contents
      /\ UNCHANGED <<shared, heap, expired, queue, tree, event, batchIndex,
                     eventsInBatch, crashed, overrun>>
  BY DEF Load, Goto, Set, At, Types
<1>2. pc \in [Actors -> PC] /\ batch \in [Actors -> Contents]
  BY DEF Types
<1>3. Types'
  BY <1>0, <1>1 DEF Types, shared, queue, PC, Completing, Owning, Actors, Lanes, Main
<1>4. LaneEvents'
  BY <1>0, <1>1, <1>2, LanesStay DEF shared
<1>5. AllocatedOnce'
  BY <1>0, <1>1, <1>2, AllocationStays DEF Known, shared, At, Types
<1>6. OnePlacePerBatch'
  BY <1>0, <1>1, <1>2, PlacesStay DEF Owning, shared
<1>7. SlotsAreIndices'
  BY <1>1, SlotsStay DEF shared
<1>8. OnePlacePerEvent'
  BY <1>0, <1>1, <1>2, EventsStay DEF Early, shared
<1>9. QED
  BY <1>3, <1>4, <1>5, <1>6, <1>7, <1>8

LEMMA TakeEntryKeeps == ASSUME IInv, NEW l \in Lanes, TakeEntry(l) PROVE IInv'
<1> USE BatchAssumption DEF IInv
<1> DEFINE e == presentEventEntry
           b == Turn(e) % NLanes
<1>0. l \in Actors /\ Main \in Actors /\ \A m \in Lanes : m \in Actors /\ m # Main
  BY DEF Actors, Lanes, Main
<1>1. /\ pc[l] = "idle" /\ pc' = [pc EXCEPT ![l] = "load"]
      /\ e < NEvents /\ presentEventEntry' = e + 1
      /\ event' = [event EXCEPT ![l] = e] /\ batchIndex' = [batchIndex EXCEPT ![l] = b]
      /\ overrun' = (overrun \/ InUse(b))
      /\ UNCHANGED <<eventBatches, waitingEventsInBatch, heap, expired, queue, tree,
                     batch, eventsInBatch, crashed>>
  BY DEF TakeEntry, EntryOfBatch, Goto, Set, Turn
<1>2. /\ pc \in [Actors -> PC] /\ event \in [Actors -> Contents]
      /\ batchIndex \in [Actors -> 0..NLanes]
      /\ e \in Entries /\ e \in Nat /\ e # Null /\ e \in Contents
  BY <1>1 DEF Types, Entries, Contents, Null
<1>3. b \in Ring /\ b \in 0..NLanes
  BY <1>2 DEF Turn, Ring
<1> HIDE DEF b
<1>4. Types'
  <2>1. UNCHANGED <<eventBatches, waitingEventsInBatch, heap, expired, queued, writing, tree,
                    batch, eventsInBatch, crashed>> /\ overrun' \in BOOLEAN
    BY <1>1 DEF queue, Types, InUse
  <2>2. presentEventEntry' \in 0..NEvents /\ pc' \in [Actors -> PC]
        /\ event' \in [Actors -> Contents] /\ batchIndex' \in [Actors -> 0..NLanes]
    BY <1>0, <1>1, <1>2, <1>3 DEF PC
  <2>3. /\ \A m \in Lanes : batchIndex'[m] \in Ring /\ pc'[m] \notin {"summary", "done"}
        /\ pc'[Main] = pc[Main]
        /\ \A a \in Actors : pc'[a] \in Completing \cup Owning => batchIndex'[a] \in Ring
    BY <1>0, <1>1, <1>2, <1>3 DEF Types, Completing, Owning
  <2>4. QED
    BY <2>1, <2>2, <2>3 DEF Types
<1>5. LaneEvents'
  <2>1. \A m \in Lanes : event[m] = Null \/ event[m] < e
    BY DEF LaneEvents
  <2>2. event'[l] = e /\ batchIndex'[l] = b /\ \A m \in Lanes \ {l} :
          event'[m] = event[m] /\ batchIndex'[m] = batchIndex[m] /\ pc'[m] = pc[m]
    BY <1>0, <1>1, <1>2
  <2>3. \A m \in Lanes : event[m] \in Int
    BY <1>0, <1>2 DEF Contents, Entries, Null
  <2>4. QED
    BY <2>1, <2>2, <2>3, <1>1, <1>2 DEF LaneEvents, Turn, b
<1>6. AllocatedOnce'
  <2>1. \A c \in Entries : Known(c)' => Known(c)
    BY <1>1 DEF Known, queue
  <2>2. \A c \in Entries : c \in Int
    BY DEF Entries
  <2>3. \A m \in Lanes : m # l => event'[m] = event[m] /\ pc'[m] = pc[m]
    BY <1>0, <1>1, <1>2
  <2>4. event'[l] = e
    BY <1>0, <1>1, <1>2
  <2>5. QED
    BY <2>1, <2>2, <2>3, <2>4, <1>1, <1>2 DEF AllocatedOnce
<1>7. OnePlacePerBatch'
  BY <1>0, <1>1, <1>2, PlacesStay DEF Owning
<1>8. SlotsAreIndices'
  <2>1. \A x \in Contents : \A i : InSlot(x, i) => InSlot(x, i)'
    BY <1>1, <1>2 DEF InSlot, Contents, Entries, Null
  <2>2. QED
    BY <2>1, ContentsOfSlots, <1>1 DEF SlotsAreIndices, queue
<1>9. OnePlacePerEvent'
  <2>1. Unpushed' = Unpushed
    BY <1>1 DEF Unpushed
  <2>2. \A f \in Entries : /\ InHeap(f)' = InHeap(f) /\ InQueue(f)' = InQueue(f)
                           /\ InWriting(f)' = InWriting(f) /\ InTree(f)' = InTree(f)
    BY <1>1, <2>1 DEF InHeap, InQueue, InWriting, InTree, InBatch, Has, queue
  <2>3. \A f \in Entries : Ahead(f)' => Ahead(f)
    <3>1. \A f \in Entries : f \in Int /\ (f >= e + 1 => f >= e)
      BY <1>2 DEF Entries
    <3>2. \A m \in Lanes : m # l => event'[m] = event[m] /\ pc'[m] = pc[m]
      BY <1>0, <1>1, <1>2
    <3>3. event'[l] = e
      BY <1>0, <1>1, <1>2
    <3>4. QED
      BY <3>1, <3>2, <3>3, <1>1, <1>2 DEF Ahead, Held
  <2>4. QED
    BY <1>1, <2>1, <2>2, <2>3 DEF OnePlacePerEvent, InBatch, Has, queue
<1>10. QED
  BY <1>4, <1>5, <1>6, <1>7, <1>8, <1>9

LEMMA ReloadKeeps == ASSUME IInv, NEW l \in Lanes, Reload(l) PROVE IInv'
<1> USE BatchAssumption DEF IInv
<1>0. l \in Actors
  BY DEF Actors
<1>1. /\ pc[l] = "reload" /\ pc' = [pc EXCEPT ![l] = "fill"]
      /\ batch' = [batch EXCEPT ![l] = At(l)] /\ At(l) \in Contents
      /\ UNCHANGED <<shared, heap, expired, queue, tree, event, batchIndex,
                     eventsInBatch, crashed, overrun>>
  BY DEF Reload, Goto, Set, At, Types
<1>2. pc \in [Actors -> PC] /\ batch \in [Actors -> Contents]
  BY DEF Types
<1>3. Types'
  BY <1>0, <1>1 DEF Types, shared, queue, PC, Completing, Owning, Actors, Lanes, Main
<1>4. LaneEvents'
  BY <1>0, <1>1, <1>2, LanesStay DEF shared
<1>5. AllocatedOnce'
  BY <1>0, <1>1, <1>2, AllocationStays DEF Known, shared, At, Types
<1>6. OnePlacePerBatch'
  BY <1>0, <1>1, <1>2, PlacesStay DEF Owning, shared
<1>7. SlotsAreIndices'
  BY <1>1, SlotsStay DEF shared
<1>8. OnePlacePerEvent'
  BY <1>0, <1>1, <1>2, EventsStay DEF Early, shared
<1>9. QED
  BY <1>3, <1>4, <1>5, <1>6, <1>7, <1>8

LEMMA CountKeeps == ASSUME IInv, NEW l \in Lanes, Count(l) PROVE IInv'
<1> USE BatchAssumption DEF IInv
<1> DEFINE n == waitingEventsInBatch[batchIndex[l]] + 1
<1>0. l \in Actors
  BY DEF Actors
<1>1. /\ pc[l] = "count" /\ pc' = [pc EXCEPT ![l] = IF n = batchSize THEN "exchange" ELSE "idle"]
      /\ waitingEventsInBatch' = [waitingEventsInBatch EXCEPT ![batchIndex[l]] = n]
      /\ UNCHANGED <<presentEventEntry, eventBatches, heap, expired, queue, tree, locals,
                     crashed, overrun>>
  BY DEF Count, Goto, Set
<1>2. pc \in [Actors -> PC] /\ n \in Nat
  BY DEF Types
<1> HIDE DEF n
<1>3. Types'
  BY <1>0, <1>1, <1>2 DEF Types, locals, queue, PC, Completing, Owning, Actors, Lanes, Main
<1>4. LaneEvents'
  BY <1>0, <1>1, <1>2, LanesStay DEF locals
<1>5. AllocatedOnce'
  BY <1>0, <1>1, <1>2, AllocationStays DEF Known, locals
<1>6. OnePlacePerBatch'
  BY <1>0, <1>1, <1>2, PlacesStay DEF Owning, locals
<1>7. SlotsAreIndices'
  BY <1>1, SlotsStay
<1>8. OnePlacePerEvent'
  BY <1>0, <1>1, <1>2, EventsStay DEF Early, locals
<1>9. QED
  BY <1>3, <1>4, <1>5, <1>6, <1>7, <1>8

\* The count is read, or cleared.
LEMMA CountingKeeps == ASSUME IInv, NEW a \in Actors, ReadCount(a) \/ ClearCount(a) PROVE IInv'
<1> USE BatchAssumption DEF IInv
<1>1. /\ \/ pc[a] = "readCount" /\ pc' = [pc EXCEPT ![a] = "clearCount"]
         \/ pc[a] = "clearCount" /\ pc' = [pc EXCEPT ![a] = "push"]
      /\ UNCHANGED <<presentEventEntry, eventBatches, heap, expired, queue, tree, event,
                     batchIndex, batch, crashed, overrun>>
  BY DEF ReadCount, ClearCount, Goto, shared, locals
<1>2. pc \in [Actors -> PC] /\ \A l \in Lanes : l \in Actors
  BY DEF Types, Actors
<1>3. Types'
  <2>1. batchIndex[a] \in Ring
    BY <1>1 DEF Completing, Types
  <2>2. waitingEventsInBatch' \in [Ring -> Nat] /\ eventsInBatch' \in [Actors -> Nat]
    <3>1. CASE ReadCount(a)
      BY <2>1, <3>1 DEF ReadCount, Set, Types, shared
    <3>2. CASE ClearCount(a)
      BY <2>1, <3>2 DEF ClearCount, Set, Types, locals
    <3>3. QED
      BY <3>1, <3>2
  <2>3. QED
    BY <1>1, <2>2 DEF Types, queue, PC, Completing, Owning, Actors, Lanes, Main
<1>4. LaneEvents'
  BY <1>1, <1>2, LanesStay
<1>5. AllocatedOnce'
  BY <1>1, <1>2, AllocationStays DEF Known
<1>6. OnePlacePerBatch'
  BY <1>1, <1>2, PlacesStay DEF Owning
<1>7. SlotsAreIndices'
  BY <1>1, SlotsStay
<1>8. OnePlacePerEvent'
  BY <1>1, <1>2, EventsStay DEF Early
<1>9. QED
  BY <1>3, <1>4, <1>5, <1>6, <1>7, <1>8

\* printSummary before and between its batches.
LEMMA SummaryKeeps == ASSUME IInv, StartSummary \/ SummaryBatch \/ SummaryDone PROVE IInv'
<1> USE BatchAssumption DEF IInv
<1>0. Main \in Actors /\ \A l \in Lanes : l \in Actors /\ l # Main
  BY DEF Actors, Lanes, Main
<1>1. /\ pc[Main] \in {"idle", "summary"}
      /\ \E q \in {"summary", "exchange", "done"} : pc' = [pc EXCEPT ![Main] = q]
      /\ UNCHANGED <<shared, heap, expired, queue, tree, event, batch, eventsInBatch,
                     crashed, overrun>>
  BY DEF StartSummary, SummaryBatch, SummaryDone, Goto, locals
<1>2. pc \in [Actors -> PC] /\ batchIndex \in [Actors -> 0..NLanes]
  BY DEF Types
<1>3. /\ \/ batchIndex' = batchIndex
         \/ /\ batchIndex[Main] \in Ring
            /\ batchIndex' = [batchIndex EXCEPT ![Main] = batchIndex[Main] + 1]
      /\ pc'[Main] = "exchange" => batchIndex' = batchIndex /\ batchIndex[Main] \in Ring
  BY <1>0, <1>2 DEF StartSummary, SummaryBatch, SummaryDone, Goto, Set, locals
<1>4. batchIndex' \in [Actors -> 0..NLanes] /\ \A l \in Lanes : batchIndex'[l] = batchIndex[l]
  BY <1>0, <1>2, <1>3 DEF Ring
<1>5. pc' \in [Actors -> PC] /\ pc'[Main] \in {"summary", "exchange", "done"}
      /\ \A x \in Actors : x # Main => pc'[x] = pc[x]
  BY <1>0, <1>1, <1>2 DEF PC
<1>6. Types'
  <2>1. UNCHANGED <<presentEventEntry, eventBatches, waitingEventsInBatch, heap, expired, queued,
                    writing, tree, event, batch, eventsInBatch, crashed, overrun>>
    BY <1>1 DEF shared, queue
  <2>2. \A x \in Actors : pc'[x] \in Completing \cup Owning => batchIndex'[x] \in Ring
    <3>1. \A x \in Actors : x = Main \/ x \in Lanes
      BY DEF Actors
    <3>2. pc'[Main] \in Completing \cup Owning => batchIndex'[Main] \in Ring
      BY <1>3, <1>5 DEF Completing, Owning
    <3>3. QED
      BY <3>1, <3>2, <1>4 DEF Types
  <2>3. QED
    BY <1>0, <1>4, <1>5, <2>1, <2>2 DEF Types, Completing, Owning
<1>7. LaneEvents'
  BY <1>0, <1>1, <1>4, <1>5, LanesStay DEF shared
<1>8. AllocatedOnce'
  BY <1>0, <1>1, <1>5, AllocationStays DEF Known, shared
<1>9. OnePlacePerBatch'
  BY <1>1, <1>5, PlacesStay DEF Owning, shared
<1>10. SlotsAreIndices'
  BY <1>1, SlotsStay DEF shared
<1>11. OnePlacePerEvent'
  BY <1>0, <1>1, <1>5, EventsStay DEF shared
<1>12. QED
  BY <1>6, <1>7, <1>8, <1>9, <1>10, <1>11

\* A new container goes into the ring, or the lane takes the one that is there.
LEMMA InstallKeeps == ASSUME IInv, NEW l \in Lanes, Install(l) PROVE IInv'
<1> USE BatchAssumption DEF IInv
<1>0. l \in Actors /\ batchIndex[l] \in Ring
  BY DEF Actors, Types
<1>1. /\ pc[l] = "cas"
      /\ UNCHANGED <<presentEventEntry, waitingEventsInBatch, expired, queue, tree,
                     event, batchIndex, eventsInBatch, crashed, overrun>>
  BY DEF Install, Goto
<1>2. pc \in [Actors -> PC] /\ batch \in [Actors -> Contents] /\ eventBatches \in [Ring -> Contents]
  BY DEF Types
<1>3. CASE At(l) # Null
  <2>1. /\ pc' = [pc EXCEPT ![l] = "fill"] /\ batch' = [batch EXCEPT ![l] = At(l)]
        /\ UNCHANGED <<eventBatches, heap>> /\ At(l) \in Contents
    BY <1>0, <1>2, <1>3 DEF Install, Goto, Set, At
  <2>2. Types'
    BY <1>0, <1>1, <2>1 DEF Types, queue, PC, Completing, Owning, Actors, Lanes, Main
  <2>3. LaneEvents'
    BY <1>0, <1>1, <1>2, <2>1, LanesStay
  <2>4. AllocatedOnce'
    BY <1>0, <1>1, <1>2, <2>1, AllocationStays DEF Known, At
  <2>5. OnePlacePerBatch'
    BY <1>0, <1>1, <1>2, <2>1, PlacesStay DEF Owning
  <2>6. SlotsAreIndices'
    BY <1>1, <2>1, SlotsStay
  <2>7. OnePlacePerEvent'
    BY <1>0, <1>1, <1>2, <2>1, EventsStay DEF Early
  <2>8. QED
    BY <2>2, <2>3, <2>4, <2>5, <2>6, <2>7
<1>4. CASE At(l) = Null
  <2>a. PICK n \in Contents, b \in Ring : n = event[l] /\ b = batchIndex[l]
    BY <1>0 DEF Types
  <2>1. /\ pc' = [pc EXCEPT ![l] = "reload"] /\ batch' = batch
        /\ eventBatches' = [eventBatches EXCEPT ![b] = n]
        /\ heap' = [c \in DOMAIN heap \cup {n} |-> IF c = n THEN NewBatch ELSE heap[c]]
    BY <1>4, <2>a DEF Install, Goto, Set
  <2>2. n \in Entries /\ n # Null /\ n < presentEventEntry
    BY <1>0, <1>1, <2>a DEF LaneEvents, Types, Contents
  <2>3. ~Known(n)
    BY <1>1, <2>2, <2>a DEF AllocatedOnce
  <2>4. /\ n \notin DOMAIN heap /\ n \notin expired /\ \A d \in Ring : eventBatches[d] # n
        /\ \A a \in Actors : batch[a] # n
    BY <2>3 DEF Known
  <2>5. /\ DOMAIN heap' = DOMAIN heap \cup {n} /\ heap'[n] = NewBatch
        /\ \A c \in DOMAIN heap : heap'[c] = heap[c]
        /\ NewBatch \in [1..batchSize -> Contents]
        /\ \A i \in 1..batchSize : NewBatch[i] = Null
        /\ eventBatches'[b] = n /\ \A d \in Ring : d # b => eventBatches'[d] = eventBatches[d]
        /\ pc'[l] = "reload" /\ \A a \in Actors : a # l => pc'[a] = pc[a]
        /\ eventBatches[b] = Null
    BY <1>0, <1>2, <1>4, <2>1, <2>4, <2>a DEF NewBatch, Contents, At
  <2>6. Types'
    <3>1. eventBatches' \in [Ring -> Contents]
      BY <1>0, <1>2, <2>1, <2>2 DEF Contents
    <3>2. DOMAIN heap' \subseteq Entries /\ \A c \in DOMAIN heap' : heap'[c] \in [1..batchSize -> Contents]
      BY <2>2, <2>5 DEF Types
    <3>3. QED
      BY <1>0, <1>1, <2>1, <3>1, <3>2 DEF Types, queue, PC, Completing, Owning, Actors, Lanes, Main
  <2>7. LaneEvents'
    BY <1>0, <1>1, <1>2, <2>1, LanesStay
  <2>8. AllocatedOnce'
    <3>1. \A c \in Entries : Known(c)' => Known(c) \/ c = n
      BY <1>1, <2>1, <2>5 DEF Known
    <3>2. \A m \in Lanes : event[m] = n => pc'[m] \notin {"load", "cas"}
      BY <1>1, <1>0, <2>2, <2>5, <2>a DEF LaneEvents
    <3>3. \A m \in Lanes : pc'[m] \in {"load", "cas"} => pc[m] \in {"load", "cas"}
      BY <1>1, <2>5 DEF Actors
    <3>4. QED
      BY <3>1, <3>2, <3>3, <1>1, <2>2 DEF AllocatedOnce
  <2>9. Unpushed' = Unpushed \cup {n} /\ n \notin Unpushed
    BY <1>1, <2>4, <2>5 DEF Unpushed
  <2>10. OnePlacePerBatch'
    <3>1. \A a \in Actors : pc'[a] \in Owning <=> pc[a] \in Owning
      BY <1>1, <2>5 DEF Owning
    <3>2. \A a \in Actors : \A c : Owns(a, c)' <=> Owns(a, c)
      BY <3>1, <2>1 DEF Owns
    <3>3. \A a \in Actors, c \in Entries : Owns(a, c) => c # n
      BY <2>4 DEF Owns
    <3>4. \A c \in Unpushed' : (\E d \in Ring : eventBatches'[d] = c) \/ \E a \in Actors : Owns(a, c)'
      <4>1. \A c \in Unpushed : c # Null
        BY DEF Unpushed, Types, Entries, Null
      <4>2. \A c \in Unpushed, d \in Ring : eventBatches[d] = c => eventBatches'[d] = c
        BY <4>1, <2>5
      <4>3. QED
        BY <4>2, <2>5, <2>9, <3>2 DEF OnePlacePerBatch
    <3>5. QED
      BY <3>1, <3>2, <3>3, <3>4, <1>0, <1>1, <2>1, <2>2, <2>4, <2>5, <2>9 DEF OnePlacePerBatch
  <2>11. SlotsAreIndices'
    BY <1>1, <2>5 DEF SlotsAreIndices, InSlot, queue
  <2>12. OnePlacePerEvent'
    <3>1. \A e \in Entries : Ahead(e)' => Ahead(e)
      BY <1>0, <1>1, <1>2, <2>1 DEF Ahead, Held, Early, Actors
    <3>2. \A e \in Entries : e # Null /\ IndexInBatch(e) \in 1..batchSize
      BY DEF Entries, Null, IndexInBatch
    <3>3. \A e \in Entries : ~InBatch(n, e)' /\ \A c \in Unpushed : InBatch(c, e)' <=> InBatch(c, e)
      BY <3>2, <2>5 DEF InBatch, Unpushed
    <3>4. \A e \in Entries : /\ InHeap(e)' <=> InHeap(e)
                             /\ InQueue(e)' = InQueue(e)
                             /\ InWriting(e)' = InWriting(e) /\ InTree(e)' = InTree(e)
      BY <1>1, <2>9, <3>3 DEF InHeap, InQueue, InWriting, InTree, Has, queue
    <3>5. \A e \in Entries : \A c, d \in Unpushed' : InBatch(c, e)' /\ InBatch(d, e)' => c = d
      BY <2>9, <3>3 DEF OnePlacePerEvent
    <3>6. QED
      BY <1>1, <3>1, <3>4, <3>5 DEF OnePlacePerEvent, Has, queue
  <2>13. QED
    BY <2>6, <2>7, <2>8, <2>10, <2>11, <2>12
<1>5. QED
  BY <1>3, <1>4

\* The lane's event goes into the batch, into one that another lane is about to
\* delete, or nowhere.
LEMMA FillKeeps == ASSUME IInv, NEW l \in Lanes, Fill(l) PROVE IInv'
<1> USE BatchAssumption DEF IInv
<1> DEFINE e == event[l]
           i == IndexInBatch(e)
<1>0. l \in Actors
  BY DEF Actors
<1>1. /\ pc[l] = "fill" /\ pc' = [pc EXCEPT ![l] = "count"]
      /\ UNCHANGED <<shared, expired, queue, tree, locals, overrun>>
      /\ \/ batch[l] \in DOMAIN heap /\ heap' = [heap EXCEPT ![batch[l]][i] = e] /\ crashed' = crashed
         \/ heap' = heap /\ crashed' \in BOOLEAN /\ (crashed' = crashed \/ crashed')
  BY DEF Fill, FillSlot, Goto, Types
<1>2. pc \in [Actors -> PC]
  BY DEF Types
<1>3. /\ e \in Entries /\ e # Null /\ e < presentEventEntry /\ i \in 1..batchSize
      /\ e \in Contents
  <2>1. e # Null /\ e < presentEventEntry /\ e \in Contents
    BY <1>0, <1>1 DEF LaneEvents, Types
  <2>2. e \in Entries
    BY <2>1 DEF Contents
  <2>3. \A n \in Entries : IndexInBatch(n) \in 1..batchSize
    BY DEF Entries, IndexInBatch
  <2>4. QED
    BY <2>1, <2>2, <2>3
<1>4. /\ DOMAIN heap' = DOMAIN heap
      /\ \A c \in DOMAIN heap : \A k \in 1..batchSize :
           heap'[c][k] = heap[c][k] \/ (c = batch[l] /\ k = i /\ heap'[c][k] = e)
      /\ \A c \in DOMAIN heap : heap'[c] \in [1..batchSize -> Contents]
  <2>1. \A c \in DOMAIN heap : heap[c] \in [1..batchSize -> Contents]
    BY DEF Types
  <2>2. CASE heap' = heap
    BY <2>1, <2>2
  <2>3. CASE batch[l] \in DOMAIN heap /\ heap' = [heap EXCEPT ![batch[l]][i] = e]
    BY <1>3, <2>1, <2>3
  <2>4. QED
    BY <1>1, <2>2, <2>3
<1>5. pc'[l] = "count" /\ \A a \in Actors : a # l => pc'[a] = pc[a]
  BY <1>0, <1>1, <1>2
<1>6. ~Held(e)'
  BY <1>0, <1>1, <1>3, <1>5 DEF Held, Early, LaneEvents, Actors, locals
<1>7. Held(e)
  BY <1>1 DEF Held, Early
<1> HIDE DEF e, i
<1>8. Types'
  <2>1. crashed' \in BOOLEAN
    BY <1>1 DEF Types
  <2>2. QED
    BY <1>0, <1>1, <1>4, <2>1 DEF Types, shared, locals, queue, PC, Completing, Owning, Actors, Lanes, Main
<1>9. LaneEvents'
  BY <1>0, <1>1, <1>2, LanesStay DEF shared, locals
<1>10. AllocatedOnce'
  BY <1>0, <1>1, <1>2, <1>4, AllocationStays DEF Known, shared, locals
<1>11. OnePlacePerBatch'
  <2>1. \A a \in Actors : pc'[a] \in Owning <=> pc[a] \in Owning
    BY <1>1, <1>5 DEF Owning
  <2>2. \A a \in Actors : \A c : Owns(a, c)' <=> Owns(a, c)
    BY <2>1, <1>1 DEF Owns, locals
  <2>3. Unpushed' = Unpushed
    BY <1>1, <1>4 DEF Unpushed
  <2>4. ~crashed' => ~crashed
    BY <1>1
  <2>5. UNCHANGED <<eventBatches, batch>>
    BY <1>1 DEF shared, locals
  <2>6. QED
    BY <2>1, <2>2, <2>3, <2>4, <2>5 DEF OnePlacePerBatch
<1>12. SlotsAreIndices'
  <2>1. InSlot(e, i)
    BY <1>3 DEF InSlot, i
  <2>2. \A c \in DOMAIN heap : \A k \in 1..batchSize : InSlot(heap'[c][k], k)
    BY <1>4, <2>1 DEF SlotsAreIndices
  <2>3. \A x, k : InSlot(x, k)' <=> InSlot(x, k)
    BY <1>1 DEF InSlot, shared
  <2>4. QED
    BY <1>1, <1>4, <2>2, <2>3 DEF SlotsAreIndices, queue
<1>13. OnePlacePerEvent'
  <2>1. \A f \in Entries : Ahead(f)' => Ahead(f) /\ f # e
    <3>1. \A m \in Lanes : pc'[m] \in Early => pc[m] \in Early
      BY <1>5 DEF Early, Actors
    <3>2. \A f \in Entries : Held(f)' => Held(f)
      BY <1>1, <3>1 DEF Held, locals
    <3>3. ~(e >= presentEventEntry)
      BY <1>3 DEF Entries, Types
    <3>4. presentEventEntry' = presentEventEntry
      BY <1>1 DEF shared
    <3>5. \A f \in Entries : Ahead(f)' => Ahead(f)
      BY <3>2, <3>4 DEF Ahead
    <3>6. e' = e
      BY <1>1 DEF e, locals
    <3>7. ~(\E m \in Lanes : pc'[m] \in Early /\ event'[m] = e)
      BY <1>6, <3>6 DEF Held
    <3>8. \A f \in Entries : Ahead(f)' => f # e
      BY <3>3, <3>4, <3>7 DEF Ahead, Held
    <3>9. QED
      BY <3>5, <3>8
  <2>2. Unpushed' = Unpushed
    BY <1>1, <1>4 DEF Unpushed
  <2>3. \A f \in Entries : IndexInBatch(f) \in 1..batchSize
    BY DEF Entries, IndexInBatch
  <2>4. \A f \in Entries, c \in Unpushed : InBatch(c, f)' =>
          InBatch(c, f) \/ (f = e /\ c = batch[l])
    BY <1>4, <2>3 DEF InBatch, Unpushed
  <2>5. \A f \in Entries : InHeap(f)' => InHeap(f) \/ f = e
    BY <2>2, <2>4 DEF InHeap
  <2>6. \A f \in Entries : /\ InQueue(f)' = InQueue(f)
                           /\ InWriting(f)' = InWriting(f) /\ InTree(f)' = InTree(f)
    BY <1>1 DEF InQueue, InWriting, InTree, Has, queue
  <2>7. ~InHeap(e) /\ ~InQueue(e) /\ ~InWriting(e) /\ ~InTree(e)
    BY <1>3, <1>7 DEF OnePlacePerEvent, Ahead
  <2>8. \A f \in Entries : \A c, d \in Unpushed' : InBatch(c, f)' /\ InBatch(d, f)' => c = d
    BY <2>2, <2>4, <2>7, <1>3 DEF OnePlacePerEvent, InHeap
  <2>9. \A f \in Entries :
      /\ Ahead(f)' => ~InHeap(f)' /\ ~InQueue(f)' /\ ~InWriting(f)' /\ ~InTree(f)'
      /\ InHeap(f)' => ~InQueue(f)' /\ ~InWriting(f)' /\ ~InTree(f)'
      /\ InQueue(f)' => ~InWriting(f)' /\ ~InTree(f)'
      /\ InWriting(f)' => ~InTree(f)'
    BY <2>1, <2>5, <2>6, <2>7 DEF OnePlacePerEvent
  <2>10. QED
    BY <1>1, <2>8, <2>9 DEF OnePlacePerEvent, Has, queue
<1>14. QED
  BY <1>8, <1>9, <1>10, <1>11, <1>12, <1>13

\* The batch leaves the ring and is the actor's.
LEMMA ExchangeKeeps == ASSUME IInv, NEW a \in Actors, ~crashed, Exchange(a) PROVE IInv'
<1> USE BatchAssumption DEF IInv
<1> DEFINE b == batchIndex[a]
           c == eventBatches[b]
<1>1. /\ pc[a] = "exchange" /\ pc' = [pc EXCEPT ![a] = "readCount"]
      /\ batch' = [batch EXCEPT ![a] = c] /\ eventBatches' = [eventBatches EXCEPT ![b] = Null]
      /\ crashed' = (c = Null)
      /\ UNCHANGED <<presentEventEntry, waitingEventsInBatch, heap, expired, queue,
                     tree, event, batchIndex, eventsInBatch, overrun>>
  BY DEF Exchange, Goto, Set, At
<1>2. /\ pc \in [Actors -> PC] /\ batch \in [Actors -> Contents]
      /\ eventBatches \in [Ring -> Contents] /\ b \in Ring /\ c \in Contents
  BY <1>1 DEF Types, Completing
<1>3. /\ pc'[a] = "readCount" /\ batch'[a] = c /\ eventBatches'[b] = Null
      /\ \A x \in Actors : x # a => pc'[x] = pc[x] /\ batch'[x] = batch[x]
      /\ \A d \in Ring : d # b => eventBatches'[d] = eventBatches[d]
  BY <1>1, <1>2
<1> HIDE DEF b, c
<1>4. Types'
  <2>1. batch' \in [Actors -> Contents] /\ eventBatches' \in [Ring -> Contents]
    BY <1>1, <1>2 DEF Contents
  <2>2. pc' \in [Actors -> PC] /\ crashed' \in BOOLEAN
    BY <1>1, <1>2 DEF PC
  <2>3. /\ \A l \in Lanes : pc'[l] \notin {"summary", "done"}
        /\ pc'[Main] \in {"idle", "summary", "done"} \cup Completing \cup Owning
        /\ \A x \in Actors : pc'[x] \in Completing \cup Owning => batchIndex'[x] \in Ring
    BY <1>1, <1>2, <1>3 DEF Types, Completing, Owning, Actors, b
  <2>4. QED
    BY <1>1, <2>1, <2>2, <2>3 DEF Types, queue
<1>5. LaneEvents'
  BY <1>1, <1>3, LanesStay DEF Actors
<1>6. AllocatedOnce'
  <2>1. \A x \in Entries : Known(x)' => Known(x)
    BY <1>1, <1>2, <1>3 DEF Known, c, Entries, Null
  <2>2. QED
    BY <2>1, <1>1, <1>3, AllocationStays DEF Actors
<1>7. OnePlacePerBatch'
  <2>1. Unpushed' = Unpushed
    BY <1>1 DEF Unpushed
  <2>2. \A x \in Actors, n \in Entries : Owns(x, n)' <=> Owns(x, n) \/ (x = a /\ n = c)
    BY <1>1, <1>3 DEF Owns, Owning
  <2>3. c # Null => c \in Unpushed /\ c \in Entries /\ \A d \in Ring : d # b => eventBatches[d] # c
    BY <1>2 DEF OnePlacePerBatch, Contents, c
  <2>4. \A x \in Actors : ~Owns(x, c) \/ c = Null
    BY <1>2, <2>3 DEF OnePlacePerBatch, c
  <2>5. \A d \in Ring : eventBatches'[d] = Null \/ eventBatches'[d] = eventBatches[d]
    BY <1>3
  <2>6. \A n \in Entries : n # Null
    BY DEF Entries, Null
  <2>7. ~crashed' => \A x \in Actors : pc'[x] \in Owning => batch'[x] # Null
    BY <1>1, <1>3 DEF OnePlacePerBatch, Owning
  <2>8. \A n \in Unpushed' : (\E d \in Ring : eventBatches'[d] = n) \/ \E x \in Actors : Owns(x, n)'
    <3>1. \A n \in Unpushed : n \in Entries
      BY DEF Unpushed, Types
    <3>2. QED
      BY <3>1, <1>2, <1>3, <2>1, <2>2 DEF OnePlacePerBatch, c
  <2>9. \A x \in Actors, n \in Entries : Owns(x, n)' =>
          n \in Unpushed' /\ \A d \in Ring : eventBatches'[d] # n
    BY <2>1, <2>2, <2>3, <2>5, <2>6, <1>3 DEF OnePlacePerBatch
  <2>10. \A x, y \in Actors, n \in Entries : Owns(x, n)' /\ Owns(y, n)' => x = y
    BY <2>2, <2>4, <2>6 DEF OnePlacePerBatch
  <2>11. /\ \A d \in Ring : eventBatches'[d] # Null => eventBatches'[d] \in Unpushed'
         /\ \A d, f \in Ring : eventBatches'[d] = eventBatches'[f] /\ eventBatches'[d] # Null => d = f
    BY <2>1, <2>5 DEF OnePlacePerBatch
  <2>12. QED
    BY <2>7, <2>8, <2>9, <2>10, <2>11 DEF OnePlacePerBatch
<1>8. SlotsAreIndices'
  BY <1>1, SlotsStay
<1>9. OnePlacePerEvent'
  BY <1>1, <1>3, EventsStay DEF Early, Actors
<1>10. QED
  BY <1>4, <1>5, <1>6, <1>7, <1>8, <1>9

LEMMA AppendedElements ==
  ASSUME NEW S, NEW s \in Seq(S), NEW x
  PROVE  /\ DOMAIN Append(s, x) = DOMAIN s \cup {Len(s) + 1} /\ Len(s) + 1 \notin DOMAIN s
         /\ Append(s, x)[Len(s) + 1] = x /\ \A k \in DOMAIN s : Append(s, x)[k] = s[k]
OBVIOUS

\* The batch is the closure's: its events go where the batch was.
LEMMA PushBatchKeeps == ASSUME IInv, NEW a \in Actors, ~crashed, PushBatch(a) PROVE IInv'
<1> USE BatchAssumption DEF IInv
<1>1. PICK c \in Entries, n \in 0..batchSize, events \in Seq(Contents), k \in Nat :
        /\ c = batch[a] /\ c \in Unpushed /\ k = Len(queued) + 1
        /\ events = SubSeq(heap[c], 1, n)
        /\ queued' = Append(queued, [events |-> events, callback |-> a])
        /\ expired' = expired \cup {c} /\ crashed' = FALSE
  <2> DEFINE n == IF eventsInBatch[a] < batchSize THEN eventsInBatch[a] ELSE batchSize
  <2>1. batch[a] # Null /\ batch[a] \in Contents
    BY DEF PushBatch, Goto, OnePlacePerBatch, Owning, Types
  <2>2. batch[a] \in Entries
    BY <2>1 DEF Contents
  <2>3. batch[a] \in Unpushed
    BY <2>2 DEF PushBatch, Goto, OnePlacePerBatch, Owning, Owns
  <2>4. n \in 0..batchSize /\ Len(queued) + 1 \in Nat
    BY DEF Types
  <2>5. heap[batch[a]] \in [1..batchSize -> Contents]
    BY <2>3 DEF Unpushed, Types
  <2>6. heap[batch[a]] \in Seq(Contents)
    BY <2>5
  <2>7. SubSeq(heap[batch[a]], 1, n) \in Seq(Contents)
    <3>1. SubSeq(heap[batch[a]], 1, n) = [i \in 1..n |-> heap[batch[a]][i]]
      BY <2>4, <2>6
    <3>2. \A i \in 1..n : heap[batch[a]][i] \in Contents
      BY <2>4, <2>5
    <3> HIDE DEF n
    <3>3. QED
      BY <2>4, <3>1, <3>2
  <2>8. batch[a] \in DOMAIN heap
    BY <2>3 DEF Unpushed
  <2> HIDE DEF IInv
  <2>9. /\ queued' = Append(queued, [events |-> SubSeq(heap[batch[a]], 1, n), callback |-> a])
        /\ expired' = expired \cup {batch[a]} /\ crashed' = FALSE
    BY <2>8 DEF PushBatch, Queue!Submit
  <2> HIDE DEF n
  <2>10. QED
    BY <2>2, <2>3, <2>4, <2>7, <2>9
<1>2. /\ pc[a] = "push" /\ pc' = [pc EXCEPT ![a] = IF a = Main THEN "summary" ELSE "wait"]
      /\ batchIndex' = [batchIndex EXCEPT ![a] = IF a = Main THEN batchIndex[a] + 1 ELSE batchIndex[a]]
      /\ UNCHANGED <<shared, heap, writing, tree, event, batch, eventsInBatch, overrun>>
  BY DEF PushBatch, Goto, Set, Queue!Submit
<1>3. /\ pc \in [Actors -> PC] /\ batchIndex \in [Actors -> 0..NLanes] /\ batchIndex[a] \in Ring
      /\ Main \in Actors /\ \A l \in Lanes : l \in Actors /\ l # Main
  BY <1>2 DEF Types, Owning, Actors, Lanes, Main
<1>4. /\ pc'[a] = IF a = Main THEN "summary" ELSE "wait"
      /\ \A x \in Actors : x # a => pc'[x] = pc[x] /\ batchIndex'[x] = batchIndex[x]
      /\ a # Main => batchIndex'[a] = batchIndex[a]
  BY <1>2, <1>3
<1>5. /\ DOMAIN events = 1..n /\ \A i \in 1..n : i \in 1..batchSize /\ events[i] = heap[c][i]
  <2>1. heap[c] \in [1..batchSize -> Contents]
    BY <1>1 DEF Unpushed, Types
  <2>2. QED
    BY <1>1, <2>1
<1>6. /\ DOMAIN queued' = DOMAIN queued \cup {k} /\ k \notin DOMAIN queued
      /\ queued'[k].events = events /\ \A m \in DOMAIN queued : queued'[m] = queued[m]
  BY SMTT(30), <1>1, AppendedElements DEF Types
<1>7. Unpushed' = Unpushed \ {c}
  BY <1>1, <1>2 DEF Unpushed
<1>8. Types'
  <2>1. [events |-> events, callback |-> a] \in Closures
    BY <1>1 DEF Closures, Contents
  <2>2. queued' \in Seq(Closures)
    BY <1>1, <2>1 DEF Types
  <2>3. expired' \subseteq Entries
    BY <1>1 DEF Types
  <2>4. batchIndex' \in [Actors -> 0..NLanes] /\ pc' \in [Actors -> PC]
    BY <1>2, <1>3 DEF Ring, PC
  <2>5. /\ \A l \in Lanes : batchIndex'[l] \in Ring /\ pc'[l] \notin {"summary", "done"}
        /\ pc'[Main] \in {"idle", "summary", "done"} \cup Completing \cup Owning
        /\ \A x \in Actors : pc'[x] \in Completing \cup Owning => batchIndex'[x] \in Ring
    BY <1>2, <1>3, <1>4 DEF Types, Completing, Owning
  <2>6. QED
    BY <1>1, <1>2, <2>2, <2>3, <2>4, <2>5 DEF Types, shared
<1>9. LaneEvents'
  BY <1>2, <1>3, <1>4, LanesStay DEF shared
<1>10. AllocatedOnce'
  <2>1. \A x \in Entries : Known(x)' => Known(x)
    BY <1>1, <1>2 DEF Known, shared
  <2>2. QED
    BY <2>1, <1>2, <1>3, <1>4, AllocationStays DEF shared
<1>11. OnePlacePerBatch'
  <2>1. \A x \in Actors, d \in Entries : Owns(x, d)' <=> Owns(x, d) /\ x # a
    BY <1>2, <1>4 DEF Owns, Owning
  <2>2. Owns(a, c)
    BY <1>1, <1>2 DEF Owns, Owning
  <2>3. \A x \in Actors : x # a => ~Owns(x, c)
    BY <2>2 DEF OnePlacePerBatch
  <2>4. \A b \in Ring : eventBatches[b] # c
    BY <2>2 DEF OnePlacePerBatch
  <2>5. eventBatches' = eventBatches /\ batch' = batch /\ pc'[a] \notin Owning
    BY <1>2, <1>4 DEF shared, Owning
  <2>6. \A x \in Actors : pc'[x] \in Owning => batch'[x] # Null
    BY <1>4, <2>5 DEF OnePlacePerBatch
  <2>7. \A d \in Unpushed : Owns(a, d) => d = c
    BY <1>1 DEF Owns
  <2>8. \A d \in Unpushed' : (\E b \in Ring : eventBatches[b] = d) \/ \E x \in Actors : Owns(x, d)'
    <3>1. \A d \in Unpushed : d \in Entries
      BY DEF Unpushed, Types
    <3>2. QED
      BY <3>1, <1>7, <2>1, <2>7 DEF OnePlacePerBatch
  <2>9. \A b \in Ring : eventBatches[b] # Null => eventBatches[b] \in Unpushed'
    BY <1>7, <2>4 DEF OnePlacePerBatch
  <2>10. \A x \in Actors, d \in Entries : Owns(x, d)' =>
           d \in Unpushed' /\ \A b \in Ring : eventBatches[b] # d
    BY <1>7, <2>1, <2>3 DEF OnePlacePerBatch
  <2>11. \A x, y \in Actors, d \in Entries : Owns(x, d)' /\ Owns(y, d)' => x = y
    BY <2>1 DEF OnePlacePerBatch
  <2>12. QED
    BY <2>5, <2>6, <2>8, <2>9, <2>10, <2>11 DEF OnePlacePerBatch
<1>12. SlotsAreIndices'
  <2>1. \A i \in DOMAIN events : InSlot(events[i], i)
    BY <1>1, <1>5 DEF SlotsAreIndices, Unpushed
  <2>2. \A x, i : InSlot(x, i)' <=> InSlot(x, i)
    BY <1>2 DEF InSlot, shared
  <2>3. UNCHANGED <<heap, writing, tree>>
    BY <1>2
  <2>4. QED
    BY <1>6, <2>1, <2>2, <2>3 DEF SlotsAreIndices
<1>13. OnePlacePerEvent'
  <2>1. \A e \in Entries : Has(events, e) => InBatch(c, e)
    BY <1>5 DEF Has, InBatch
  <2>2. \A e \in Entries : Ahead(e)' => Ahead(e)
    BY <1>2, <1>3, <1>4 DEF Ahead, Held, Early, shared
  <2>3. \A e \in Entries : InQueue(e)' => InQueue(e) \/ Has(events, e)
    BY <1>6 DEF InQueue, Has
  <2>4. \A e \in Entries : InWriting(e)' = InWriting(e) /\ InTree(e)' = InTree(e)
    BY <1>2 DEF InWriting, InTree, Has
  <2>5. \A e \in Entries, d \in Unpushed : InBatch(d, e)' = InBatch(d, e)
    BY <1>2 DEF InBatch
  <2>6. \A e \in Entries : InHeap(e)' => InHeap(e) /\ ~InBatch(c, e)
    BY <1>7, <1>1, <2>5 DEF InHeap, OnePlacePerEvent
  <2>7. \A e \in Entries : Has(events, e) => InHeap(e)
    BY <1>1, <2>1 DEF InHeap
  <2>8. \A e \in Entries :
      /\ Ahead(e)' => ~InHeap(e)' /\ ~InQueue(e)' /\ ~InWriting(e)' /\ ~InTree(e)'
      /\ InHeap(e)' => ~InQueue(e)' /\ ~InWriting(e)' /\ ~InTree(e)'
      /\ InQueue(e)' => ~InWriting(e)' /\ ~InTree(e)'
      /\ InWriting(e)' => ~InTree(e)'
    BY <2>1, <2>2, <2>3, <2>4, <2>6, <2>7 DEF OnePlacePerEvent
  <2>9. \A e \in Entries : \A d, f \in Unpushed' : InBatch(d, e)' /\ InBatch(f, e)' => d = f
    BY <1>7, <2>5 DEF OnePlacePerEvent
  <2>10. \A e \in Entries : \A m, p \in DOMAIN queued' :
           Has(queued'[m].events, e) /\ Has(queued'[p].events, e) => m = p
    BY <1>6, <2>7 DEF OnePlacePerEvent, InQueue
  <2>11. tree' = tree /\ \A s, e : Has(s, e)' <=> Has(s, e)
    BY <1>2 DEF Has
  <2>12. \A e \in Entries : \A m, p \in DOMAIN queued' :
           Has(queued[m].events, e)' /\ Has(queued[p].events, e)' => m = p
    BY <2>10 DEF Has
  <2>13. QED
    BY <2>8, <2>9, <2>11, <2>12 DEF OnePlacePerEvent, Has
<1>14. QED
  BY <1>8, <1>9, <1>10, <1>11, <1>12, <1>13

\* A batch of a closure is deleted: no actor that owns a batch, no place of the
\* ring and no event of the heap is concerned.
LEMMA DeleteBatchKeeps == ASSUME IInv, NEW c \in Entries, DeleteBatch(c) PROVE IInv'
<1> USE BatchAssumption DEF IInv
<1>1. /\ c \in expired /\ expired' = expired \ {c} /\ heap' = Restrict(heap, DOMAIN heap \ {c})
      /\ UNCHANGED <<shared, queue, tree, pc, locals, crashed, overrun>>
  BY DEF DeleteBatch
<1>2. DOMAIN heap' = DOMAIN heap \ {c} /\ \A d \in DOMAIN heap' : heap'[d] = heap[d]
  BY <1>1 DEF Restrict
<1>3. Unpushed' = Unpushed
  BY <1>1, <1>2 DEF Unpushed
<1>4. Types'
  BY <1>1, <1>2 DEF Types, shared, queue, locals
<1>5. LaneEvents'
  BY <1>1, LanesStay DEF shared, locals
<1>6. AllocatedOnce'
  BY <1>1, <1>2, AllocationStays DEF Known, shared, locals
<1>7. OnePlacePerBatch'
  <2>1. \A x \in Actors, d \in Entries : Owns(x, d)' <=> Owns(x, d)
    BY <1>1 DEF Owns, locals
  <2>2. UNCHANGED <<eventBatches, batch, pc, crashed>>
    BY <1>1 DEF shared, locals
  <2>3. \A d \in Unpushed : d \in Entries
    BY DEF Unpushed, Types
  <2>4. QED
    BY <1>3, <2>1, <2>2, <2>3 DEF OnePlacePerBatch
<1>8. SlotsAreIndices'
  <2>1. \A x, i : InSlot(x, i)' <=> InSlot(x, i)
    BY <1>1 DEF InSlot, shared
  <2>2. QED
    BY <1>1, <1>2, <2>1 DEF SlotsAreIndices, queue
<1>9. OnePlacePerEvent'
  <2>1. \A e \in Entries, d \in Unpushed : InBatch(d, e)' <=> InBatch(d, e)
    BY <1>1, <1>2 DEF InBatch, Unpushed
  <2>2. \A e \in Entries : /\ InHeap(e)' <=> InHeap(e)
                           /\ InQueue(e)' <=> InQueue(e)
                           /\ InWriting(e)' <=> InWriting(e)
                           /\ InTree(e)' <=> InTree(e)
    BY <1>1, <1>3, <2>1 DEF InHeap, InQueue, InWriting, InTree, Has, queue
  <2>3. \A e \in Entries : Ahead(e)' <=> Ahead(e)
    BY <1>1 DEF Ahead, Held, shared, locals
  <2>4. \A e \in Entries : \A d, f \in Unpushed' : InBatch(d, e)' /\ InBatch(f, e)' => d = f
    BY <1>3, <2>1 DEF OnePlacePerEvent
  <2>5. \A e \in Entries : \A k, m \in DOMAIN queued' :
          Has(queued[k].events, e)' /\ Has(queued[m].events, e)' => k = m
    BY <1>1 DEF OnePlacePerEvent, Has, queue
  <2>6. \A e \in Entries : \A k, m \in DOMAIN tree' : Has(tree[k], e)' /\ Has(tree[m], e)' => k = m
    BY <1>1 DEF OnePlacePerEvent, Has
  <2>7. \A e \in Entries :
      /\ Ahead(e)' => ~InHeap(e)' /\ ~InQueue(e)' /\ ~InWriting(e)' /\ ~InTree(e)'
      /\ InHeap(e)' => ~InQueue(e)' /\ ~InWriting(e)' /\ ~InTree(e)'
      /\ InQueue(e)' => ~InWriting(e)' /\ ~InTree(e)'
      /\ InWriting(e)' => ~InTree(e)'
    BY <2>2, <2>3 DEF OnePlacePerEvent
  <2>8. QED
    BY <2>4, <2>5, <2>6, <2>7 DEF OnePlacePerEvent
<1>10. QED
  BY <1>4, <1>5, <1>6, <1>7, <1>8, <1>9

LEMMA TailElements ==
  ASSUME NEW S, NEW s \in Seq(S), s # <<>>
  PROVE  /\ 1 \in DOMAIN s /\ Head(s) = s[1]
         /\ \A k \in DOMAIN Tail(s) : k \in Nat /\ k + 1 \in DOMAIN s /\ k # 0 /\ Tail(s)[k] = s[k + 1]
OBVIOUS

\* The queue begins the oldest closure.
LEMMA StartOutputKeeps == ASSUME IInv, StartOutput PROVE IInv'
<1> USE BatchAssumption DEF IInv
<1>1. /\ queued # <<>> /\ writing = {} /\ queued' = Tail(queued) /\ writing' = {Head(queued)}
      /\ UNCHANGED <<shared, heap, expired, tree, pc, locals, crashed, overrun>>
  BY DEF StartOutput, Queue!Begin
<1>2. /\ 1 \in DOMAIN queued /\ writing' = {queued[1]}
      /\ \A k \in DOMAIN queued' : k \in Nat /\ k + 1 \in DOMAIN queued /\ k # 0
                                   /\ queued'[k] = queued[k + 1]
  BY <1>1, TailElements DEF Types
<1>3. Types'
  <2>1. queued' \in Seq(Closures) /\ queued[1] \in Closures
    BY <1>1, <1>2 DEF Types
  <2>2. writing' \in SUBSET Closures /\ \A t, u \in writing' : t = u
    BY <1>2, <2>1
  <2>3. QED
    BY <1>1, <2>1, <2>2 DEF Types, shared, locals
<1>4. LaneEvents'
  BY <1>1, LanesStay DEF shared, locals
<1>5. AllocatedOnce'
  BY <1>1, AllocationStays DEF Known, shared, locals
<1>6. OnePlacePerBatch'
  BY <1>1, PlacesStay DEF shared, locals
<1>7. SlotsAreIndices'
  <2>1. \A x, i : InSlot(x, i)' <=> InSlot(x, i)
    BY <1>1 DEF InSlot, shared
  <2>2. UNCHANGED <<heap, tree>>
    BY <1>1
  <2>3. QED
    BY <1>2, <2>1, <2>2 DEF SlotsAreIndices
<1>8. OnePlacePerEvent'
  <2>1. \A e \in Entries : Ahead(e)' <=> Ahead(e)
    BY <1>1 DEF Ahead, Held, shared, locals
  <2>2. \A e \in Entries : InHeap(e)' <=> InHeap(e)
    BY <1>1 DEF InHeap, InBatch, Unpushed
  <2>3. \A e \in Entries : InWriting(e)' <=> Has(queued[1].events, e)
    BY <1>2 DEF InWriting, Has
  <2>4. \A e \in Entries : InQueue(e)' => \E k \in DOMAIN queued : k # 1 /\ Has(queued[k].events, e)
    <3>1. ASSUME NEW e \in Entries, NEW k \in DOMAIN queued', Has(queued'[k].events, e)
          PROVE  \E m \in DOMAIN queued : m # 1 /\ Has(queued[m].events, e)
      <4>1. k + 1 \in DOMAIN queued /\ k + 1 # 1 /\ queued'[k] = queued[k + 1]
        BY <1>2
      <4>2. QED
        BY <3>1, <4>1
    <3>2. QED
      BY <3>1 DEF InQueue, Has
  <2>5. \A e \in Entries : InTree(e)' <=> InTree(e)
    BY <1>1 DEF InTree, Has
  <2>6. \A e \in Entries : Has(queued[1].events, e) => InQueue(e)
    BY <1>2 DEF InQueue
  <2>7. \A e \in Entries : InQueue(e)' => InQueue(e) /\ ~Has(queued[1].events, e)
    BY <2>4, <1>2 DEF InQueue, OnePlacePerEvent
  <2>8. \A e \in Entries :
      /\ Ahead(e)' => ~InHeap(e)' /\ ~InQueue(e)' /\ ~InWriting(e)' /\ ~InTree(e)'
      /\ InHeap(e)' => ~InQueue(e)' /\ ~InWriting(e)' /\ ~InTree(e)'
      /\ InQueue(e)' => ~InWriting(e)' /\ ~InTree(e)'
      /\ InWriting(e)' => ~InTree(e)'
    BY <2>1, <2>2, <2>3, <2>5, <2>6, <2>7 DEF OnePlacePerEvent
  <2>9. \A e \in Entries : \A k, m \in DOMAIN queued' :
          Has(queued'[k].events, e) /\ Has(queued'[m].events, e) => k = m
    <3>1. ASSUME NEW e \in Entries, NEW k \in DOMAIN queued', NEW m \in DOMAIN queued',
                 Has(queued'[k].events, e), Has(queued'[m].events, e)
          PROVE  k = m
      <4>1. k + 1 = m + 1 /\ k \in Nat /\ m \in Nat
        BY <1>2, <3>1 DEF OnePlacePerEvent
      <4>2. QED
        BY <4>1
    <3>2. QED
      BY <3>1
  <2>10. \A e \in Entries : \A k, m \in DOMAIN queued' :
           Has(queued[k].events, e)' /\ Has(queued[m].events, e)' => k = m
    BY <2>9 DEF Has
  <2>11. \A e \in Entries : \A k, m \in DOMAIN tree' : Has(tree[k], e)' /\ Has(tree[m], e)' => k = m
    BY <1>1 DEF OnePlacePerEvent, Has
  <2>12. \A e \in Entries : \A d, f \in Unpushed' : InBatch(d, e)' /\ InBatch(f, e)' => d = f
    BY <1>1 DEF OnePlacePerEvent, InBatch, Unpushed
  <2>13. QED
    BY <2>8, <2>10, <2>11, <2>12 DEF OnePlacePerEvent
<1>9. QED
  BY <1>3, <1>4, <1>5, <1>6, <1>7, <1>8

\* The events of the closure become an entry of the tree.
LEMMA FinishOutputKeeps == ASSUME IInv, FinishOutput PROVE IInv'
<1> USE BatchAssumption DEF IInv
<1>1. PICK t \in writing, k \in Nat :
        /\ tree' = Append(tree, t.events) /\ k = Len(tree) + 1
        /\ pc' = [pc EXCEPT ![t.callback] = IF @ = "wait" THEN "idle" ELSE @]
  <2>1. Len(tree) + 1 \in Nat
    BY DEF Types
  <2>2. QED
    BY <2>1 DEF FinishOutput
<1>2. /\ writing' = {} /\ writing = {t} /\ t.events \in Seq(Contents) /\ t.callback \in Actors
      /\ UNCHANGED <<shared, heap, expired, queued, locals, crashed, overrun>>
  BY SMTT(30), <1>1, ContentsOfSlots DEF FinishOutput, Queue!Complete, Types
<1>3. /\ DOMAIN tree' = DOMAIN tree \cup {k} /\ k \notin DOMAIN tree
      /\ tree'[k] = t.events /\ \A m \in DOMAIN tree : tree'[m] = tree[m]
  BY <1>1, AppendedElements DEF Types
<1>4. /\ pc' \in [Actors -> PC]
      /\ \A a \in Actors : pc'[a] = pc[a] \/ (pc[a] = "wait" /\ pc'[a] = "idle")
  BY <1>1, <1>2 DEF Types, PC
<1>5. \A l \in Lanes : l \in Actors /\ Main \in Actors
  BY DEF Actors
<1>6. Types'
  <2>1. tree' \in Seq(Seq(Contents))
    BY <1>1, <1>2 DEF Types
  <2>2. /\ \A l \in Lanes : pc'[l] \notin {"summary", "done"}
        /\ pc'[Main] \in {"idle", "summary", "done"} \cup Completing \cup Owning
        /\ \A a \in Actors : pc'[a] \in Completing \cup Owning => batchIndex[a] \in Ring
    BY <1>4, <1>5 DEF Types, Completing, Owning, Actors
  <2>3. QED
    BY <1>2, <1>4, <2>1, <2>2 DEF Types, shared, locals
<1>7. LaneEvents'
  BY <1>2, <1>4, <1>5, LanesStay DEF shared, locals
<1>8. AllocatedOnce'
  BY <1>2, <1>4, <1>5, AllocationStays DEF Known, shared, locals
<1>9. OnePlacePerBatch'
  BY <1>2, <1>4, PlacesStay DEF shared, locals, Owning
<1>10. SlotsAreIndices'
  <2>1. \A x, i : InSlot(x, i)' <=> InSlot(x, i)
    BY <1>2 DEF InSlot, shared
  <2>2. \A i \in DOMAIN t.events : InSlot(t.events[i], i)
    BY DEF SlotsAreIndices
  <2>3. UNCHANGED <<heap, queued>>
    BY <1>2
  <2>4. QED
    BY <1>2, <1>3, <2>1, <2>2, <2>3 DEF SlotsAreIndices
<1>11. OnePlacePerEvent'
  <2>1. \A e \in Entries : Ahead(e)' => Ahead(e)
    BY <1>2, <1>4, <1>5 DEF Ahead, Held, Early, shared, locals
  <2>2. \A e \in Entries : InHeap(e)' <=> InHeap(e)
    BY <1>2 DEF InHeap, InBatch, Unpushed
  <2>3. \A e \in Entries : InQueue(e)' <=> InQueue(e)
    BY <1>2 DEF InQueue, Has
  <2>4. \A e \in Entries : ~InWriting(e)' /\ (InWriting(e) <=> Has(t.events, e))
    BY <1>2 DEF InWriting, Has
  <2>5. \A e \in Entries : InTree(e)' => InTree(e) \/ Has(t.events, e)
    BY <1>3 DEF InTree, Has
  <2>6. \A e \in Entries :
      /\ Ahead(e)' => ~InHeap(e)' /\ ~InQueue(e)' /\ ~InWriting(e)' /\ ~InTree(e)'
      /\ InHeap(e)' => ~InQueue(e)' /\ ~InWriting(e)' /\ ~InTree(e)'
      /\ InQueue(e)' => ~InWriting(e)' /\ ~InTree(e)'
      /\ InWriting(e)' => ~InTree(e)'
    BY <2>1, <2>2, <2>3, <2>4, <2>5 DEF OnePlacePerEvent
  <2>7. \A e \in Entries : \A m, p \in DOMAIN tree' :
          Has(tree'[m], e) /\ Has(tree'[p], e) => m = p
    BY <1>3, <2>4 DEF OnePlacePerEvent, InTree
  <2>8. \A e \in Entries : \A m, p \in DOMAIN tree' : Has(tree[m], e)' /\ Has(tree[p], e)' => m = p
    BY <2>7 DEF Has
  <2>9. \A e \in Entries : \A m, p \in DOMAIN queued' :
          Has(queued[m].events, e)' /\ Has(queued[p].events, e)' => m = p
    BY <1>2 DEF OnePlacePerEvent, Has
  <2>10. \A e \in Entries : \A d, f \in Unpushed' : InBatch(d, e)' /\ InBatch(f, e)' => d = f
    BY <1>2 DEF OnePlacePerEvent, InBatch, Unpushed
  <2>11. QED
    BY <2>6, <2>8, <2>9, <2>10 DEF OnePlacePerEvent
<1>12. QED
  BY <1>6, <1>7, <1>8, <1>9, <1>10, <1>11

LEMMA StutterKeeps == IInv /\ UNCHANGED vars => IInv'
<1> SUFFICES ASSUME IInv, UNCHANGED vars PROVE IInv'
  OBVIOUS
<1> USE DEF IInv, vars, shared, queue, locals
<1>1. Types'
  BY DEF Types
<1>2. LaneEvents' /\ AllocatedOnce'
  BY LanesStay, AllocationStays DEF Known
<1>3. OnePlacePerBatch'
  BY PlacesStay
<1>4. SlotsAreIndices' /\ OnePlacePerEvent'
  BY SlotsStay, EventsStay
<1>5. QED
  BY <1>1, <1>2, <1>3, <1>4

LEMMA NextKeeps == IInv /\ [Next]_vars => IInv'
<1> SUFFICES ASSUME IInv, [Next]_vars PROVE IInv'
  OBVIOUS
<1>1. CASE UNCHANGED vars
  BY <1>1, StutterKeeps
<1>2. CASE ~crashed /\ Step
  <2>1. ASSUME NEW l \in Lanes, Output(l) PROVE IInv'
    BY <2>1, TakeEntryKeeps, LoadKeeps, InstallKeeps, ReloadKeeps, FillKeeps, CountKeeps
       DEF Output
  <2>2. ASSUME NEW a \in Actors, FinishBatch(a) PROVE IInv'
    BY <1>2, <2>2, ExchangeKeeps, CountingKeeps, PushBatchKeeps DEF FinishBatch
  <2>3. ASSUME NEW c \in Entries, DeleteBatch(c) PROVE IInv'
    BY <2>3, DeleteBatchKeeps
  <2>4. CASE StartOutput \/ FinishOutput
    BY <2>4, StartOutputKeeps, FinishOutputKeeps
  <2>5. CASE StartSummary \/ SummaryBatch \/ SummaryDone
    BY <2>5, SummaryKeeps
  <2>6. QED
    BY <1>2, <2>1, <2>2, <2>3, <2>4, <2>5 DEF Step
<1>3. QED
  BY <1>1, <1>2 DEF Next, Ended

LEMMA Invariant == Spec => []IInv
BY InitHolds, NextKeeps, PTL DEF Spec

\* No event is written twice, whatever lanes and batches do, overrun or not: a
\* batch is at one place of the ring, with one actor or with one closure, and an
\* event is in one slot of one batch.
THEOREM AtMostOnce == Spec => []WrittenAtMostOnce
<1>1. IInv => WrittenAtMostOnce
  <2> SUFFICES ASSUME IInv, NEW e \in Entries, NEW p \in Places(e), NEW q \in Places(e)
               PROVE  p = q
    BY DEF WrittenAtMostOnce
  <2>1. \A r \in Places(e) : /\ r = <<r[1], r[2]>> /\ r[1] \in DOMAIN tree
                             /\ r[2] \in DOMAIN tree[r[1]] /\ tree[r[1]][r[2]] = e
    BY DEF Places
  <2>2. e # Null
    BY DEF Entries, Null
  <2>3. \A r \in Places(e) : r[2] = IndexInBatch(e)
    BY <2>1, <2>2 DEF IInv, SlotsAreIndices, InSlot
  <2>4. \A r \in Places(e) : Has(tree[r[1]], e)
    BY <2>1, <2>3 DEF Has
  <2>5. p[1] = q[1]
    BY <2>1, <2>4 DEF IInv, OnePlacePerEvent
  <2>6. QED
    BY <2>1, <2>3, <2>5
<1>2. QED
  BY <1>1, Invariant, PTL

----------------------------------------------------------------------------
(***************************************************************************)
(* The second part: what holds as long as no lane comes round              *)
(* to a batch of the ring that is still in use: what is in the ring, in    *)
(* the queue and in the tree, and what printSummary leaves.                *)
(***************************************************************************)

Cur == Turn(presentEventEntry)          \* the batch of the next entry ...
Begun == presentEventEntry % batchSize  \* ... and how many of it are taken
Current(b) == b = Cur % NLanes /\ Begun > 0

Inside(b) == {l \in Lanes : pc[l] \in BeforeCount /\ batchIndex[l] = b}

\* With overrun too.
CountsFit ==
  /\ \A b \in Ring : waitingEventsInBatch[b] + Cardinality(Inside(b)) <= presentEventEntry
  /\ \A a \in Actors : eventsInBatch[a] <= NEvents

CompletesAt(l, b) == pc[l] \in Completing /\ batchIndex[l] = b

Clean(b) == /\ waitingEventsInBatch[b] = 0 /\ eventBatches[b] = Null
            /\ Inside(b) = {} /\ \A l \in Lanes : ~CompletesAt(l, b)

Counts ==
  /\ \A b \in Ring : LET n == waitingEventsInBatch[b] + Cardinality(Inside(b)) IN
       IF Current(b) THEN n = Begun ELSE Clean(b) \/ n = batchSize
  /\ \A b \in Ring, l \in Lanes : CompletesAt(l, b) => waitingEventsInBatch[b] = batchSize
  /\ \A b \in Ring, l, m \in Lanes : CompletesAt(l, b) /\ CompletesAt(m, b) => l = m
  /\ \A b \in Ring : waitingEventsInBatch[b] = batchSize => \E l \in Lanes : CompletesAt(l, b)

RingPointers ==
  \A l \in Lanes :
    /\ pc[l] \in {"reload", "fill", "count", "exchange"} => At(l) # Null
    /\ pc[l] = "fill" => batch[l] = At(l)
    /\ pc[l] \in {"readCount", "clearCount"} => At(l) = Null

\* the events of a batch of the ring, and of the lanes that are for it
IsAt(e, b) ==
  \/ \E l \in Lanes : pc[l] \in BeforeCount \cup {"exchange"} /\ batchIndex[l] = b /\ event[l] = e
  \/ eventBatches[b] # Null /\ InBatch(eventBatches[b], e)

Turns ==
  \A b \in Ring, e \in Entries : IsAt(e, b) =>
    /\ Turn(e) % NLanes = b
    /\ Current(b) => Turn(e) = Cur
    /\ \A f \in Entries : IsAt(f, b) => Turn(e) = Turn(f)

Filled ==
  \A b \in Ring, e \in Entries :
    /\ e < presentEventEntry /\ ~Held(e)
    /\ (Current(b) /\ Turn(e) = Cur) \/ \E f \in Entries : IsAt(f, b) /\ Turn(f) = Turn(e)
    => eventBatches[b] # Null /\ InBatch(eventBatches[b], e)

\* a batch a lane has taken out
Complete(l) ==
  /\ pc[l] \in Owning => \A i \in 1..batchSize :
        heap[batch[l]][i] = Turn(event[l]) * batchSize + i - 1
  /\ pc[l] \in {"clearCount", "push"} => eventsInBatch[l] = batchSize

InOrder == Counts /\ RingPointers /\ Turns /\ Filled /\ \A l \in Lanes : Complete(l)

Orderly == pc[Main] = "idle" /\ ~overrun => InOrder

\* printSummary
Partial(c) == \A i \in 1..batchSize :
  heap[c][i] = IF i <= Begun THEN Cur * batchSize + i - 1 ELSE Null

MainAlone == IF pc[Main] = "idle" THEN batchIndex[Main] = 0
             ELSE presentEventEntry = NEvents /\ \A l \in Lanes : pc[l] = "idle"

LeftOver(b) ==
  /\ waitingEventsInBatch[b] = 0 \/ (Current(b) /\ waitingEventsInBatch[b] = Begun)
  /\ waitingEventsInBatch[b] = 0 => eventBatches[b] = Null
  /\ b < batchIndex[Main] => waitingEventsInBatch[b] = 0
  /\ eventBatches[b] # Null => Partial(eventBatches[b])
  /\ eventBatches[b] = Null /\ waitingEventsInBatch[b] # 0 => CompletesAt(Main, b)

MainOwns ==
  /\ pc[Main] \in Completing => waitingEventsInBatch[batchIndex[Main]] # 0
  /\ pc[Main] = "exchange" => At(Main) # Null
  /\ pc[Main] \in Owning \ {"push"} => At(Main) = Null
  /\ pc[Main] = "push" => batchIndex[Main] \in Ring /\ waitingEventsInBatch[batchIndex[Main]] = 0
  /\ pc[Main] \in Owning => Begun > 0 /\ Partial(batch[Main])
  /\ pc[Main] \in {"clearCount", "push"} => eventsInBatch[Main] = Begun

Summary == pc[Main] # "idle" /\ ~overrun =>
  MainOwns /\ \A b \in Ring : LeftOver(b)

Run(s) ==
  /\ s # <<>> /\ s[1] % batchSize = 0
  /\ \A j \in DOMAIN s : s[j] = s[1] + j - 1
  /\ Len(s) # batchSize => s[Len(s)] = NEvents - 1

OnlyRuns == ~overrun =>
  /\ \A k \in DOMAIN queued : Run(queued[k].events)
  /\ \A t \in writing : Run(t.events)
  /\ \A k \in DOMAIN tree : Run(tree[k])

Somewhere(e) == Held(e) \/ InHeap(e) \/ InQueue(e) \/ InWriting(e) \/ InTree(e)

NothingLost == ~overrun => \A e \in Entries : e < presentEventEntry => Somewhere(e)

Ends == pc[Main] = "done" => 
  batchIndex[Main] = NLanes /\ queued = <<>> /\ writing = {} /\ expired = {}

----------------------------------------------------------------------------
\* Entries, turns and slots.

LEMMA TurnType == \A e \in Nat : Turn(e) \in Nat /\ (e % batchSize) \in Nat
                                  /\ (e % batchSize) < batchSize
BY BatchAssumption DEF Turn

LEMMA TurnOfNext ==
  ASSUME NEW e \in Nat
  PROVE  IF (e % batchSize) + 1 < batchSize
         THEN Turn(e + 1) = Turn(e) /\ ((e + 1) % batchSize) = (e % batchSize) + 1
         ELSE Turn(e + 1) = Turn(e) + 1 /\ ((e + 1) % batchSize) = 0
              /\ (e % batchSize) + 1 = batchSize
BY BatchAssumption DEF Turn

LEMMA EarlierTurn ==
  ASSUME NEW e \in Nat, NEW f \in Nat, e < f
  PROVE  Turn(e) <= Turn(f) /\ ((f % batchSize) = 0 => Turn(e) < Turn(f))
BY BatchAssumption DEF Turn

LEMMA SameSlot ==
  ASSUME NEW e \in Nat, NEW f \in Nat, Turn(e) = Turn(f), IndexInBatch(e) = IndexInBatch(f)
  PROVE  e = f
BY BatchAssumption DEF Turn, IndexInBatch

LEMMA SlotOfTurn ==
  ASSUME NEW t \in Nat, NEW i \in 1..batchSize
  PROVE  LET e == t * batchSize + i - 1 IN e \in Nat /\ Turn(e) = t /\ IndexInBatch(e) = i
BY BatchAssumption DEF Turn, IndexInBatch

LEMMA SlotBelow ==
  ASSUME NEW e \in Nat, NEW t \in Nat, NEW i \in 1..batchSize
  PROVE  /\ t < Turn(e) => t * batchSize + i - 1 < e
         /\ t = Turn(e) => (t * batchSize + i - 1 < e <=> i <= (e % batchSize))
BY BatchAssumption DEF Turn

----------------------------------------------------------------------------
\* Counting lanes.

LEMMA LaneSets ==
  ASSUME NEW S \in SUBSET Lanes
  PROVE  /\ Cardinality(S) \in Nat /\ (Cardinality(S) = 0 <=> S = {})
         /\ \A l \in Lanes \ S : Cardinality(S \cup {l}) = Cardinality(S) + 1
         /\ \A l \in S : Cardinality(S \ {l}) = Cardinality(S) - 1
<1>1. IsFiniteSet(Lanes)
  BY BatchAssumption, FS_Interval DEF Lanes
<1>2. IsFiniteSet(S)
  BY <1>1, FS_Subset
<1>3. QED
  BY <1>2, FS_CardinalityType, FS_EmptySet, FS_AddElement, FS_RemoveElement

Size(b) == waitingEventsInBatch[b] + Cardinality(Inside(b))

\* A batch with a lane inside has room for it and nobody completes it; whoever
\* completes a batch is alone with it.
LEMMA InsideOrComplete ==
  ASSUME Types, Counts, NEW b \in Ring
  PROVE  /\ Cardinality(Inside(b)) \in Nat /\ waitingEventsInBatch[b] \in Nat
         /\ Begun \in Nat /\ Begun < batchSize
         /\ Current(b) => Size(b) = Begun
         /\ ~Current(b) => Clean(b) \/ Size(b) = batchSize
         /\ Inside(b) # {} => /\ waitingEventsInBatch[b] < batchSize
                              /\ \A l \in Lanes : ~CompletesAt(l, b)
         /\ \A l \in Lanes : CompletesAt(l, b) =>
              /\ Inside(b) = {} /\ ~Current(b) /\ waitingEventsInBatch[b] = batchSize
              /\ \A m \in Lanes : CompletesAt(m, b) => m = l
<1>1. Cardinality(Inside(b)) \in Nat /\ (Cardinality(Inside(b)) = 0 <=> Inside(b) = {})
  BY LaneSets DEF Inside
<1>2. waitingEventsInBatch[b] \in Nat /\ presentEventEntry \in Nat
  BY BatchAssumption DEF Types
<1>3. Begun \in Nat /\ Begun < batchSize
  BY <1>2, TurnType DEF Begun
<1>4. /\ Current(b) => Size(b) = Begun
      /\ ~Current(b) => Clean(b) \/ Size(b) = batchSize
  BY DEF Counts, Size
<1>5. \A l \in Lanes : CompletesAt(l, b) => waitingEventsInBatch[b] = batchSize
  BY DEF Counts
<1>6. Inside(b) # {} => waitingEventsInBatch[b] < batchSize
  BY BatchAssumption, <1>1, <1>2, <1>3, <1>4 DEF Size, Clean
<1>7. \A l \in Lanes : CompletesAt(l, b) => ~Current(b)
  BY BatchAssumption, <1>1, <1>2, <1>3, <1>4, <1>5 DEF Size
<1>8. \A l, m \in Lanes : CompletesAt(m, b) /\ CompletesAt(l, b) => m = l
  BY DEF Counts
<1>9. QED
  BY BatchAssumption, <1>1, <1>2, <1>3, <1>4, <1>5, <1>6, <1>7, <1>8

\* Nobody enters or leaves a batch.
LEMMA CountsStay ==
  ASSUME Counts, UNCHANGED <<presentEventEntry, waitingEventsInBatch>>,
         \A l \in Lanes : /\ batchIndex'[l] = batchIndex[l]
                          /\ pc'[l] \in BeforeCount <=> pc[l] \in BeforeCount
                          /\ pc'[l] \in Completing <=> pc[l] \in Completing,
         \A b \in Ring : Clean(b) => eventBatches'[b] = Null
  PROVE  Counts'
<1>1. \A b \in Ring : Inside(b)' = Inside(b)
  BY DEF Inside
<1>2. \A l \in Lanes, b \in Ring : CompletesAt(l, b)' <=> CompletesAt(l, b)
  BY DEF CompletesAt
<1>3. \A b \in Ring : Current(b)' <=> Current(b)
  BY DEF Current, Cur, Begun, Turn
<1>4. \A b \in Ring : Clean(b) => Clean(b)'
  BY <1>1, <1>2 DEF Clean
<1>5. Begun' = Begun
  BY DEF Begun
<1>6. QED
  BY <1>1, <1>2, <1>3, <1>4, <1>5 DEF Counts

LEMMA TurnsStay ==
  ASSUME Turns, UNCHANGED presentEventEntry,
         \A b \in Ring, e \in Entries : IsAt(e, b)' => IsAt(e, b)
  PROVE  Turns'
<1>1. \A b \in Ring : Current(b)' <=> Current(b)
  BY DEF Current, Cur, Begun, Turn
<1>2. Cur' = Cur
  BY DEF Cur, Turn
<1>3. QED
  BY <1>1, <1>2 DEF Turns, Turn

LEMMA FilledStay ==
  ASSUME Filled, UNCHANGED presentEventEntry,
         \A b \in Ring, e \in Entries : IsAt(e, b)' => IsAt(e, b),
         \A e \in Entries : Held(e) => Held(e)',
         \A b \in Ring, e \in Entries : eventBatches[b] # Null /\ InBatch(eventBatches[b], e)
           => eventBatches'[b] # Null /\ InBatch(eventBatches[b], e)'
  PROVE  Filled'
<1>1. \A b \in Ring : Current(b)' <=> Current(b)
  BY DEF Current, Cur, Begun, Turn
<1>2. Cur' = Cur
  BY DEF Cur, Turn
<1>3. QED
  BY <1>1, <1>2 DEF Filled, Turn

\* The ring, the lanes that are for its batches and the batches stay.
LEMMA QuietStep ==
  ASSUME IInv, InOrder, UNCHANGED <<presentEventEntry, eventBatches, waitingEventsInBatch, event>>,
         \A l \in Lanes : /\ batchIndex'[l] = batchIndex[l]
                          /\ pc'[l] \in BeforeCount <=> pc[l] \in BeforeCount
                          /\ pc'[l] \in Completing <=> pc[l] \in Completing
                          /\ pc'[l] = "exchange" <=> pc[l] = "exchange"
                          /\ pc'[l] \in Early <=> pc[l] \in Early,
         \A c \in Unpushed : heap'[c] = heap[c]
  PROVE  Counts' /\ Turns' /\ Filled'
<1>1. Counts'
  BY CountsStay DEF InOrder, Clean
<1>2. \A b \in Ring, e \in Entries : eventBatches[b] # Null =>
        (InBatch(eventBatches[b], e)' <=> InBatch(eventBatches[b], e))
  BY DEF InBatch, IInv, OnePlacePerBatch
<1>3. \A b \in Ring, e \in Entries : IsAt(e, b)' => IsAt(e, b)
  BY <1>2 DEF IsAt
<1>4. \A e \in Entries : Held(e) => Held(e)'
  BY DEF Held
<1>5. QED
  BY <1>1, <1>2, <1>3, <1>4, TurnsStay, FilledStay DEF InOrder

----------------------------------------------------------------------------
\* The steps that leave the ring and the counts alone.

LEMMA LoadInOrder ==
  ASSUME IInv, InOrder, NEW l \in Lanes, Load(l) \/ Reload(l)
  PROVE  InOrder'
<1>1. l \in Actors /\ pc \in [Actors -> PC] /\ batch \in [Actors -> Contents]
      /\ \A m \in Lanes : m \in Actors
  BY DEF IInv, Types, Actors
<1>2. /\ \/ /\ pc[l] = "load"
            /\ pc' = [pc EXCEPT ![l] = IF At(l) = Null THEN "cas" ELSE "fill"]
         \/ pc[l] = "reload" /\ pc' = [pc EXCEPT ![l] = "fill"]
      /\ batch' = [batch EXCEPT ![l] = At(l)]
      /\ UNCHANGED <<presentEventEntry, eventBatches, waitingEventsInBatch, heap, event,
                     batchIndex, eventsInBatch>>
  BY DEF Load, Reload, Goto, Set, shared
<1>3. /\ \A m \in Lanes : m # l => pc'[m] = pc[m] /\ batch'[m] = batch[m]
      /\ pc[l] \in {"load", "reload"} /\ pc'[l] \in {"cas", "fill"} /\ batch'[l] = At(l)
      /\ pc'[l] = "fill" => pc[l] = "reload" \/ At(l) # Null
      /\ \A m \in Lanes : At(m)' = At(m)
  BY <1>1, <1>2 DEF At
<1>4. Counts' /\ Turns' /\ Filled'
  BY <1>2, <1>3, QuietStep DEF BeforeCount, Early, Completing
<1>5. RingPointers'
  BY <1>2, <1>3 DEF RingPointers, InOrder
<1>6. \A m \in Lanes : Complete(m)'
  BY <1>2, <1>3 DEF Complete, InOrder, Owning, Turn
<1>7. QED
  BY <1>4, <1>5, <1>6 DEF InOrder

LEMMA ReadCountInOrder ==
  ASSUME IInv, InOrder, NEW l \in Lanes, ReadCount(l)
  PROVE  InOrder'
<1>1. l \in Actors /\ pc \in [Actors -> PC] /\ eventsInBatch \in [Actors -> Nat]
      /\ \A m \in Lanes : m \in Actors
  BY DEF IInv, Types, Actors
<1>2. /\ pc[l] = "readCount" /\ pc' = [pc EXCEPT ![l] = "clearCount"]
      /\ eventsInBatch' = [eventsInBatch EXCEPT ![l] = waitingEventsInBatch[batchIndex[l]]]
      /\ UNCHANGED <<presentEventEntry, eventBatches, waitingEventsInBatch, heap, event,
                     batchIndex, batch>>
  BY DEF ReadCount, Goto, Set, shared
<1>3. /\ \A m \in Lanes : m # l => pc'[m] = pc[m] /\ eventsInBatch'[m] = eventsInBatch[m]
      /\ pc'[l] = "clearCount" /\ eventsInBatch'[l] = waitingEventsInBatch[batchIndex[l]]
      /\ \A m \in Lanes : At(m)' = At(m)
  BY <1>1, <1>2 DEF At
<1>4. Counts' /\ Turns' /\ Filled'
  BY <1>2, <1>3, QuietStep DEF BeforeCount, Early, Completing
<1>5. RingPointers'
  BY <1>2, <1>3 DEF RingPointers, InOrder
<1>6. waitingEventsInBatch[batchIndex[l]] = batchSize
  BY <1>2 DEF InOrder, Counts, CompletesAt, Completing, IInv, Types
<1>7. \A m \in Lanes : Complete(m)'
  BY <1>2, <1>3, <1>6 DEF Complete, InOrder, Owning, Turn
<1>8. QED
  BY <1>4, <1>5, <1>7 DEF InOrder

LEMMA PushBatchInOrder ==
  ASSUME IInv, InOrder, NEW l \in Lanes, PushBatch(l)
  PROVE  InOrder'
<1>1. l \in Actors /\ pc \in [Actors -> PC] /\ batchIndex \in [Actors -> 0..NLanes]
      /\ l # Main /\ \A m \in Lanes : m \in Actors
  BY DEF IInv, Types, Actors, Lanes, Main
<1>2. /\ pc[l] = "push" /\ pc' = [pc EXCEPT ![l] = "wait"]
      /\ batchIndex' = [batchIndex EXCEPT ![l] = batchIndex[l]]
      /\ UNCHANGED <<presentEventEntry, eventBatches, waitingEventsInBatch, heap, event,
                     eventsInBatch, batch>>
  BY <1>1 DEF PushBatch, Goto, Set, shared
<1>3. /\ \A m \in Lanes : m # l => pc'[m] = pc[m]
      /\ pc'[l] = "wait" /\ batchIndex' = batchIndex
      /\ \A m \in Lanes : At(m)' = At(m)
  BY <1>1, <1>2 DEF At
<1>4. Counts' /\ Turns' /\ Filled'
  BY <1>2, <1>3, QuietStep DEF BeforeCount, Early, Completing
<1>5. RingPointers' /\ \A m \in Lanes : Complete(m)'
  BY <1>2, <1>3 DEF RingPointers, InOrder, Complete, Owning, Turn
<1>6. QED
  BY <1>4, <1>5 DEF InOrder

LEMMA OwnedBatches ==
  ASSUME IInv, ~crashed, NEW a \in Actors, pc[a] \in Owning
  PROVE  /\ batch[a] \in Unpushed /\ batch[a] \in DOMAIN heap /\ batch[a] \in Entries
         /\ \A b \in Ring : eventBatches[b] # batch[a]
<1>1. batch[a] # Null /\ batch[a] \in Contents
  BY DEF IInv, Types, OnePlacePerBatch
<1>2. batch[a] \in Entries
  BY <1>1 DEF Contents
<1>3. QED
  BY <1>2 DEF IInv, OnePlacePerBatch, Owns, Unpushed

\* The queue's steps, and the deletion of a batch.
LEMMA OutputInOrder ==
  ASSUME IInv, InOrder, ~crashed, StartOutput \/ FinishOutput \/ \E c \in Entries : DeleteBatch(c)
  PROVE  InOrder'
<1>1. pc \in [Actors -> PC] /\ \A m \in Lanes : m \in Actors
  BY DEF IInv, Types, Actors
<1>2. /\ UNCHANGED <<presentEventEntry, eventBatches, waitingEventsInBatch, event,
                     batchIndex, batch, eventsInBatch>>
      /\ \A m \in Lanes : pc'[m] = pc[m] \/ (pc[m] = "wait" /\ pc'[m] = "idle")
      /\ \A c \in Unpushed : heap'[c] = heap[c]
  <2>1. CASE StartOutput
    BY <2>1 DEF StartOutput, shared, locals
  <2>2. CASE FinishOutput
    BY <1>1, <2>2 DEF FinishOutput, shared, locals
  <2>3. ASSUME NEW c \in Entries, DeleteBatch(c)
        PROVE  /\ UNCHANGED <<shared, locals, pc>>
               /\ \A d \in Unpushed : heap'[d] = heap[d]
    BY <2>3 DEF DeleteBatch, Unpushed, Restrict
  <2>4. QED
    BY <2>1, <2>2, <2>3 DEF shared, locals
<1>3. Counts' /\ Turns' /\ Filled'
  BY <1>2, QuietStep DEF BeforeCount, Early, Completing
<1>4. RingPointers'
  BY <1>2 DEF RingPointers, InOrder, At
<1>5. \A m \in Lanes : pc[m] \in Owning => batch[m] \in Unpushed
  BY <1>1, OwnedBatches
<1>6. \A m \in Lanes : Complete(m)'
  BY <1>2, <1>5 DEF Complete, InOrder, Owning, Turn
<1>7. QED
  BY <1>3, <1>4, <1>6 DEF InOrder

----------------------------------------------------------------------------
\* The steps of a lane at a batch.

LEMMA CountInOrder ==
  ASSUME IInv, InOrder, NEW l \in Lanes, Count(l)
  PROVE  InOrder'
<1>1. l \in Actors /\ pc \in [Actors -> PC] /\ waitingEventsInBatch \in [Ring -> Nat]
      /\ \A m \in Lanes : m \in Actors
  BY DEF IInv, Types, Actors
<1>2. PICK b \in Ring, w \in Nat :
        /\ b = batchIndex[l] /\ w = waitingEventsInBatch[b] /\ w + 1 \in Nat
        /\ pc[l] = "count" /\ pc' = [pc EXCEPT ![l] = IF w + 1 = batchSize THEN "exchange" ELSE "idle"]
        /\ waitingEventsInBatch' = [waitingEventsInBatch EXCEPT ![b] = w + 1]
        /\ UNCHANGED <<presentEventEntry, eventBatches, heap, event, batchIndex, batch, eventsInBatch>>
  <2>1. batchIndex[l] \in Ring
    BY DEF IInv, Types
  <2>2. waitingEventsInBatch[batchIndex[l]] \in Nat /\ waitingEventsInBatch[batchIndex[l]] + 1 \in Nat
    BY <1>1, <2>1
  <2>3. QED
    BY <2>1, <2>2 DEF Count, Goto, Set, locals
<1>3. /\ \A m \in Lanes : m # l => pc'[m] = pc[m]
      /\ pc'[l] = (IF w + 1 = batchSize THEN "exchange" ELSE "idle")
      /\ waitingEventsInBatch'[b] = w + 1
      /\ \A d \in Ring : d # b => waitingEventsInBatch'[d] = waitingEventsInBatch[d]
      /\ \A m \in Lanes : At(m)' = At(m)
  BY <1>1, <1>2 DEF At
<1>4. l \in Inside(b)
  BY <1>2 DEF Inside, BeforeCount
<1>5. /\ w < batchSize /\ \A m \in Lanes : ~CompletesAt(m, b)
      /\ Current(b) => Size(b) = Begun
      /\ ~Current(b) => Size(b) = batchSize
      /\ Begun < batchSize /\ Begun \in Nat
  BY <1>2, <1>4, InsideOrComplete DEF Clean, IInv, InOrder
<1>6. Counts'
  <2>1. Inside(b)' = Inside(b) \ {l} /\ \A d \in Ring : d # b => Inside(d)' = Inside(d)
    BY <1>2, <1>3 DEF Inside, BeforeCount, Early
  <2>2. Size(b)' = Size(b) /\ (w + 1 = batchSize => ~Current(b))
    <3>1. Cardinality(Inside(b) \ {l}) = Cardinality(Inside(b)) - 1
          /\ Cardinality(Inside(b)) \in Nat /\ Cardinality(Inside(b) \ {l}) \in Nat
      <4>1. Inside(b) \in SUBSET Lanes /\ Inside(b) \ {l} \in SUBSET Lanes
        BY DEF Inside
      <4>2. QED
        BY <1>4, <4>1, LaneSets
    <3>2. (waitingEventsInBatch[b] + Cardinality(Inside(b)))' = (w + 1) + Cardinality(Inside(b) \ {l})
      BY <1>2, <1>3, <2>1
    <3>3. QED
      BY <1>2, <1>5, <3>1, <3>2, BatchAssumption DEF Size
  <2>3. \A d \in Ring : Current(d)' <=> Current(d)
    BY <1>2 DEF Current, Cur, Begun, Turn
  <2>4. \A m \in Lanes, d \in Ring :
          CompletesAt(m, d)' <=> CompletesAt(m, d) \/ (m = l /\ d = b /\ w + 1 = batchSize)
    BY <1>2, <1>3 DEF CompletesAt, Completing
  <2>5. \A d \in Ring : d # b => Size(d)' = Size(d) /\ (Clean(d)' <=> Clean(d))
    BY <1>2, <1>3, <2>1, <2>4 DEF Size, Clean
  <2>6. \A d \in Ring : IF Current(d) THEN Size(d)' = Begun ELSE Clean(d)' \/ Size(d)' = batchSize
    BY <1>5, <2>2, <2>5 DEF InOrder, Counts, Size
  <2>7. Begun' = Begun
    BY <1>2 DEF Begun
  <2>8. \A d \in Ring, m \in Lanes : CompletesAt(m, d)' => waitingEventsInBatch'[d] = batchSize
    BY <1>3, <1>5, <2>4 DEF InOrder, Counts
  <2>9. \A d \in Ring, m, k \in Lanes : CompletesAt(m, d)' /\ CompletesAt(k, d)' => m = k
    BY <1>5, <2>4 DEF InOrder, Counts
  <2>10. \A d \in Ring : waitingEventsInBatch'[d] = batchSize => \E m \in Lanes : CompletesAt(m, d)'
    BY <1>3, <2>4 DEF InOrder, Counts
  <2>11. QED
    BY <2>3, <2>6, <2>7, <2>8, <2>9, <2>10 DEF Counts, Size
<1>7. \A d \in Ring, e \in Entries : IsAt(e, d)' => IsAt(e, d)
  BY <1>2, <1>3 DEF IsAt, InBatch, BeforeCount
<1>8. \A e \in Entries : Held(e) => Held(e)'
  BY <1>2, <1>3 DEF Held, Early
<1>9. \A d \in Ring, e \in Entries : InBatch(eventBatches[d], e)' <=> InBatch(eventBatches[d], e)
  BY <1>2 DEF InBatch
<1>10. Turns' /\ Filled'
  BY <1>2, <1>7, <1>8, <1>9, TurnsStay, FilledStay DEF InOrder
<1>11. RingPointers' /\ \A m \in Lanes : Complete(m)'
  BY <1>2, <1>3 DEF RingPointers, InOrder, Complete, Owning, Turn
<1>12. QED
  BY <1>6, <1>10, <1>11 DEF InOrder

LEMMA ClearCountInOrder ==
  ASSUME IInv, InOrder, NEW l \in Lanes, ClearCount(l)
  PROVE  InOrder'
<1>1. l \in Actors /\ pc \in [Actors -> PC] /\ waitingEventsInBatch \in [Ring -> Nat]
      /\ \A m \in Lanes : m \in Actors
  BY DEF IInv, Types, Actors
<1>2. PICK b \in Ring :
        /\ b = batchIndex[l] /\ pc[l] = "clearCount" /\ pc' = [pc EXCEPT ![l] = "push"]
        /\ waitingEventsInBatch' = [waitingEventsInBatch EXCEPT ![b] = 0]
        /\ UNCHANGED <<presentEventEntry, eventBatches, heap, event, batchIndex, batch, eventsInBatch>>
  BY <1>1 DEF ClearCount, Goto, Set, locals, IInv, Types
<1>3. /\ \A m \in Lanes : m # l => pc'[m] = pc[m]
      /\ pc'[l] = "push" /\ waitingEventsInBatch'[b] = 0
      /\ \A d \in Ring : d # b => waitingEventsInBatch'[d] = waitingEventsInBatch[d]
      /\ \A m \in Lanes : At(m)' = At(m)
  BY <1>1, <1>2 DEF At
<1>4. CompletesAt(l, b)
  BY <1>2 DEF CompletesAt, Completing
<1>5. Inside(b) = {} /\ ~Current(b) /\ \A m \in Lanes : CompletesAt(m, b) => m = l
  BY <1>4, InsideOrComplete DEF IInv, InOrder
<1>6. eventBatches[b] = Null
  BY <1>2 DEF InOrder, RingPointers, At
<1>7. Counts'
  <2>1. \A d \in Ring : Inside(d)' = Inside(d)
    BY <1>2, <1>3 DEF Inside, BeforeCount, Early
  <2>2. \A m \in Lanes, d \in Ring : CompletesAt(m, d)' <=> CompletesAt(m, d) /\ m # l
    BY <1>2, <1>3 DEF CompletesAt, Completing
  <2>3. Clean(b)'
    BY <1>2, <1>3, <1>5, <1>6, <2>1, <2>2 DEF Clean
  <2>4. \A d \in Ring : d # b => Size(d)' = Size(d) /\ (Clean(d) => Clean(d)')
    BY <1>2, <1>3, <2>1, <2>2 DEF Size, Clean
  <2>5. /\ \A d \in Ring : Current(d)' <=> Current(d)
        /\ Begun' = Begun
    BY <1>2 DEF Current, Cur, Begun, Turn
  <2>6. \A d \in Ring : IF Current(d) THEN Size(d)' = Begun ELSE Clean(d)' \/ Size(d)' = batchSize
    BY <1>5, <2>3, <2>4 DEF InOrder, Counts, Size
  <2>7. /\ \A d \in Ring, m \in Lanes : CompletesAt(m, d)' => waitingEventsInBatch'[d] = batchSize
        /\ \A d \in Ring, m, k \in Lanes : CompletesAt(m, d)' /\ CompletesAt(k, d)' => m = k
    BY <1>3, <1>5, <2>2 DEF InOrder, Counts
  <2>8. \A d \in Ring, m \in Lanes : d # b => ~CompletesAt(l, d)
    BY <1>2 DEF CompletesAt
  <2>9. \A d \in Ring : waitingEventsInBatch'[d] = batchSize => \E m \in Lanes : CompletesAt(m, d)'
    BY <1>3, <2>2, <2>8, BatchAssumption DEF InOrder, Counts
  <2>10. QED
    BY <2>5, <2>6, <2>7, <2>9 DEF Counts, Size
<1>8. \A d \in Ring, e \in Entries : IsAt(e, d)' => IsAt(e, d)
  BY <1>2, <1>3 DEF IsAt, InBatch, BeforeCount, Early
<1>9. \A e \in Entries : Held(e) => Held(e)'
  BY <1>2, <1>3 DEF Held, Early
<1>10. \A d \in Ring, e \in Entries : InBatch(eventBatches[d], e)' <=> InBatch(eventBatches[d], e)
  BY <1>2 DEF InBatch
<1>11. Turns' /\ Filled'
  BY <1>2, <1>8, <1>9, <1>10, TurnsStay, FilledStay DEF InOrder
<1>12. RingPointers' /\ \A m \in Lanes : Complete(m)'
  BY <1>2, <1>3 DEF RingPointers, InOrder, Complete, Owning, Turn
<1>13. QED
  BY <1>7, <1>11, <1>12 DEF InOrder

\* The batch taken out is full: every event of its turn was taken, is not held
\* any more, and has nowhere else to be.
LEMMA ExchangeInOrder ==
  ASSUME IInv, InOrder, NEW l \in Lanes, Exchange(l)
  PROVE  InOrder'
<1>1. l \in Actors /\ pc \in [Actors -> PC] /\ eventBatches \in [Ring -> Contents]
      /\ batch \in [Actors -> Contents] /\ \A m \in Lanes : m \in Actors
  BY DEF IInv, Types, Actors
<1>2. PICK b \in Ring, c \in Contents :
        /\ b = batchIndex[l] /\ c = eventBatches[b] /\ c = At(l) /\ pc[l] = "exchange"
        /\ pc' = [pc EXCEPT ![l] = "readCount"] /\ batch' = [batch EXCEPT ![l] = c]
        /\ eventBatches' = [eventBatches EXCEPT ![b] = Null]
        /\ UNCHANGED <<presentEventEntry, waitingEventsInBatch, heap, event, batchIndex, eventsInBatch>>
  <2>1. batchIndex[l] \in Ring
    BY DEF IInv, Types
  <2>2. eventBatches[batchIndex[l]] \in Contents /\ At(l) = eventBatches[batchIndex[l]]
    BY <1>1, <2>1 DEF At
  <2>3. QED
    BY <2>1, <2>2 DEF Exchange, Goto, Set
<1>3. /\ \A m \in Lanes : m # l => pc'[m] = pc[m] /\ batch'[m] = batch[m]
      /\ pc'[l] = "readCount" /\ batch'[l] = c /\ eventBatches'[b] = Null
      /\ \A d \in Ring : d # b => eventBatches'[d] = eventBatches[d]
  BY <1>1, <1>2
<1>4. CompletesAt(l, b)
  BY <1>2 DEF CompletesAt, Completing
<1>5. /\ Inside(b) = {} /\ ~Current(b) /\ \A m \in Lanes : CompletesAt(m, b) => m = l
      /\ Begun \in Nat /\ Begun < batchSize
  BY <1>4, InsideOrComplete DEF IInv, InOrder
<1>6. c # Null
  BY <1>2 DEF InOrder, RingPointers
<1>7. Counts'
  <2>1. \A d \in Ring : Clean(d) => eventBatches'[d] = Null
    BY <1>3 DEF Clean
  <2>2. QED
    BY <1>2, <1>3, <2>1, CountsStay DEF BeforeCount, Early, Completing, InOrder
<1>8. \A e \in Entries : ~IsAt(e, b)' /\ \A d \in Ring : IsAt(e, d)' => IsAt(e, d)
  <2>1. \A m \in Lanes : ~(pc'[m] \in BeforeCount \cup {"exchange"} /\ batchIndex'[m] = b)
    BY <1>2, <1>3, <1>5 DEF Inside, CompletesAt, Completing, BeforeCount, Early
  <2>2. \A e \in Entries : ~IsAt(e, b)'
    BY <1>3, <2>1 DEF IsAt
  <2>3. \A e \in Entries, d \in Ring : d # b => (IsAt(e, d)' => IsAt(e, d))
    BY <1>2, <1>3 DEF IsAt, InBatch, BeforeCount, Early
  <2>4. QED
    BY <2>2, <2>3
<1>9. Turns'
  BY <1>2, <1>8, TurnsStay DEF InOrder
<1>10. Filled'
  <2>1. \A d \in Ring : Current(d)' <=> Current(d)
    BY <1>2 DEF Current, Cur, Begun, Turn
  <2>2. Cur' = Cur /\ \A e \in Entries : Held(e)' <=> Held(e)
    BY <1>2, <1>3 DEF Cur, Turn, Held, Early
  <2>3. \A d \in Ring, e \in Entries : d # b =>
          (InBatch(eventBatches[d], e)' <=> InBatch(eventBatches[d], e))
    BY <1>2, <1>3 DEF InBatch
  <2>4. QED
    BY <1>2, <1>3, <1>5, <1>8, <2>1, <2>2, <2>3 DEF InOrder, Filled, Turn
<1>11. RingPointers'
  <2>1. \A m \in Lanes : m # l /\ batchIndex[m] = b =>
          pc[m] \notin {"reload", "fill", "count", "exchange", "readCount", "clearCount"}
    BY <1>5 DEF Inside, CompletesAt, Completing, BeforeCount, Early
  <2>2. \A m \in Lanes : batchIndex[m] # b => At(m)' = At(m)
    BY <1>2, <1>3 DEF At, IInv, Types
  <2>3. At(l)' = Null
    BY <1>2, <1>3 DEF At
  <2>4. QED
    BY <1>3, <2>1, <2>2, <2>3 DEF InOrder, RingPointers
<1>12. Complete(l)'
  <2>1. PICK e \in Entries, t \in Nat : e = event[l] /\ t = Turn(e) /\ e < presentEventEntry
                                        /\ (t % NLanes) = b /\ presentEventEntry \in Nat
    <3>1. event[l] \in Entries /\ event[l] < presentEventEntry /\ presentEventEntry \in Nat
      BY <1>1, <1>2 DEF IInv, LaneEvents, Types, Contents
    <3>2. event[l] \in Nat
      BY <3>1 DEF Entries
    <3>3. Turn(event[l]) \in Nat
      BY <3>2, TurnType
    <3>4. (Turn(event[l]) % NLanes) = b
      BY <1>2 DEF IInv, LaneEvents
    <3>5. QED
      BY <3>1, <3>3, <3>4
  <2>2. e \in Nat
    BY DEF Entries
  <2>3. t < Cur /\ Cur \in Nat
    <3>1. t <= Cur /\ (Begun = 0 => t < Cur) /\ Cur \in Nat
      BY <2>1, <2>2, EarlierTurn, TurnType DEF Cur, Begun
    <3>2. t # Cur
      BY <2>1, <3>1, <1>5, BatchAssumption DEF Current
    <3>3. QED
      BY <3>1, <3>2, <2>1
  <2>4. IsAt(e, b)
    BY <1>2, <2>1 DEF IsAt
  <2>5. ASSUME NEW i \in 1..batchSize
        PROVE  heap[c][i] = t * batchSize + i - 1
    <3>1. PICK f \in Nat : /\ f = t * batchSize + i - 1 /\ Turn(f) = t /\ IndexInBatch(f) = i
                           /\ f < presentEventEntry
      BY <2>1, <2>3, SlotOfTurn, SlotBelow DEF Cur
    <3>2. f \in Entries
      BY <2>1, <3>1, BatchAssumption DEF Entries, IInv, Types
    <3>3. ~Held(f)
      <4>1. ASSUME NEW m \in Lanes, pc[m] \in Early, event[m] = f PROVE FALSE
        <5>1. event[m] # Null
          BY <3>2, <4>1 DEF Entries, Null
        <5>2. batchIndex[m] = b
          BY <2>1, <3>1, <4>1, <5>1 DEF IInv, LaneEvents
        <5>3. QED
          BY <1>5, <4>1, <5>2 DEF Inside, BeforeCount
      <4>2. QED
        BY <4>1 DEF Held
    <3>4. InBatch(c, f)
      BY <1>2, <2>1, <2>4, <3>1, <3>2, <3>3 DEF InOrder, Filled
    <3>5. QED
      BY <3>1, <3>4 DEF InBatch
  <2>6. QED
    BY <1>2, <1>3, <2>1, <2>5 DEF Complete, Turn
<1>13. \A m \in Lanes : m # l => Complete(m)'
  BY <1>2, <1>3 DEF InOrder, Complete, Turn
<1>14. QED
  BY <1>7, <1>9, <1>10, <1>11, <1>12, <1>13 DEF InOrder

LEMMA InstallInOrder ==
  ASSUME IInv, InOrder, ~crashed, NEW l \in Lanes, Install(l)
  PROVE  InOrder'
<1>1. l \in Actors /\ pc \in [Actors -> PC] /\ eventBatches \in [Ring -> Contents]
      /\ batch \in [Actors -> Contents] /\ batchIndex[l] \in Ring /\ \A m \in Lanes : m \in Actors
  BY DEF IInv, Types, Actors
<1>2. pc[l] = "cas" /\ UNCHANGED <<presentEventEntry, waitingEventsInBatch, event, batchIndex,
                                   eventsInBatch>>
  BY DEF Install, Goto
<1>3. CASE At(l) # Null
  <2>1. /\ pc' = [pc EXCEPT ![l] = "fill"] /\ batch' = [batch EXCEPT ![l] = At(l)]
        /\ UNCHANGED <<eventBatches, heap>>
    BY <1>3 DEF Install, Goto, Set
  <2>2. /\ \A m \in Lanes : m # l => pc'[m] = pc[m] /\ batch'[m] = batch[m]
        /\ pc'[l] = "fill" /\ batch'[l] = At(l) /\ \A m \in Lanes : At(m)' = At(m)
    BY <1>1, <1>2, <2>1 DEF At
  <2>3. Counts' /\ Turns' /\ Filled'
    BY <1>2, <2>1, <2>2, QuietStep DEF BeforeCount, Early, Completing
  <2>4. RingPointers' /\ \A m \in Lanes : Complete(m)'
    BY <1>2, <1>3, <2>1, <2>2 DEF RingPointers, InOrder, Complete, Owning, Turn
  <2>5. QED
    BY <2>3, <2>4 DEF InOrder
<1>4. CASE At(l) = Null
  <2>1. PICK n \in Contents, b \in Ring :
          /\ n = event[l] /\ b = batchIndex[l] /\ eventBatches[b] = Null
          /\ pc' = [pc EXCEPT ![l] = "reload"] /\ batch' = batch
          /\ eventBatches' = [eventBatches EXCEPT ![b] = n]
          /\ heap' = [c \in DOMAIN heap \cup {n} |-> IF c = n THEN NewBatch ELSE heap[c]]
    BY <1>1, <1>4 DEF Install, Goto, Set, At, IInv, Types
  <2>2. /\ n # Null /\ n \in Entries /\ n \notin DOMAIN heap
    <3>1. n # Null /\ n \in Entries
      BY <1>2, <2>1 DEF IInv, LaneEvents, Contents
    <3>2. ~Known(n)
      BY <1>2, <2>1, <3>1 DEF IInv, AllocatedOnce
    <3>3. QED
      BY <3>1, <3>2 DEF Known
  <2>3. /\ \A m \in Lanes : m # l => pc'[m] = pc[m]
        /\ pc'[l] = "reload" /\ eventBatches'[b] = n
        /\ \A d \in Ring : d # b => eventBatches'[d] = eventBatches[d]
        /\ \A i \in 1..batchSize : heap'[n][i] = Null
        /\ \A c \in DOMAIN heap : heap'[c] = heap[c]
    BY <1>1, <2>1, <2>2 DEF NewBatch
  <2>4. /\ \A m \in Lanes : ~CompletesAt(m, b)
        /\ ~Clean(b)
    <3>1. l \in Inside(b)
      BY <1>2, <2>1 DEF Inside, BeforeCount, Early
    <3>2. QED
      BY <3>1, InsideOrComplete DEF IInv, InOrder, Clean
  <2>5. Counts'
    <3>1. \A d \in Ring : Clean(d) => eventBatches'[d] = Null
      BY <2>3, <2>4 DEF Clean
    <3>2. QED
      BY <1>2, <2>3, <3>1, CountsStay DEF BeforeCount, Early, Completing, InOrder
  <2>6. \A e \in Entries : ~InBatch(n, e)' /\ \A d \in Ring :
          d # b /\ eventBatches[d] # Null => (InBatch(eventBatches[d], e)' <=> InBatch(eventBatches[d], e))
    <3>1. \A e \in Entries : IndexInBatch(e) \in 1..batchSize /\ e # Null
      BY BatchAssumption DEF Entries, IndexInBatch, Null
    <3>2. \A d \in Ring : eventBatches[d] # Null => eventBatches[d] \in DOMAIN heap
      BY DEF IInv, OnePlacePerBatch, Unpushed
    <3>3. QED
      BY <2>3, <3>1, <3>2 DEF InBatch
  <2>7. \A e \in Entries, d \in Ring : IsAt(e, d)' => IsAt(e, d)
    <3>1. \A e \in Entries : ~InBatch(eventBatches[b], e)'
      BY <2>3, <2>6 DEF InBatch
    <3>2. \A e \in Entries, d \in Ring :
            (eventBatches[d] # Null /\ InBatch(eventBatches[d], e))' =>
            (eventBatches[d] # Null /\ InBatch(eventBatches[d], e))
      BY <2>3, <2>6, <3>1
    <3>3. \A e \in Entries, d \in Ring, m \in Lanes :
            pc'[m] \in BeforeCount \cup {"exchange"} /\ batchIndex'[m] = d /\ event'[m] = e =>
            pc[m] \in BeforeCount \cup {"exchange"} /\ batchIndex[m] = d /\ event[m] = e
      BY <1>2, <2>3 DEF BeforeCount, Early
    <3>4. QED
      BY <3>2, <3>3 DEF IsAt
  <2>8. \A e \in Entries : Held(e) => Held(e)'
    BY <1>2, <2>3 DEF Held, Early
  <2>9. \A d \in Ring, e \in Entries : eventBatches[d] # Null /\ InBatch(eventBatches[d], e)
           => eventBatches'[d] # Null /\ InBatch(eventBatches[d], e)'
    BY <2>1, <2>3, <2>6
  <2>10. Turns' /\ Filled'
    BY <1>2, <2>7, <2>8, <2>9, TurnsStay, FilledStay DEF InOrder
  <2>11. RingPointers'
    <3>1. \A m \in Lanes : batchIndex[m] # b => At(m)' = At(m)
      BY <1>2, <2>3 DEF At, IInv, Types
    <3>2. \A m \in Lanes : batchIndex[m] = b => At(m)' = n /\ At(m) = Null
      BY <1>2, <2>1, <2>3 DEF At
    <3>3. \A m \in Lanes : batchIndex[m] = b => pc[m] \notin {"readCount", "clearCount"}
      BY <2>4 DEF CompletesAt, Completing
    <3>4. QED
      BY <1>2, <2>1, <2>2, <2>3, <3>1, <3>2, <3>3 DEF InOrder, RingPointers
  <2>12. \A m \in Lanes : Complete(m)'
    <3>1. \A m \in Lanes : pc[m] \in Owning => batch[m] \in DOMAIN heap
      BY <1>1, OwnedBatches
    <3>2. QED
      BY <1>2, <2>1, <2>3, <3>1 DEF InOrder, Complete, Owning, Turn
  <2>13. QED
    BY <2>5, <2>10, <2>11, <2>12 DEF InOrder
<1>5. QED
  BY <1>3, <1>4

\* What a lane that fills a slot finds.
LEMMA SlotIsFree ==
  ASSUME IInv, InOrder, NEW l \in Lanes, pc[l] = "fill"
  PROVE  /\ batch[l] \in Unpushed /\ batch[l] \in DOMAIN heap /\ batch[l] = At(l)
         /\ heap[batch[l]][IndexInBatch(event[l])] = Null
<1>1. PICK b \in Ring, c \in Contents, e \in Entries :
        /\ b = batchIndex[l] /\ c = eventBatches[b] /\ c = batch[l] /\ c = At(l) /\ c # Null
        /\ e = event[l] /\ (Turn(e) % NLanes) = b
  <2>1. l \in Actors /\ batchIndex[l] \in Ring
    BY DEF IInv, Types, Actors
  <2>2. event[l] \in Entries /\ (Turn(event[l]) % NLanes) = batchIndex[l]
    BY <2>1 DEF IInv, LaneEvents, Types, Contents
  <2>3. eventBatches[batchIndex[l]] \in Contents
    BY <2>1 DEF IInv, Types
  <2>4. batch[l] = At(l) /\ At(l) # Null
    BY DEF InOrder, RingPointers
  <2>5. QED
    BY <2>1, <2>2, <2>3, <2>4 DEF At
<1>2. c \in Unpushed /\ c \in DOMAIN heap
  <2>1. eventBatches[b] \in Unpushed
    BY <1>1 DEF IInv, OnePlacePerBatch
  <2>2. QED
    BY <1>1, <2>1 DEF Unpushed
<1>3. IndexInBatch(e) \in 1..batchSize /\ e \in Nat
  BY BatchAssumption DEF Entries, IndexInBatch
<1>4. ASSUME heap[c][IndexInBatch(e)] # Null PROVE FALSE
  <2>1. PICK f \in Contents : f = heap[c][IndexInBatch(e)]
    BY <1>2, <1>3, ContentsOfSlots DEF IInv
  <2>2. f \in Entries /\ IndexInBatch(f) = IndexInBatch(e)
    BY <1>2, <1>3, <1>4, <2>1 DEF IInv, SlotsAreIndices, InSlot, Contents
  <2>3. IsAt(f, b) /\ IsAt(e, b)
    BY <1>1, <2>1, <2>2 DEF IsAt, InBatch, BeforeCount, Early
  <2>4. Turn(f) = Turn(e)
    BY <2>2, <2>3 DEF InOrder, Turns
  <2>5. f = e
    BY <2>2, <2>4, <1>3, SameSlot DEF Entries
  <2>6. InHeap(e) /\ Ahead(e)
    BY <1>1, <1>2, <2>1, <2>5 DEF InHeap, InBatch, Ahead, Held, Early
  <2>7. QED
    BY <2>6 DEF IInv, OnePlacePerEvent
<1>5. QED
  BY <1>1, <1>2, <1>4

LEMMA FillInOrder ==
  ASSUME IInv, InOrder, ~crashed, NEW l \in Lanes, Fill(l)
  PROVE  InOrder' /\ crashed' = FALSE
<1>1. l \in Actors /\ pc \in [Actors -> PC] /\ \A m \in Lanes : m \in Actors
  BY DEF IInv, Types, Actors
<1>2. PICK b \in Ring, c \in Contents, e \in Entries, i \in 1..batchSize :
        /\ b = batchIndex[l] /\ c = eventBatches[b] /\ c = batch[l] /\ c \in Unpushed
        /\ c \in DOMAIN heap /\ e = event[l] /\ i = IndexInBatch(e) /\ heap[c][i] = Null
        /\ c # Null /\ e # Null /\ (Turn(e) % NLanes) = b
        /\ heap[c] \in [1..batchSize -> Contents]
  <2>1. pc[l] = "fill"
    BY DEF Fill, FillSlot, Goto
  <2>2. batchIndex[l] \in Ring /\ event[l] \in Entries /\ event[l] # Null
        /\ (Turn(event[l]) % NLanes) = batchIndex[l] /\ batch[l] \in Contents
    BY <1>1, <2>1 DEF IInv, LaneEvents, Types, Contents
  <2>3. IndexInBatch(event[l]) \in 1..batchSize
    BY <2>2, BatchAssumption DEF Entries, IndexInBatch
  <2>4. batch[l] # Null /\ batch[l] = eventBatches[batchIndex[l]]
    BY <2>1 DEF InOrder, RingPointers, At
  <2>5. heap[batch[l]] \in [1..batchSize -> Contents]
    BY <2>1, SlotIsFree DEF IInv, Types
  <2>6. QED
    BY <2>1, <2>2, <2>3, <2>4, <2>5, SlotIsFree
<1>3. /\ pc[l] = "fill" /\ pc' = [pc EXCEPT ![l] = "count"] /\ crashed' = FALSE
      /\ heap' = [heap EXCEPT ![c][i] = e]
      /\ UNCHANGED <<presentEventEntry, waitingEventsInBatch, eventBatches, event, batchIndex,
                     batch, eventsInBatch>>
  BY <1>2 DEF Fill, FillSlot, Goto, shared, locals
<1>4. /\ \A m \in Lanes : m # l => pc'[m] = pc[m]
      /\ pc'[l] = "count" /\ \A d \in DOMAIN heap : d # c => heap'[d] = heap[d]
      /\ heap'[c][i] = e /\ \A k \in 1..batchSize : k # i => heap'[c][k] = heap[c][k]
      /\ \A m \in Lanes : At(m)' = At(m)
  BY <1>1, <1>2, <1>3 DEF At
<1>5. Counts'
  BY <1>3, <1>4, CountsStay DEF BeforeCount, Early, Completing, InOrder, Clean
<1>6. IsAt(e, b)
  BY <1>2, <1>3 DEF IsAt, BeforeCount, Early
<1>7. \A f \in Entries : f # Null /\ IndexInBatch(f) \in 1..batchSize
  BY BatchAssumption DEF Entries, IndexInBatch, Null
<1>8. \A d \in Ring, f \in Entries : eventBatches[d] # Null =>
        (InBatch(eventBatches[d], f)' <=> InBatch(eventBatches[d], f) \/ (d = b /\ f = e))
  <2>1. \A d \in Ring : eventBatches[d] # Null /\ d # b =>
          eventBatches[d] \in DOMAIN heap /\ eventBatches[d] # c
    BY <1>2 DEF IInv, OnePlacePerBatch, Unpushed
  <2>2. \A d \in Ring, f \in Entries : eventBatches[d] # Null /\ d # b =>
          (InBatch(eventBatches[d], f)' <=> InBatch(eventBatches[d], f))
    BY <1>3, <1>4, <2>1 DEF InBatch
  <2>3. \A f \in Entries : InBatch(eventBatches[b], f)' <=> InBatch(eventBatches[b], f) \/ f = e
    BY <1>2, <1>3, <1>4, <1>7 DEF InBatch
  <2>4. QED
    BY <2>2, <2>3
<1>9. \A d \in Ring, f \in Entries : IsAt(f, d)' => IsAt(f, d)
  BY <1>3, <1>4, <1>6, <1>8 DEF IsAt, BeforeCount, Early
<1>10. Turns'
  BY <1>3, <1>9, TurnsStay DEF InOrder
<1>11. Filled'
  <2>1. \A f \in Entries : ~Held(f)' => ~Held(f) \/ f = e
    BY <1>2, <1>3, <1>4 DEF Held
  <2>2. (\A d \in Ring : Current(d)' <=> Current(d)) /\ Cur' = Cur
    BY <1>3 DEF Current, Cur, Begun, Turn
  <2>3. \A d \in Ring : (Current(d) /\ Turn(e) = Cur) \/ (\E g \in Entries : IsAt(g, d) /\ Turn(g) = Turn(e))
          => d = b
    BY <1>2 DEF InOrder, Turns, Current
  <2>4. ASSUME NEW d \in Ring, NEW f \in Entries, f < presentEventEntry, ~Held(f)',
               (Current(d) /\ Turn(f) = Cur) \/ (\E g \in Entries : IsAt(g, d) /\ Turn(g) = Turn(f))
        PROVE  eventBatches[d] # Null /\ InBatch(eventBatches[d], f)'
    <3>1. CASE f = e
      BY <1>2, <1>8, <2>3, <2>4, <3>1
    <3>2. CASE ~Held(f)
      BY <1>8, <2>4, <3>2 DEF InOrder, Filled
    <3>3. QED
      BY <2>1, <2>4, <3>1, <3>2
  <2>5. QED
    BY <1>3, <1>9, <2>2, <2>4 DEF Filled, Turn
<1>12. RingPointers'
  BY <1>2, <1>3, <1>4 DEF InOrder, RingPointers
<1>13. \A m \in Lanes : Complete(m)'
  <2>1. \A m \in Lanes : pc[m] \in Owning => batch[m] \in DOMAIN heap /\ batch[m] # c
    BY <1>1, <1>2, OwnedBatches
  <2>2. QED
    BY <1>3, <1>4, <2>1 DEF InOrder, Complete, Owning, Turn
<1>14. QED
  BY <1>3, <1>5, <1>10, <1>11, <1>12, <1>13 DEF InOrder

\* Without overrun, a lane that takes an entry finds the batch as the previous
\* entry left it: begun by this turn, or clean.
LEMMA TakeEntryInOrder ==
  ASSUME IInv, InOrder, NEW l \in Lanes, TakeEntry(l), ~overrun'
  PROVE  InOrder'
<1>1. l \in Actors /\ pc \in [Actors -> PC] /\ event \in [Actors -> Contents]
      /\ batchIndex \in [Actors -> 0..NLanes] /\ \A m \in Lanes : m \in Actors
  BY DEF IInv, Types, Actors
<1>2. PICK e \in Nat, t \in Nat, n \in Nat, b \in Ring :
        /\ e = presentEventEntry /\ t = Turn(e) /\ t = Cur /\ n = Begun /\ n = e % batchSize
        /\ b = t % NLanes /\ e \in Entries /\ n < batchSize
        /\ IF n + 1 < batchSize THEN Turn(e + 1) = t /\ ((e + 1) % batchSize) = n + 1
           ELSE Turn(e + 1) = t + 1 /\ ((e + 1) % batchSize) = 0 /\ n + 1 = batchSize
  <2>1. presentEventEntry \in Nat /\ presentEventEntry \in Entries
    BY BatchAssumption DEF TakeEntry, EntryOfBatch, Entries, IInv, Types
  <2>2. Turn(presentEventEntry) \in Nat /\ Begun \in Nat /\ Begun < batchSize
    BY <2>1, TurnType DEF Begun
  <2>3. (Turn(presentEventEntry) % NLanes) \in Ring
    BY <2>2, BatchAssumption DEF Ring
  <2>4. QED
    BY <2>1, <2>2, <2>3, TurnOfNext DEF Cur, Begun
<1>3. /\ pc[l] = "idle" /\ pc' = [pc EXCEPT ![l] = "load"] /\ presentEventEntry' = e + 1
      /\ event' = [event EXCEPT ![l] = e] /\ batchIndex' = [batchIndex EXCEPT ![l] = b]
      /\ ~InUse(b)
      /\ UNCHANGED <<eventBatches, waitingEventsInBatch, heap, batch, eventsInBatch>>
  BY <1>2 DEF TakeEntry, EntryOfBatch, Goto, Set, Turn
<1>4. /\ \A m \in Lanes : m # l => pc'[m] = pc[m] /\ event'[m] = event[m] /\ batchIndex'[m] = batchIndex[m]
      /\ pc'[l] = "load" /\ event'[l] = e /\ batchIndex'[l] = b
      /\ \A m \in Lanes : m # l => At(m)' = At(m)
  BY <1>1, <1>3 DEF At
<1>5. \A m \in Lanes : pc[m] \in BeforeCount \cup Completing /\ batchIndex[m] = b =>
        Turn(event[m]) = t /\ n > 0
  <2>1. ASSUME NEW m \in Lanes, pc[m] \in BeforeCount \cup Completing, batchIndex[m] = b
        PROVE  Turn(event[m]) = t /\ n > 0
    <3>1. Turn(event[m]) = t
      BY <1>2, <1>3, <2>1 DEF InUse, Turn, BeforeCount, Early, Completing
    <3>2. event[m] \in Nat /\ event[m] < e
      BY SMTT(30), <1>1, <1>2, <2>1 DEF IInv, LaneEvents, Types, Contents, Entries, BeforeCount, Early, Completing
    <3>3. n # 0
      <4>1. (e % batchSize) = 0 => Turn(event[m]) < Turn(e)
        BY <3>2, EarlierTurn
      <4>2. QED
        BY <1>2, <3>1, <4>1
    <3>4. QED
      BY <3>1, <3>3
  <2>2. QED
    BY <2>1
<1>6. n = 0 => Clean(b)
  <2>1. ASSUME n = 0 PROVE Inside(b) = {} /\ \A m \in Lanes : ~CompletesAt(m, b)
    BY <1>5, <2>1 DEF Inside, CompletesAt
  <2>2. n = 0 => ~Current(b)
    BY <1>2 DEF Current
  <2>3. n = 0 => waitingEventsInBatch[b] # batchSize
    BY <2>1 DEF InOrder, Counts
  <2>4. Inside(b) = {} => Size(b) = waitingEventsInBatch[b]
    <3>1. Cardinality({}) = 0
      BY LaneSets
    <3>2. QED
      BY <3>1 DEF Size, IInv, Types
  <2>5. QED
    BY <2>1, <2>2, <2>3, <2>4, InsideOrComplete DEF IInv, InOrder
<1>7. n > 0 => Current(b)
  BY <1>2 DEF Current
<1>8. /\ Size(b) = n /\ \A m \in Lanes : ~CompletesAt(m, b)
      /\ waitingEventsInBatch[b] \in Nat /\ waitingEventsInBatch[b] # batchSize
  <2>1. CASE n = 0
    <3>1. Cardinality({}) = 0
      BY LaneSets
    <3>2. QED
      BY <1>6, <2>1, <3>1, BatchAssumption DEF Size, Clean
  <2>2. CASE n > 0
    BY <1>2, <1>7, <2>2, InsideOrComplete DEF IInv, InOrder, Size
  <2>3. QED
    BY <1>2, <2>1, <2>2
<1>9. \A d \in Ring : d # b => ~Current(d) /\ ~Current(d)'
  <2>1. \A d \in Ring : d # b => ~Current(d)
    BY <1>2 DEF Current
  <2>2. Cur' = Turn(e + 1) /\ Begun' = ((e + 1) % batchSize)
    BY <1>3 DEF Cur, Begun, Turn
  <2>3. \A d \in Ring : d # b => ~(d = Cur' % NLanes /\ Begun' > 0)
    BY <1>2, <2>2
  <2>4. QED
    BY <2>1, <2>3 DEF Current
<1>10. /\ Current(b)' <=> n + 1 < batchSize
       /\ Current(b)' => Cur' = t /\ Begun' = n + 1
  <2>1. Cur' = Turn(e + 1) /\ Begun' = ((e + 1) % batchSize)
    BY <1>3 DEF Cur, Begun, Turn
  <2>2. (b = Cur' % NLanes /\ Begun' > 0) <=> n + 1 < batchSize
    BY <1>2, <2>1
  <2>3. QED
    BY <1>2, <2>1, <2>2 DEF Current
<1>11. Counts'
  <2>1. Inside(b)' = Inside(b) \cup {l} /\ \A d \in Ring : d # b => Inside(d)' = Inside(d)
    BY <1>3, <1>4 DEF Inside, BeforeCount, Early
  <2>2. \A m \in Lanes, d \in Ring : CompletesAt(m, d)' <=> CompletesAt(m, d)
    BY <1>3, <1>4 DEF CompletesAt, Completing
  <2>3. Size(b)' = n + 1
    <3>1. Inside(b) \in SUBSET Lanes /\ l \in Lanes \ Inside(b)
      BY <1>3 DEF Inside, BeforeCount, Early
    <3>2. Cardinality(Inside(b) \cup {l}) = Cardinality(Inside(b)) + 1
          /\ Cardinality(Inside(b)) \in Nat
      BY <3>1, LaneSets
    <3>3. QED
      BY <1>3, <1>8, <2>1, <3>2 DEF Size
  <2>4. \A d \in Ring : d # b => Size(d)' = Size(d) /\ (Clean(d) => Clean(d)')
    BY <1>3, <2>1, <2>2 DEF Size, Clean
  <2>5. \A d \in Ring : IF Current(d)' THEN Size(d)' = Begun' ELSE Clean(d)' \/ Size(d)' = batchSize
    <3>1. CASE n + 1 < batchSize
      BY <1>9, <1>10, <2>3, <2>4, <3>1 DEF InOrder, Counts, Size
    <3>2. CASE ~(n + 1 < batchSize)
      BY <1>2, <1>9, <1>10, <2>3, <2>4, <3>2 DEF InOrder, Counts, Size
    <3>3. QED
      BY <3>1, <3>2
  <2>6. QED
    BY <1>3, <2>2, <2>5 DEF InOrder, Counts, Size
<1>12. \A f \in Entries : IsAt(f, b) => n > 0 /\ Turn(f) = t
  <2>1. \A f \in Entries : IsAt(f, b) => n > 0
    <3>1. ASSUME NEW f \in Entries, IsAt(f, b), n = 0 PROVE FALSE
      BY <1>5, <1>6, <3>1 DEF IsAt, Clean, Completing
    <3>2. QED
      BY <1>2, <3>1
  <2>2. QED
    BY <1>2, <1>7, <2>1 DEF InOrder, Turns
<1>13. \A f \in Entries, d \in Ring : IsAt(f, d)' => IsAt(f, d) \/ (f = e /\ d = b)
  BY <1>3, <1>4 DEF IsAt, InBatch, BeforeCount, Early
<1>14. Turns'
  <2>1. ASSUME NEW d \in Ring, NEW f \in Entries, IsAt(f, d)'
        PROVE  /\ (Turn(f) % NLanes) = d
               /\ Current(d)' => Turn(f) = Cur'
               /\ \A g \in Entries : IsAt(g, d)' => Turn(f) = Turn(g)
    <3>1. CASE d = b
      <4>1. \A g \in Entries : IsAt(g, b)' => Turn(g) = t
        BY <1>2, <1>12, <1>13
      <4>2. QED
        BY <1>2, <1>10, <2>1, <3>1, <4>1
    <3>2. CASE d # b
      BY <1>9, <1>13, <2>1, <3>2 DEF InOrder, Turns
    <3>3. QED
      BY <3>1, <3>2
  <2>2. QED
    BY <2>1 DEF Turns, Turn
<1>15. Filled'
  <2>1. \A f \in Entries : ~Held(f)' => ~Held(f) /\ f # e
    BY <1>3, <1>4 DEF Held, Early
  <2>2. \A f \in Entries : f < e + 1 /\ f # e => f < e
    BY <1>2 DEF Entries
  <2>3. \A d \in Ring, f \in Entries : InBatch(eventBatches[d], f)' <=> InBatch(eventBatches[d], f)
    BY <1>3 DEF InBatch
  <2>4. ASSUME NEW d \in Ring, NEW f \in Entries, f < e + 1, ~Held(f)',
               \/ Current(d)' /\ Turn(f) = Cur'
               \/ \E g \in Entries : IsAt(g, d)' /\ Turn(g) = Turn(f)
        PROVE  eventBatches[d] # Null /\ InBatch(eventBatches[d], f)
    <3>1. f < e /\ ~Held(f)
      BY <2>1, <2>2, <2>4
    <3>2. CASE \E g \in Entries : IsAt(g, d) /\ Turn(g) = Turn(f)
      BY <1>2, <3>1, <3>2 DEF InOrder, Filled
    <3>3. CASE d = b /\ Turn(f) = t
      <4>1. n # 0
        <5>1. (e % batchSize) = 0 => Turn(f) < Turn(e)
          BY <3>1, EarlierTurn DEF Entries
        <5>2. QED
          BY <1>2, <3>3, <5>1
      <4>2. Current(b)
        BY <1>2, <1>7, <4>1
      <4>3. QED
        BY <1>2, <3>1, <3>3, <4>2 DEF InOrder, Filled
    <3>4. QED
      BY <1>2, <1>9, <1>10, <1>13, <2>4, <3>2, <3>3
  <2>5. QED
    BY <1>3, <2>3, <2>4 DEF Filled, Turn
<1>16. RingPointers'
  BY <1>3, <1>4 DEF InOrder, RingPointers
<1>17. \A m \in Lanes : Complete(m)'
  BY <1>3, <1>4 DEF InOrder, Complete, Owning, Turn
<1>18. QED
  BY <1>11, <1>14, <1>15, <1>16, <1>17 DEF InOrder

----------------------------------------------------------------------------
\* Lanes and printSummary.

LaneStep == \E l \in Lanes : Output(l) \/ FinishBatch(l)
QueueStep == StartOutput \/ FinishOutput \/ \E c \in Entries : DeleteBatch(c)
MainStep == FinishBatch(Main) \/ SummaryBatch \/ SummaryDone

\* The lanes are done before printSummary begins.
LEMMA WhoSteps ==
  ASSUME IInv, MainAlone, Step
  PROVE  \/ LaneStep /\ pc[Main] = "idle" /\ pc'[Main] = "idle" /\ batchIndex'[Main] = batchIndex[Main]
         \/ QueueStep /\ pc'[Main] = pc[Main] /\ UNCHANGED <<shared, locals, overrun>>
            /\ \A l \in Lanes : pc'[l] = pc[l] \/ (pc[l] = "wait" /\ pc'[l] = "idle")
         \/ StartSummary /\ pc[Main] = "idle" /\ pc'[Main] = "summary"
         \/ MainStep /\ pc[Main] \notin {"idle", "done"} /\ pc'[Main] \notin {"idle"}
            /\ \A l \in Lanes : pc[l] = "idle" /\ pc'[l] = "idle"
<1>1. /\ pc \in [Actors -> PC] /\ batchIndex \in [Actors -> 0..NLanes]
      /\ Main \in Actors /\ \A m \in Lanes : m \in Actors /\ m # Main
      /\ pc[Main] # "wait"
  BY DEF IInv, Types, Actors, Lanes, Main, Completing, Owning
<1>2. ASSUME NEW l \in Lanes, Output(l) \/ FinishBatch(l)
      PROVE  pc[Main] = "idle" /\ pc'[Main] = "idle" /\ batchIndex'[Main] = batchIndex[Main]
  <2>1. pc[l] # "idle" \/ presentEventEntry < NEvents
    BY <1>2 DEF Output, TakeEntry, EntryOfBatch, Load, Install, Reload, Fill, FillSlot, Count,
                FinishBatch, Exchange, ReadCount, ClearCount, PushBatch, Goto
  <2>2. pc[Main] = "idle"
    BY <2>1 DEF MainAlone, IInv, Types
  <2>3. pc'[Main] = pc[Main]
    BY <1>1, <1>2 DEF Output, TakeEntry, EntryOfBatch, Load, Install, Reload, Fill, FillSlot, Count,
                FinishBatch, Exchange, ReadCount, ClearCount, PushBatch, Goto
  <2>4. batchIndex'[Main] = batchIndex[Main]
    BY <1>1, <1>2 DEF Output, TakeEntry, EntryOfBatch, Load, Install, Reload, Fill, FillSlot, Count,
                FinishBatch, Exchange, ReadCount, ClearCount, PushBatch, Set, locals
  <2>5. QED
    BY <2>2, <2>3, <2>4
<1>3. ASSUME QueueStep
      PROVE  /\ pc'[Main] = pc[Main] /\ UNCHANGED <<shared, locals, overrun>>
             /\ \A l \in Lanes : pc'[l] = pc[l] \/ (pc[l] = "wait" /\ pc'[l] = "idle")
  <2>1. CASE StartOutput
    BY <2>1 DEF StartOutput
  <2>2. CASE FinishOutput
    BY <1>1, <2>2 DEF FinishOutput
  <2>3. ASSUME NEW c \in Entries, DeleteBatch(c) PROVE UNCHANGED <<shared, locals, overrun, pc>>
    BY <2>3 DEF DeleteBatch
  <2>4. QED
    BY <1>3, <2>1, <2>2, <2>3 DEF QueueStep
<1>4. ASSUME StartSummary PROVE pc[Main] = "idle" /\ pc'[Main] = "summary"
  BY <1>1, <1>4 DEF StartSummary, Goto
<1>5. ASSUME MainStep
      PROVE  /\ pc[Main] \notin {"idle", "done"} /\ pc'[Main] \notin {"idle"}
             /\ \A l \in Lanes : pc'[l] = pc[l]
  BY <1>1, <1>5 DEF MainStep, FinishBatch, Exchange, ReadCount, ClearCount, PushBatch, SummaryBatch,
                    SummaryDone, Goto
<1>6. pc[Main] # "idle" => \A l \in Lanes : pc[l] = "idle"
  BY DEF MainAlone
<1>7. LaneStep \/ QueueStep \/ StartSummary \/ MainStep
  BY DEF Step, LaneStep, QueueStep, MainStep, Actors
<1>8. QED
  BY <1>2, <1>3, <1>4, <1>5, <1>6, <1>7 DEF LaneStep

LEMMA MainAloneKeeps == ASSUME IInv, MainAlone, Step PROVE MainAlone'
<1>1. CASE LaneStep /\ pc[Main] = "idle" /\ pc'[Main] = "idle" /\ batchIndex'[Main] = batchIndex[Main]
  BY <1>1 DEF MainAlone
<1>2. CASE QueueStep /\ pc'[Main] = pc[Main] /\ UNCHANGED <<shared, locals, overrun>>
           /\ \A l \in Lanes : pc'[l] = pc[l] \/ (pc[l] = "wait" /\ pc'[l] = "idle")
  BY <1>2 DEF MainAlone, shared, locals
<1>3. CASE StartSummary
  <2>1. Main \notin Lanes /\ pc \in [Actors -> PC] /\ \A l \in Lanes : l \in Actors
    BY DEF Main, Lanes, Actors, IInv, Types
  <2>2. /\ presentEventEntry' = NEvents /\ \A l \in Lanes : pc'[l] = "idle"
    BY <1>3, <2>1 DEF StartSummary, Goto, shared
  <2>3. pc'[Main] # "idle"
    BY <1>3 DEF StartSummary, Goto, IInv, Types, Actors
  <2>4. QED
    BY <2>2, <2>3 DEF MainAlone
<1>4. CASE MainStep /\ pc[Main] \notin {"idle", "done"} /\ pc'[Main] \notin {"idle"}
            /\ \A l \in Lanes : pc[l] = "idle" /\ pc'[l] = "idle"
  <2>1. presentEventEntry' = presentEventEntry
    BY <1>4 DEF MainStep, FinishBatch, Exchange, ReadCount, ClearCount, PushBatch, SummaryBatch,
                SummaryDone, shared
  <2>2. QED
    BY <1>4, <2>1 DEF MainAlone
<1>5. QED
  BY <1>1, <1>2, <1>3, <1>4, WhoSteps

LEMMA OverrunStays == ASSUME Step, ~overrun', overrun \in BOOLEAN PROVE ~overrun
BY DEF Step, Output, TakeEntry, EntryOfBatch, Load, Install, Reload, Fill, FillSlot, Count,
       FinishBatch, Exchange, ReadCount, ClearCount, PushBatch, DeleteBatch, StartOutput,
       FinishOutput, StartSummary, SummaryBatch, SummaryDone

LEMMA OrderlyKeeps == ASSUME IInv, MainAlone, Orderly, ~crashed, Step PROVE Orderly'
<1> SUFFICES ASSUME pc'[Main] = "idle", ~overrun' PROVE InOrder'
  BY DEF Orderly
<1>1. ~overrun
  BY OverrunStays DEF IInv, Types
<1>2. CASE LaneStep /\ pc[Main] = "idle"
  <2>1. InOrder
    BY <1>1, <1>2 DEF Orderly
  <2>2. ASSUME NEW l \in Lanes, Output(l) PROVE InOrder'
    BY <2>1, <2>2, TakeEntryInOrder, LoadInOrder, InstallInOrder, FillInOrder, CountInOrder DEF Output
  <2>3. ASSUME NEW l \in Lanes, FinishBatch(l) PROVE InOrder'
    BY <2>1, <2>3, ExchangeInOrder, ReadCountInOrder, ClearCountInOrder, PushBatchInOrder
       DEF FinishBatch
  <2>4. QED
    BY <1>2, <2>2, <2>3 DEF LaneStep
<1>3. CASE QueueStep /\ pc'[Main] = pc[Main]
  BY <1>1, <1>3, OutputInOrder DEF Orderly, QueueStep
<1>4. QED
  BY <1>2, <1>3, WhoSteps

----------------------------------------------------------------------------
\* The counters, with overrun too.

LEMMA FitStays ==
  ASSUME CountsFit, UNCHANGED <<presentEventEntry, waitingEventsInBatch, eventsInBatch>>,
         \A l \in Lanes : /\ batchIndex'[l] = batchIndex[l]
                          /\ pc'[l] \in BeforeCount <=> pc[l] \in BeforeCount
  PROVE  CountsFit'
<1>1. \A b \in Ring : Inside(b)' = Inside(b)
  BY DEF Inside
<1>2. QED
  BY <1>1 DEF CountsFit

LEMMA LaneFits == ASSUME IInv, CountsFit, NEW l \in Lanes, Output(l) PROVE CountsFit'
<1>1. /\ pc \in [Actors -> PC] /\ batchIndex \in [Actors -> 0..NLanes]
      /\ waitingEventsInBatch \in [Ring -> Nat] /\ presentEventEntry \in Nat
      /\ l \in Actors /\ \A m \in Lanes : m \in Actors
  BY BatchAssumption DEF IInv, Types, Actors
<1>2. CASE TakeEntry(l)
  <2>1. PICK b : /\ pc[l] = "idle" /\ pc' = [pc EXCEPT ![l] = "load"]
                 /\ batchIndex' = [batchIndex EXCEPT ![l] = b]
                 /\ presentEventEntry' = presentEventEntry + 1
                 /\ UNCHANGED <<waitingEventsInBatch, eventsInBatch>>
    BY <1>2 DEF TakeEntry, EntryOfBatch, Goto, Set
  <2>2. \A d \in Ring : Inside(d)' = Inside(d) \/ Inside(d)' = Inside(d) \cup {l}
    BY <1>1, <2>1 DEF Inside, BeforeCount, Early
  <2>3. \A d \in Ring : l \in Lanes \ Inside(d)
    BY <2>1 DEF Inside, BeforeCount, Early
  <2>4. \A d \in Ring : /\ Cardinality(Inside(d)) \in Nat
                        /\ Cardinality(Inside(d) \cup {l}) = Cardinality(Inside(d)) + 1
    <3>1. ASSUME NEW d \in Ring
          PROVE  /\ Cardinality(Inside(d)) \in Nat
                 /\ Cardinality(Inside(d) \cup {l}) = Cardinality(Inside(d)) + 1
      <4>1. Inside(d) \in SUBSET Lanes
        BY DEF Inside
      <4>2. QED
        BY <2>3, <4>1, LaneSets
    <3>2. QED
      BY <3>1
  <2>5. ASSUME NEW d \in Ring
        PROVE  waitingEventsInBatch'[d] + Cardinality(Inside(d)') <= presentEventEntry + 1
    <3>1. waitingEventsInBatch[d] + Cardinality(Inside(d)) <= presentEventEntry
          /\ waitingEventsInBatch[d] \in Nat /\ Cardinality(Inside(d)) \in Nat
      BY <1>1, <2>4 DEF CountsFit
    <3>2. \/ Cardinality(Inside(d)') = Cardinality(Inside(d))
          \/ Cardinality(Inside(d)') = Cardinality(Inside(d)) + 1
      BY <2>2, <2>4
    <3>3. QED
      BY <1>1, <2>1, <3>1, <3>2
  <2>6. QED
    BY <2>1, <2>5 DEF CountsFit
<1>3. CASE Load(l) \/ Install(l) \/ Reload(l) \/ Fill(l)
  <2>1. /\ pc'[l] \in BeforeCount /\ pc[l] \in BeforeCount
        /\ \A m \in Lanes : m # l => pc'[m] = pc[m]
    BY <1>1, <1>3 DEF Load, Install, Reload, Fill, FillSlot, Goto, BeforeCount, Early
  <2>2. UNCHANGED <<presentEventEntry, waitingEventsInBatch, eventsInBatch, batchIndex>>
    BY <1>3 DEF Load, Install, Reload, Fill, FillSlot, shared, locals
  <2>3. QED
    BY <2>1, <2>2, FitStays
<1>4. CASE Count(l)
  <2>1. PICK b \in Ring, w \in Nat :
          /\ b = batchIndex[l] /\ w = waitingEventsInBatch[b] /\ pc[l] = "count"
          /\ \E q \in {"exchange", "idle"} : pc' = [pc EXCEPT ![l] = q]
          /\ waitingEventsInBatch' = [waitingEventsInBatch EXCEPT ![b] = w + 1]
          /\ UNCHANGED <<presentEventEntry, batchIndex, eventsInBatch>>
    <3>1. batchIndex[l] \in Ring
      BY DEF IInv, Types
    <3>2. waitingEventsInBatch[batchIndex[l]] \in Nat
      BY <1>1, <3>1
    <3>3. QED
      BY <1>4, <3>1, <3>2 DEF Count, Goto, Set, locals
  <2>2. Inside(b)' = Inside(b) \ {l} /\ \A d \in Ring : d # b => Inside(d)' = Inside(d)
    BY <1>1, <2>1 DEF Inside, BeforeCount, Early
  <2>3. l \in Inside(b) /\ Inside(b) \in SUBSET Lanes
    BY <2>1 DEF Inside, BeforeCount
  <2>4. Cardinality(Inside(b) \ {l}) = Cardinality(Inside(b)) - 1 /\ Cardinality(Inside(b)) \in Nat
    BY <2>3, LaneSets
  <2>5. waitingEventsInBatch'[b] = w + 1
        /\ \A d \in Ring : d # b => waitingEventsInBatch'[d] = waitingEventsInBatch[d]
    BY <1>1, <2>1
  <2>6. (w + 1) + Cardinality(Inside(b) \ {l}) <= presentEventEntry
    BY <1>1, <2>1, <2>4 DEF CountsFit
  <2>7. \A d \in Ring : waitingEventsInBatch'[d] + Cardinality(Inside(d)') <= presentEventEntry
    BY <2>2, <2>5, <2>6 DEF CountsFit
  <2>8. QED
    BY <2>1, <2>7 DEF CountsFit
<1>5. QED
  BY <1>2, <1>3, <1>4 DEF Output

LEMMA FinishFits == ASSUME IInv, CountsFit, NEW a \in Actors, FinishBatch(a) PROVE CountsFit'
<1>1. /\ pc \in [Actors -> PC] /\ batchIndex \in [Actors -> 0..NLanes]
      /\ waitingEventsInBatch \in [Ring -> Nat] /\ presentEventEntry \in Nat
      /\ presentEventEntry <= NEvents /\ NEvents \in Nat
      /\ eventsInBatch \in [Actors -> Nat] /\ \A m \in Lanes : m \in Actors /\ m # Main
  BY BatchAssumption DEF IInv, Types, Actors, Lanes, Main
<1>2. /\ presentEventEntry' = presentEventEntry
      /\ \A l \in Lanes : batchIndex'[l] = batchIndex[l]
                          /\ (pc'[l] \in BeforeCount <=> pc[l] \in BeforeCount)
  BY <1>1 DEF FinishBatch, Exchange, ReadCount, ClearCount, PushBatch, Goto, Set, shared, locals,
              BeforeCount, Early
<1>3. \A b \in Ring : Inside(b)' = Inside(b) /\ Inside(b) \in SUBSET Lanes
  BY <1>2 DEF Inside
<1>4. \A b \in Ring : Cardinality(Inside(b)) \in Nat
  BY <1>3, LaneSets
<1>5. CASE Exchange(a) \/ PushBatch(a)
  BY <1>2, <1>5, FitStays DEF Exchange, PushBatch, shared
<1>6. CASE ReadCount(a) \/ ClearCount(a)
  <2>1. batchIndex[a] \in Ring
    BY <1>6 DEF IInv, Types, ReadCount, ClearCount, Goto, Completing
  <2>2. waitingEventsInBatch[batchIndex[a]] <= NEvents
    BY <1>1, <1>4, <2>1 DEF CountsFit
  <2>3. \A d \in Actors : eventsInBatch'[d] <= NEvents
    BY <1>1, <1>6, <2>2 DEF ReadCount, ClearCount, Set, locals, CountsFit
  <2>4. \A b \in Ring : waitingEventsInBatch'[b] = waitingEventsInBatch[b] \/ waitingEventsInBatch'[b] = 0
    BY <1>1, <1>6, <2>1 DEF ReadCount, ClearCount, Set, shared
  <2>5. \A b \in Ring : waitingEventsInBatch'[b] + Cardinality(Inside(b)) <= presentEventEntry
    BY <1>1, <1>4, <2>4 DEF CountsFit
  <2>6. QED
    BY <1>2, <1>3, <2>3, <2>5 DEF CountsFit
<1>7. QED
  BY <1>5, <1>6 DEF FinishBatch

LEMMA CountsFitKeeps == ASSUME IInv, CountsFit, Step PROVE CountsFit'
<1>1. pc \in [Actors -> PC] /\ batchIndex \in [Actors -> 0..NLanes]
      /\ \A m \in Lanes : m \in Actors /\ m # Main
  BY DEF IInv, Types, Actors, Lanes, Main
<1>2. CASE QueueStep \/ StartSummary \/ SummaryBatch \/ SummaryDone
  <2>1. UNCHANGED <<presentEventEntry, waitingEventsInBatch, eventsInBatch>>
        /\ \A l \in Lanes : batchIndex'[l] = batchIndex[l]
    BY <1>1, <1>2 DEF QueueStep, StartOutput, FinishOutput, DeleteBatch, StartSummary, SummaryBatch,
                SummaryDone, shared, locals, Set
  <2>2. \A l \in Lanes : pc'[l] = pc[l] \/ (pc[l] = "wait" /\ pc'[l] = "idle")
    BY <1>1, <1>2 DEF QueueStep, StartOutput, FinishOutput, DeleteBatch, StartSummary, SummaryBatch,
                SummaryDone, Goto
  <2>3. QED
    BY <2>1, <2>2, FitStays DEF BeforeCount, Early
<1>3. QED
  BY <1>2, LaneFits, FinishFits DEF Step, QueueStep

----------------------------------------------------------------------------
\* What the lanes leave to printSummary: the batch that was begun, with the
\* last events, and nothing else.

LEMMA LeftByLanes ==
  ASSUME IInv, InOrder, \A l \in Lanes : pc[l] = "idle", NEW b \in Ring
  PROVE  /\ waitingEventsInBatch[b] = 0 \/ (Current(b) /\ waitingEventsInBatch[b] = Begun)
         /\ waitingEventsInBatch[b] = 0 <=> eventBatches[b] = Null
         /\ eventBatches[b] # Null => Partial(eventBatches[b])
<1>1. Inside(b) = {} /\ \A l \in Lanes : ~CompletesAt(l, b)
  BY DEF Inside, CompletesAt, BeforeCount, Early, Completing
<1>2. waitingEventsInBatch[b] # batchSize /\ waitingEventsInBatch[b] \in Nat
  BY <1>1 DEF InOrder, Counts, IInv, Types
<1>3. Size(b) = waitingEventsInBatch[b]
  <2>1. Cardinality({}) = 0
    BY LaneSets
  <2>2. QED
    BY <1>1, <1>2, <2>1 DEF Size
<1>4. CASE ~Current(b)
  <2>1. Clean(b)
    BY <1>2, <1>3, <1>4, InsideOrComplete DEF IInv, InOrder
  <2>2. QED
    BY <2>1 DEF Clean
<1>5. CASE Current(b)
  <2>1. waitingEventsInBatch[b] = Begun /\ Begun > 0 /\ Begun < batchSize /\ Begun \in Nat
    BY <1>3, <1>5, InsideOrComplete DEF IInv, InOrder, Current
  <2>2. PICK p \in Nat, t \in Nat : p = presentEventEntry /\ t = Cur /\ t = Turn(p) /\ Begun = p % batchSize
                                    /\ p <= NEvents
    <3>1. presentEventEntry \in Nat /\ presentEventEntry <= NEvents
      BY BatchAssumption DEF IInv, Types
    <3>2. Turn(presentEventEntry) \in Nat
      BY <3>1, TurnType
    <3>3. QED
      BY <3>1, <3>2 DEF Cur, Begun
  <2>3. \A e \in Entries : ~Held(e)
    BY DEF Held, Early
  <2>4. ASSUME NEW i \in 1..batchSize, i <= Begun
        PROVE  eventBatches[b] # Null /\ heap[eventBatches[b]][i] = t * batchSize + i - 1
    <3>1. PICK f \in Nat : /\ f = t * batchSize + i - 1 /\ Turn(f) = t /\ IndexInBatch(f) = i
                           /\ f < p
      BY <2>2, <2>4, SlotOfTurn, SlotBelow
    <3>2. f \in Entries
      BY <2>2, <3>1, BatchAssumption DEF Entries
    <3>3. eventBatches[b] # Null /\ InBatch(eventBatches[b], f)
      BY <1>5, <2>2, <2>3, <3>1, <3>2 DEF InOrder, Filled
    <3>4. QED
      BY <3>1, <3>3 DEF InBatch
  <2>5. eventBatches[b] # Null
    <3>1. 1 \in 1..batchSize /\ 1 <= Begun
      BY <2>1, BatchAssumption
    <3>2. QED
      BY <2>4, <3>1
  <2>6. ASSUME NEW i \in 1..batchSize, ~(i <= Begun)
        PROVE  heap[eventBatches[b]][i] = Null
    <3>1. SUFFICES ASSUME heap[eventBatches[b]][i] # Null PROVE FALSE
      OBVIOUS
    <3>2. eventBatches[b] \in DOMAIN heap
      BY <2>5 DEF IInv, OnePlacePerBatch, Unpushed
    <3>3. PICK f \in Contents : f = heap[eventBatches[b]][i]
      BY <3>2, ContentsOfSlots DEF IInv
    <3>4. f \in Entries /\ f < p /\ IndexInBatch(f) = i
      BY <2>2, <3>1, <3>2, <3>3 DEF IInv, SlotsAreIndices, InSlot, Contents
    <3>5. Turn(f) = t
      <4>1. IsAt(f, b)
        BY <2>5, <3>3, <3>4 DEF IsAt, InBatch
      <4>2. QED
        BY <1>5, <2>2, <3>4, <4>1 DEF InOrder, Turns
    <3>6. PICK g \in Nat : g = t * batchSize + i - 1 /\ Turn(g) = t /\ IndexInBatch(g) = i /\ ~(g < p)
      BY <2>2, <2>6, SlotOfTurn, SlotBelow
    <3>7. f = g
      BY <3>4, <3>5, <3>6, SameSlot DEF Entries
    <3>8. QED
      BY <3>4, <3>6, <3>7
  <2>7. Partial(eventBatches[b])
    BY <2>2, <2>4, <2>6 DEF Partial
  <2>8. QED
    BY <1>5, <2>1, <2>5, <2>7
<1>6. QED
  BY <1>4, <1>5

LEMMA SummaryBegins ==
  ASSUME IInv, Orderly, MainAlone, StartSummary, ~overrun'
  PROVE  Summary'
<1>1. /\ pc[Main] = "idle" /\ pc'[Main] = "summary" /\ batchIndex'[Main] = 0 /\ ~overrun
      /\ \A l \in Lanes : pc[l] = "idle"
      /\ UNCHANGED <<presentEventEntry, eventBatches, waitingEventsInBatch, heap>>
  BY DEF StartSummary, Goto, MainAlone, shared, locals, IInv, Types, Actors
<1>2. InOrder
  BY <1>1 DEF Orderly
<1>3. \A b \in Ring : ~(b < 0)
  BY DEF Ring
<1>4. \A b \in Ring : LeftOver(b)'
  <2>1. ASSUME NEW b \in Ring PROVE LeftOver(b)'
    <3>1. (Current(b)' <=> Current(b)) /\ Begun' = Begun
      BY <1>1 DEF Current, Cur, Begun, Turn
    <3>2. eventBatches[b] # Null => (Partial(eventBatches[b])' <=> Partial(eventBatches[b]))
      BY <1>1, <3>1 DEF Partial, Cur, Turn
    <3>3. QED
      BY <1>1, <1>2, <1>3, <3>1, <3>2, LeftByLanes DEF LeftOver
  <2>2. QED
    BY <2>1
<1>5. MainOwns'
  BY <1>1 DEF MainOwns, Completing, Owning
<1>6. QED
  BY <1>4, <1>5 DEF Summary

\* What stays of the batches while printSummary goes on.
LEMMA LeftOverStays ==
  ASSUME NEW b \in Ring, LeftOver(b),
         UNCHANGED presentEventEntry, waitingEventsInBatch'[b] = waitingEventsInBatch[b],
         eventBatches'[b] = eventBatches[b],
         eventBatches[b] # Null => heap'[eventBatches[b]] = heap[eventBatches[b]],
         b < batchIndex'[Main] => b < batchIndex[Main] \/ waitingEventsInBatch[b] = 0,
         CompletesAt(Main, b) => CompletesAt(Main, b)'
  PROVE  LeftOver(b)'
<1>1. (Current(b)' <=> Current(b)) /\ Begun' = Begun /\ Cur' = Cur
  BY DEF Current, Cur, Begun, Turn
<1>2. eventBatches[b] # Null => (Partial(eventBatches[b])' <=> Partial(eventBatches[b]))
  BY <1>1 DEF Partial
<1>3. QED
  BY <1>1, <1>2 DEF LeftOver

LEMMA SummaryGoesOn ==
  ASSUME IInv, MainOwns, \A b \in Ring : LeftOver(b), ~crashed, pc[Main] # "idle", MainStep
  PROVE  MainOwns' /\ \A b \in Ring : LeftOver(b)'
<1>1. /\ Main \in Actors /\ pc \in [Actors -> PC] /\ batchIndex \in [Actors -> 0..NLanes]
      /\ batch \in [Actors -> Contents] /\ eventsInBatch \in [Actors -> Nat]
      /\ waitingEventsInBatch \in [Ring -> Nat] /\ eventBatches \in [Ring -> Contents]
      /\ Begun \in Nat
  <2>1. presentEventEntry \in Nat
    BY BatchAssumption DEF IInv, Types
  <2>2. Begun \in Nat
    BY <2>1, TurnType DEF Begun
  <2>3. QED
    BY <2>2 DEF IInv, Types, Actors
<1>2. UNCHANGED <<presentEventEntry, heap>>
  BY DEF MainStep, FinishBatch, Exchange, ReadCount, ClearCount, PushBatch, SummaryBatch, SummaryDone,
         shared
<1>3. (\A b : Current(b)' <=> Current(b)) /\ Begun' = Begun /\ Cur' = Cur
  BY <1>2 DEF Current, Cur, Begun, Turn
<1>4. PICK m \in 0..NLanes : m = batchIndex[Main]
  BY <1>1
<1>5. \A b \in Ring : b \in Int /\ m \in Int
  BY BatchAssumption DEF Ring
<1>6. pc[Main] \in Completing \cup Owning => m \in Ring
  BY <1>1, <1>4 DEF IInv, Types
<1>7. CASE Exchange(Main)
  <2>1. PICK c \in Contents :
          /\ c = eventBatches[m] /\ m \in Ring /\ pc[Main] = "exchange" /\ pc'[Main] = "readCount"
          /\ batch'[Main] = c /\ eventBatches' = [eventBatches EXCEPT ![m] = Null]
          /\ UNCHANGED <<waitingEventsInBatch, batchIndex>>
    BY <1>1, <1>4, <1>6, <1>7 DEF Exchange, Goto, Set, At, Completing
  <2>2. c # Null /\ waitingEventsInBatch[m] # 0
    BY <1>4, <2>1 DEF MainOwns, At, Completing
  <2>3. Current(m) /\ Begun > 0 /\ Partial(c)
    BY <2>1, <2>2 DEF LeftOver, Current
  <2>4. Partial(c)'
    BY <1>2, <1>3, <2>3 DEF Partial
  <2>5. MainOwns'
    <3>1. At(Main)' = Null
      BY <1>1, <1>4, <2>1 DEF At
    <3>2. Partial(batch[Main])'
      BY <2>1, <2>4 DEF Partial
    <3>3. QED
      BY <1>3, <1>4, <2>1, <2>2, <2>3, <3>1, <3>2 DEF MainOwns, Completing, Owning
  <2>6. \A b \in Ring : b # m => LeftOver(b)'
    <3>1. ASSUME NEW b \in Ring, b # m PROVE LeftOver(b)'
      <4>1. eventBatches'[b] = eventBatches[b]
        BY <1>1, <2>1, <3>1
      <4>2. CompletesAt(Main, b) => CompletesAt(Main, b)'
        BY <1>4, <3>1 DEF CompletesAt
      <4>3. QED
        BY <1>2, <2>1, <4>1, <4>2, LeftOverStays
    <3>2. QED
      BY <3>1
  <2>7. LeftOver(m)'
    <3>1. eventBatches'[m] = Null /\ CompletesAt(Main, m)'
      BY <1>1, <1>4, <2>1 DEF CompletesAt, Completing
    <3>2. LeftOver(m)
      BY <2>1
    <3>3. QED
      BY <1>3, <2>1, <2>2, <3>1, <3>2 DEF LeftOver
  <2>8. QED
    BY <2>5, <2>6, <2>7
<1>8. CASE ReadCount(Main)
  <2>1. /\ m \in Ring /\ pc[Main] = "readCount" /\ pc'[Main] = "clearCount"
        /\ eventsInBatch'[Main] = waitingEventsInBatch[m]
        /\ UNCHANGED <<eventBatches, waitingEventsInBatch, batchIndex, batch>>
    BY <1>1, <1>4, <1>6, <1>8 DEF ReadCount, Goto, Set, shared, Completing
  <2>2. waitingEventsInBatch[m] = Begun /\ waitingEventsInBatch[m] # 0
    BY <1>4, <2>1 DEF MainOwns, LeftOver, Completing
  <2>3. Partial(batch[Main]) => Partial(batch[Main])'
    BY <1>2, <1>3, <2>1 DEF Partial
  <2>4. MainOwns'
    BY <1>3, <1>4, <2>1, <2>2, <2>3 DEF MainOwns, Completing, Owning, At
  <2>5. \A b \in Ring : CompletesAt(Main, b) => CompletesAt(Main, b)'
    BY <2>1 DEF CompletesAt, Completing
  <2>6. QED
    BY <1>2, <2>1, <2>4, <2>5, LeftOverStays
<1>9. CASE ClearCount(Main)
  <2>1. /\ m \in Ring /\ pc[Main] = "clearCount" /\ pc'[Main] = "push"
        /\ waitingEventsInBatch' = [waitingEventsInBatch EXCEPT ![m] = 0]
        /\ UNCHANGED <<eventBatches, eventsInBatch, batchIndex, batch>>
    BY <1>1, <1>4, <1>6, <1>9 DEF ClearCount, Goto, Set, locals, Completing
  <2>2. Partial(batch[Main]) => Partial(batch[Main])'
    BY <1>2, <1>3, <2>1 DEF Partial
  <2>3. MainOwns'
    BY <1>1, <1>3, <1>4, <2>1, <2>2 DEF MainOwns, Completing, Owning
  <2>4. \A b \in Ring : b # m => LeftOver(b)'
    <3>1. ASSUME NEW b \in Ring, b # m PROVE LeftOver(b)'
      <4>1. waitingEventsInBatch'[b] = waitingEventsInBatch[b]
        BY <1>1, <2>1, <3>1
      <4>2. CompletesAt(Main, b) => CompletesAt(Main, b)'
        BY <1>4, <3>1 DEF CompletesAt
      <4>3. QED
        BY <1>2, <2>1, <4>1, <4>2, LeftOverStays
    <3>2. QED
      BY <3>1
  <2>5. LeftOver(m)'
    <3>1. eventBatches'[m] = Null /\ waitingEventsInBatch'[m] = 0
      BY <1>1, <1>4, <2>1 DEF MainOwns, At, Owning
    <3>2. QED
      BY <3>1 DEF LeftOver
  <2>6. QED
    BY <2>3, <2>4, <2>5
<1>10. CASE PushBatch(Main)
  <2>1. /\ m \in Ring /\ pc[Main] = "push" /\ pc'[Main] = "summary" /\ batchIndex'[Main] = m + 1
        /\ UNCHANGED <<eventBatches, waitingEventsInBatch>>
    BY <1>1, <1>4, <1>6, <1>10 DEF PushBatch, Goto, Set, shared, Owning
  <2>2. waitingEventsInBatch[m] = 0
    BY <1>4, <2>1 DEF MainOwns
  <2>3. MainOwns'
    BY <2>1 DEF MainOwns, Completing, Owning
  <2>4. ASSUME NEW b \in Ring, b < m + 1 PROVE b < m \/ waitingEventsInBatch[b] = 0
    <3>1. b < m \/ b = m
      BY <1>5, <2>1, <2>4 DEF Ring
    <3>2. QED
      BY <2>2, <3>1
  <2>5. \A b \in Ring : ~CompletesAt(Main, b)
    BY <2>1 DEF CompletesAt, Completing
  <2>6. QED
    BY <1>2, <1>4, <2>1, <2>3, <2>4, <2>5, LeftOverStays
<1>11. CASE SummaryBatch \/ SummaryDone
  <2>1. /\ pc[Main] = "summary" /\ pc'[Main] \in {"summary", "exchange", "done"}
        /\ UNCHANGED <<eventBatches, waitingEventsInBatch>>
        /\ pc'[Main] = "exchange" => m \in Ring /\ waitingEventsInBatch[m] # 0
        /\ \/ batchIndex' = batchIndex
           \/ m \in Ring /\ batchIndex'[Main] = m + 1 /\ waitingEventsInBatch[m] = 0
              /\ pc'[Main] = "summary"
    BY <1>1, <1>4, <1>11 DEF SummaryBatch, SummaryDone, Goto, Set, shared, locals
  <2>2. \A b \in Ring : ~CompletesAt(Main, b)
    BY <2>1 DEF CompletesAt, Completing
  <2>3. pc'[Main] = "exchange" => eventBatches[m] # Null
    BY <2>1, <2>2 DEF LeftOver
  <2>4. MainOwns'
    BY <1>4, <2>1, <2>3 DEF MainOwns, Completing, Owning, At
  <2>5. \A b \in Ring : b < batchIndex'[Main] => b < m \/ waitingEventsInBatch[b] = 0
    BY <1>4, <1>5, <2>1
  <2>6. QED
    BY <1>2, <1>4, <2>1, <2>2, <2>4, <2>5, LeftOverStays
<1>12. QED
  BY <1>7, <1>8, <1>9, <1>10, <1>11 DEF MainStep, FinishBatch

\* The queue does not touch the batch that is being written out.
LEMMA SummaryWaits ==
  ASSUME IInv, MainOwns, \A b \in Ring : LeftOver(b), ~crashed, QueueStep, pc'[Main] = pc[Main],
         UNCHANGED <<shared, locals>>
  PROVE  MainOwns' /\ \A b \in Ring : LeftOver(b)'
<1>1. \A c \in Unpushed : heap'[c] = heap[c]
  <2>1. ASSUME NEW c \in Entries, DeleteBatch(c) PROVE \A d \in Unpushed : heap'[d] = heap[d]
    BY <2>1 DEF DeleteBatch, Unpushed, Restrict
  <2>2. QED
    BY <2>1 DEF QueueStep, StartOutput, FinishOutput
<1>2. (\A b : Current(b)' <=> Current(b)) /\ Begun' = Begun /\ Cur' = Cur
  BY DEF Current, Cur, Begun, Turn, shared
<1>3. MainOwns'
  <2>1. pc[Main] \in Owning => batch[Main] \in Unpushed
    BY OwnedBatches DEF Actors
  <2>2. pc[Main] \in Owning => (Partial(batch[Main]) => Partial(batch[Main])')
    BY <1>1, <1>2, <2>1 DEF Partial, locals
  <2>3. QED
    BY <1>2, <2>2 DEF MainOwns, shared, locals, At
<1>4. \A b \in Ring : LeftOver(b)'
  <2>1. \A b \in Ring : eventBatches[b] # Null => heap'[eventBatches[b]] = heap[eventBatches[b]]
    BY <1>1 DEF IInv, OnePlacePerBatch
  <2>2. \A b \in Ring : CompletesAt(Main, b) => CompletesAt(Main, b)'
    BY DEF CompletesAt, locals
  <2>3. QED
    BY <2>1, <2>2, LeftOverStays DEF shared, locals
<1>5. QED
  BY <1>3, <1>4

LEMMA SummaryInvKeeps ==
  ASSUME IInv, MainAlone, Orderly, Summary, ~crashed, Step
  PROVE  Summary'
<1> SUFFICES ASSUME pc'[Main] # "idle", ~overrun'
             PROVE  MainOwns' /\ \A b \in Ring : LeftOver(b)'
  BY DEF Summary
<1>1. ~overrun
  BY OverrunStays DEF IInv, Types
<1>2. CASE QueueStep /\ pc'[Main] = pc[Main] /\ UNCHANGED <<shared, locals, overrun>>
  BY <1>1, <1>2, SummaryWaits DEF Summary
<1>3. CASE StartSummary
  BY <1>3, SummaryBegins DEF Summary
<1>4. CASE MainStep /\ pc[Main] \notin {"idle", "done"}
  BY <1>1, <1>4, SummaryGoesOn DEF Summary
<1>5. QED
  BY <1>2, <1>3, <1>4, WhoSteps

----------------------------------------------------------------------------
\* What is pushed, and what becomes of every event.

\* The first n slots of the batch that is pushed hold consecutive events from the
\* beginning of a turn, and no other slot holds one.
LEMMA PushedRun ==
  ASSUME IInv, MainAlone, Orderly, Summary, ~crashed, ~overrun, NEW a \in Actors, PushBatch(a)
  PROVE  \E events \in Seq(Contents) :
           /\ queued' = Append(queued, [events |-> events, callback |-> a]) /\ Run(events)
           /\ expired' = expired \cup {batch[a]} /\ UNCHANGED <<shared, heap, writing, tree, event>>
           /\ \A e \in Entries : InBatch(batch[a], e) => Has(events, e)
<1>1. pc[a] = "push" /\ a \in Lanes \cup {Main} /\ (a \in Lanes => pc[Main] = "idle" /\ a # Main)
  <2>1. pc[a] = "push"
    BY DEF PushBatch, Goto
  <2>2. QED
    BY <2>1 DEF Actors, Lanes, Main, MainAlone
<1>2. PICK c \in Entries : /\ c = batch[a] /\ c \in Unpushed /\ c \in DOMAIN heap
                           /\ heap[c] \in [1..batchSize -> Contents]
  BY <1>1, OwnedBatches DEF Owning, IInv, Types
<1>3. PICK n \in 1..batchSize, t \in Nat :
        /\ n = (IF eventsInBatch[a] < batchSize THEN eventsInBatch[a] ELSE batchSize)
        /\ \A i \in 1..n : heap[c][i] = t * batchSize + i - 1
        /\ \A i \in (n + 1)..batchSize : heap[c][i] = Null
        /\ n # batchSize => t * batchSize + n - 1 = NEvents - 1
  <2>1. CASE a \in Lanes
    <3>1. Complete(a)
      BY <1>1, <2>1 DEF Orderly, InOrder
    <3>2. eventsInBatch[a] = batchSize
          /\ \A i \in 1..batchSize : heap[c][i] = Turn(event[a]) * batchSize + i - 1
      BY <1>1, <1>2, <3>1 DEF Complete, Owning
    <3>3. Turn(event[a]) \in Nat
      <4>1. event[a] \in Nat
        BY <1>1, <2>1 DEF IInv, LaneEvents, Types, Contents, Entries
      <4>2. QED
        BY <4>1, TurnType
    <3>4. batchSize \in 1..batchSize
      BY BatchAssumption
    <3>5. \A i \in (batchSize + 1)..batchSize : FALSE
      BY BatchAssumption
    <3>6. QED
      BY <3>2, <3>3, <3>4, <3>5
  <2>2. CASE a = Main
    <3>1. Begun > 0 /\ Partial(c) /\ eventsInBatch[a] = Begun /\ presentEventEntry = NEvents
      BY <1>1, <1>2, <2>2 DEF Summary, MainOwns, Owning, MainAlone
    <3>2. NEvents \in Nat /\ Cur \in Nat /\ Begun \in Nat /\ Begun < batchSize
      <4>1. NEvents \in Nat
        BY BatchAssumption
      <4>2. QED
        BY <3>1, <4>1, TurnType DEF Cur, Begun
    <3>3. Begun \in 1..batchSize /\ Begun < batchSize
      BY <3>1, <3>2, BatchAssumption
    <3>4. \A i \in 1..Begun : heap[c][i] = Cur * batchSize + i - 1
      BY <3>1, <3>3, BatchAssumption DEF Partial
    <3>5. \A i \in (Begun + 1)..batchSize : heap[c][i] = Null
      BY <3>1, <3>2, BatchAssumption DEF Partial
    <3>6. Cur * batchSize + Begun - 1 = NEvents - 1
      BY <3>1, BatchAssumption DEF Cur, Begun, Turn
    <3>7. QED
      BY <3>1, <3>2, <3>3, <3>4, <3>5, <3>6
  <2>3. QED
    BY <1>1, <2>1, <2>2
<1>4. PICK events : events = SubSeq(heap[c], 1, n)
  OBVIOUS
<1>5. events = [i \in 1..n |-> heap[c][i]]
  BY <1>2, <1>3, <1>4
<1>6. /\ events \in Seq(Contents) /\ DOMAIN events = 1..n /\ Len(events) = n
      /\ \A i \in 1..n : events[i] = heap[c][i]
  <2>1. \A i \in 1..n : heap[c][i] \in Contents
    <3>1. \A i \in 1..n : i \in 1..batchSize
      BY BatchAssumption
    <3>2. QED
      BY <1>2, <3>1
  <2>2. QED
    BY <1>5, <2>1
<1>7. /\ queued' = Append(queued, [events |-> events, callback |-> a])
      /\ expired' = expired \cup {batch[a]} /\ UNCHANGED <<shared, heap, writing, tree, event>>
  BY <1>2, <1>3, <1>4 DEF PushBatch, Queue!Submit
<1>8. Run(events)
  <2>1. PICK f \in Nat : f = t * batchSize + 1 - 1 /\ IndexInBatch(f) = 1
    <3>1. 1 \in 1..batchSize
      BY BatchAssumption
    <3>2. QED
      BY <3>1, SlotOfTurn
  <2>2. (f % batchSize) = 0
    BY <2>1, TurnType DEF IndexInBatch
  <2>3. events[1] = f /\ events # <<>>
    BY <1>3, <1>6, <2>1
  <2>4. PICK p \in Int : p = t * batchSize
    BY BatchAssumption
  <2>5. \A j \in 1..n : events[j] = p + j - 1
    BY <1>3, <1>6, <2>4
  <2>6. \A j \in 1..n : events[j] = f + j - 1
    BY <2>1, <2>4, <2>5
  <2>7. n # batchSize => events[n] = NEvents - 1
    BY <1>3, <1>6
  <2>8. QED
    BY <1>6, <2>2, <2>3, <2>6, <2>7 DEF Run
<1>9. ASSUME NEW e \in Entries, InBatch(batch[a], e) PROVE Has(events, e)
  <2>1. IndexInBatch(e) \in 1..batchSize /\ e # Null
    BY BatchAssumption DEF Entries, IndexInBatch, Null
  <2>2. heap[c][IndexInBatch(e)] = e
    BY <1>2, <1>9 DEF InBatch
  <2>3. IndexInBatch(e) \notin (n + 1)..batchSize
    BY <1>3, <2>1, <2>2
  <2>4. IndexInBatch(e) \in 1..n
    BY <1>3, <2>1, <2>3
  <2>5. QED
    BY <1>6, <2>2, <2>4 DEF Has
<1>10. QED
  BY <1>6, <1>7, <1>8, <1>9

LEMMA OnlyRunsKeeps ==
  ASSUME IInv, MainAlone, Orderly, Summary, OnlyRuns, ~crashed, Step, ~overrun'
  PROVE  OnlyRuns'
<1>1. ~overrun
  BY OverrunStays DEF IInv, Types
<1>2. \A s : Run(s)' <=> Run(s)
  BY DEF Run
<1>3. CASE UNCHANGED <<queued, writing, tree>>
  BY <1>1, <1>3 DEF OnlyRuns, Run
<1>4. ASSUME NEW a \in Actors, PushBatch(a) PROVE OnlyRuns'
  <2>1. PICK events \in Seq(Contents) :
           /\ queued' = Append(queued, [events |-> events, callback |-> a]) /\ Run(events)
           /\ UNCHANGED <<writing, tree>>
    BY <1>1, <1>4, PushedRun
  <2>2. /\ DOMAIN queued' = DOMAIN queued \cup {Len(queued) + 1}
        /\ queued'[Len(queued) + 1] = [events |-> events, callback |-> a]
        /\ \A k \in DOMAIN queued : queued'[k] = queued[k]
    BY <2>1, AppendedElements DEF IInv, Types
  <2>3. \A k \in DOMAIN queued' : Run(queued'[k].events)
    BY <1>1, <2>1, <2>2 DEF OnlyRuns
  <2>4. QED
    BY <1>1, <2>1, <2>3 DEF OnlyRuns, Run
<1>5. CASE StartOutput
  <2>1. queued # <<>> /\ queued' = Tail(queued) /\ writing' = {Head(queued)} /\ tree' = tree
    BY <1>5 DEF StartOutput, Queue!Begin
  <2>2. /\ 1 \in DOMAIN queued /\ writing' = {queued[1]}
        /\ \A k \in DOMAIN queued' : k + 1 \in DOMAIN queued /\ queued'[k] = queued[k + 1]
    BY <2>1, TailElements DEF IInv, Types
  <2>3. \A k \in DOMAIN queued' : Run(queued'[k].events)
    BY <1>1, <2>2 DEF OnlyRuns
  <2>4. \A t \in writing' : Run(t.events)
    BY <1>1, <2>2 DEF OnlyRuns
  <2>5. QED
    BY <1>1, <2>1, <2>3, <2>4 DEF OnlyRuns, Run
<1>6. CASE FinishOutput
  <2>1. PICK t \in writing : tree' = Append(tree, t.events)
    BY <1>6 DEF FinishOutput
  <2>2. writing' = {} /\ queued' = queued
    BY <1>6 DEF FinishOutput, Queue!Complete
  <2>3. /\ DOMAIN tree' = DOMAIN tree \cup {Len(tree) + 1} /\ tree'[Len(tree) + 1] = t.events
        /\ \A k \in DOMAIN tree : tree'[k] = tree[k]
    BY <2>1, AppendedElements DEF IInv, Types
  <2>4. \A k \in DOMAIN tree' : Run(tree'[k])
    BY <1>1, <2>3 DEF OnlyRuns
  <2>5. QED
    BY <1>1, <2>2, <2>4 DEF OnlyRuns, Run
<1>7. UNCHANGED <<queued, writing, tree>> \/ (\E a \in Actors : PushBatch(a)) \/ StartOutput \/ FinishOutput
  BY DEF Step, Output, TakeEntry, EntryOfBatch, Load, Install, Reload, Fill, FillSlot, Count,
       FinishBatch, Exchange, ReadCount, ClearCount, DeleteBatch, StartSummary, SummaryBatch,
       SummaryDone, queue
<1>8. QED
  BY <1>3, <1>4, <1>5, <1>6, <1>7

\* The events of a step that neither takes an entry nor moves a batch.
LEMMA WhereTheyWere ==
  ASSUME NEW e \in Entries, Somewhere(e), UNCHANGED <<heap, expired, queue, tree, event>>,
         \A l \in Lanes : pc[l] \in Early => pc'[l] \in Early
  PROVE  Somewhere(e)'
<1>1. Held(e) => Held(e)'
  BY DEF Held
<1>2. /\ InHeap(e)' = InHeap(e) /\ InQueue(e)' = InQueue(e)
      /\ InWriting(e)' = InWriting(e) /\ InTree(e)' = InTree(e)
  BY DEF InHeap, InBatch, Unpushed, InQueue, InWriting, InTree, Has, queue
<1>3. QED
  BY <1>1, <1>2 DEF Somewhere

LEMMA LaneLosesNothing ==
  ASSUME IInv, InOrder, ~crashed, ~overrun, NothingLost, NEW l \in Lanes, Output(l)
  PROVE  \A e \in Entries : e < presentEventEntry' => Somewhere(e)'
<1>1. /\ pc \in [Actors -> PC] /\ event \in [Actors -> Contents] /\ presentEventEntry \in Nat
      /\ l \in Actors /\ \A m \in Lanes : m \in Actors
  BY BatchAssumption DEF IInv, Types, Actors
<1>2. \A e \in Entries : e < presentEventEntry => Somewhere(e)
  BY DEF NothingLost
<1>3. \A e \in Entries : IndexInBatch(e) \in 1..batchSize /\ e # Null
  BY BatchAssumption DEF Entries, IndexInBatch, Null
<1>4. CASE TakeEntry(l)
  <2>1. /\ presentEventEntry' = presentEventEntry + 1 /\ pc[l] = "idle"
        /\ pc'[l] = "load" /\ event'[l] = presentEventEntry
        /\ \A m \in Lanes : m # l => pc'[m] = pc[m] /\ event'[m] = event[m]
        /\ UNCHANGED <<heap, expired, queue, tree>>
    BY <1>1, <1>4 DEF TakeEntry, EntryOfBatch, Goto, Set
  <2>2. \A e \in Entries : e < presentEventEntry + 1 => e < presentEventEntry \/ e = presentEventEntry
    BY <1>1 DEF Entries
  <2>3. \A e \in Entries : Held(e) \/ e = presentEventEntry => Held(e)'
    BY <2>1 DEF Held, Early
  <2>4. \A e \in Entries : /\ InHeap(e)' = InHeap(e) /\ InQueue(e)' = InQueue(e)
                           /\ InWriting(e)' = InWriting(e) /\ InTree(e)' = InTree(e)
    BY <2>1 DEF InHeap, InBatch, Unpushed, InQueue, InWriting, InTree, Has, queue
  <2>5. QED
    BY <1>2, <2>1, <2>2, <2>3, <2>4 DEF Somewhere
<1>5. CASE Load(l) \/ Reload(l) \/ Count(l)
  <2>1. \A m \in Lanes : pc[m] \in Early => pc'[m] \in Early
    BY <1>1, <1>5 DEF Load, Reload, Count, Goto, Early
  <2>2. UNCHANGED <<heap, expired, queue, tree, event, presentEventEntry>>
    BY <1>5 DEF Load, Reload, Count, shared, locals
  <2>3. QED
    BY <1>2, <2>1, <2>2, WhereTheyWere
<1>6. CASE Install(l)
  <2>1. \A m \in Lanes : pc[m] \in Early => pc'[m] \in Early
    BY <1>1, <1>6 DEF Install, Goto, Early
  <2>2. UNCHANGED <<expired, queue, tree, event, presentEventEntry>>
    BY <1>6 DEF Install
  <2>3. \A c \in DOMAIN heap : c \in DOMAIN heap' /\ heap'[c] = heap[c]
    <3>1. event[l] \in DOMAIN heap => FALSE
      <4>1. pc[l] = "cas"
        BY <1>6 DEF Install, Goto
      <4>2. event[l] \in DOMAIN heap => event[l] \in Entries /\ Known(event[l])
        BY DEF Known, IInv, Types
      <4>3. QED
        BY <4>1, <4>2 DEF IInv, AllocatedOnce
    <3>2. QED
      BY <1>6, <3>1 DEF Install
  <2>4. \A e \in Entries : Held(e) => Held(e)'
    BY <2>1, <2>2 DEF Held
  <2>5. \A e \in Entries : InHeap(e) => InHeap(e)'
    BY <2>2, <2>3 DEF InHeap, InBatch, Unpushed
  <2>6. \A e \in Entries : /\ InQueue(e)' = InQueue(e)
                           /\ InWriting(e)' = InWriting(e) /\ InTree(e)' = InTree(e)
    BY <2>2 DEF InQueue, InWriting, InTree, Has, queue
  <2>7. QED
    BY <1>2, <2>2, <2>4, <2>5, <2>6 DEF Somewhere
<1>7. CASE Fill(l)
  <2>1. PICK c, f, i : c = batch[l] /\ f = event[l] /\ i = IndexInBatch(f)
    OBVIOUS
  <2>2. /\ pc[l] = "fill" /\ pc'[l] = "count" /\ \A m \in Lanes : m # l => pc'[m] = pc[m]
        /\ UNCHANGED <<expired, queue, tree, event, presentEventEntry>>
    BY <1>1, <1>7 DEF Fill, FillSlot, Goto, shared, locals
  <2>3. c \in Unpushed /\ c \in DOMAIN heap /\ heap[c][i] = Null
    BY <2>1, <2>2, SlotIsFree
  <2>4. f \in Entries /\ i \in 1..batchSize /\ heap[c] \in [1..batchSize -> Contents]
    <3>1. f \in Entries
      BY <1>1, <2>1, <2>2 DEF IInv, LaneEvents, Contents
    <3>2. QED
      BY <1>3, <2>1, <2>3, <3>1 DEF IInv, Types
  <2>5. heap' = [heap EXCEPT ![c][i] = f]
    BY <1>7, <2>1, <2>3 DEF Fill, FillSlot
  <2>6. /\ DOMAIN heap' = DOMAIN heap /\ heap'[c][i] = f
        /\ \A d \in DOMAIN heap : \A k \in 1..batchSize : heap'[d][k] = heap[d][k] \/ heap[d][k] = Null
    BY <2>3, <2>4, <2>5
  <2>7. \A e \in Entries : InHeap(e) => InHeap(e)'
    BY <1>3, <2>2, <2>6 DEF InHeap, InBatch, Unpushed
  <2>8. InHeap(f)'
    BY <2>1, <2>2, <2>3, <2>6 DEF InHeap, InBatch, Unpushed
  <2>9. \A e \in Entries : Held(e) => Held(e)' \/ e = f
    BY <2>1, <2>2 DEF Held
  <2>10. \A e \in Entries : /\ InQueue(e)' = InQueue(e)
                            /\ InWriting(e)' = InWriting(e) /\ InTree(e)' = InTree(e)
    BY <2>2 DEF InQueue, InWriting, InTree, Has, queue
  <2>11. QED
    BY <1>2, <2>2, <2>7, <2>8, <2>9, <2>10 DEF Somewhere
<1>8. QED
  BY <1>4, <1>5, <1>6, <1>7 DEF Output

LEMMA QueueLosesNothing ==
  ASSUME IInv, NEW e \in Entries, Somewhere(e), QueueStep
  PROVE  Somewhere(e)'
<1>1. pc \in [Actors -> PC] /\ \A m \in Lanes : m \in Actors
  BY DEF IInv, Types, Actors
<1>2. CASE StartOutput
  <2>1. /\ queued # <<>> /\ queued' = Tail(queued) /\ writing' = {Head(queued)} /\ writing = {}
        /\ UNCHANGED <<heap, expired, tree, pc, event>>
    BY <1>2 DEF StartOutput, Queue!Begin, locals
  <2>2. Head(queued) = queued[1] /\ Len(queued) \in Nat
        /\ \A k \in DOMAIN queued : k \in Nat /\ (k = 1 \/ (k - 1 \in DOMAIN queued' /\ queued'[k - 1] = queued[k]))
    BY <2>1 DEF IInv, Types
  <2>3. InQueue(e) => InQueue(e)' \/ InWriting(e)'
    <3>1. ASSUME NEW k \in DOMAIN queued, Has(queued[k].events, e)
          PROVE  InQueue(e)' \/ InWriting(e)'
      <4>1. CASE k = 1
        BY <2>1, <2>2, <3>1, <4>1 DEF InWriting, Has
      <4>2. CASE k # 1
        BY <2>2, <3>1, <4>2 DEF InQueue, Has
      <4>3. QED
        BY <4>1, <4>2
    <3>2. QED
      BY <3>1 DEF InQueue
  <2>4. /\ Held(e)' = Held(e) /\ InHeap(e)' = InHeap(e) /\ InTree(e)' = InTree(e) /\ ~InWriting(e)
    BY <2>1 DEF Held, InHeap, InBatch, Unpushed, InTree, InWriting, Has
  <2>5. QED
    BY <2>3, <2>4 DEF Somewhere
<1>3. CASE FinishOutput
  <2>1. PICK t \in writing : /\ tree' = Append(tree, t.events)
                             /\ pc' = [pc EXCEPT ![t.callback] = IF @ = "wait" THEN "idle" ELSE @]
    BY <1>3 DEF FinishOutput
  <2>2. writing = {t} /\ UNCHANGED <<heap, expired, queued, event>>
    BY <1>3 DEF FinishOutput, Queue!Complete, locals, IInv, Types
  <2>3. /\ DOMAIN tree' = DOMAIN tree \cup {Len(tree) + 1} /\ tree'[Len(tree) + 1] = t.events
        /\ \A k \in DOMAIN tree : tree'[k] = tree[k]
    BY <2>1, AppendedElements DEF IInv, Types
  <2>4. InWriting(e) \/ InTree(e) => InTree(e)'
    BY <2>2, <2>3 DEF InWriting, InTree, Has
  <2>5. Held(e) => Held(e)'
    BY <1>1, <2>1, <2>2 DEF Held, Early
  <2>6. InHeap(e)' = InHeap(e) /\ InQueue(e)' = InQueue(e)
    BY <2>2 DEF InHeap, InBatch, Unpushed, InQueue, Has
  <2>7. QED
    BY <2>4, <2>5, <2>6 DEF Somewhere
<1>4. ASSUME NEW c \in Entries, DeleteBatch(c) PROVE Somewhere(e)'
  <2>1. /\ c \in expired /\ expired' = expired \ {c} /\ heap' = Restrict(heap, DOMAIN heap \ {c})
        /\ UNCHANGED <<queued, writing, tree, pc, event>>
    BY <1>4 DEF DeleteBatch, queue, locals
  <2>2. DOMAIN heap' = DOMAIN heap \ {c} /\ \A d \in DOMAIN heap' : heap'[d] = heap[d]
    BY <2>1 DEF Restrict
  <2>3. InHeap(e) => InHeap(e)'
    BY <2>1, <2>2 DEF InHeap, InBatch, Unpushed
  <2>4. /\ Held(e)' = Held(e) /\ InQueue(e)' = InQueue(e)
        /\ InWriting(e)' = InWriting(e) /\ InTree(e)' = InTree(e)
    BY <2>1 DEF Held, InQueue, InWriting, InTree, Has
  <2>5. QED
    BY <2>3, <2>4 DEF Somewhere
<1>5. QED
  BY <1>2, <1>3, <1>4 DEF QueueStep

LEMMA PushLosesNothing ==
  ASSUME IInv, MainAlone, Orderly, Summary, ~crashed, ~overrun, NEW a \in Actors, PushBatch(a),
         NEW e \in Entries, Somewhere(e)
  PROVE  Somewhere(e)'
<1>1. PICK events \in Seq(Contents) :
        /\ queued' = Append(queued, [events |-> events, callback |-> a])
        /\ expired' = expired \cup {batch[a]} /\ UNCHANGED <<shared, heap, writing, tree, event>>
        /\ InBatch(batch[a], e) => Has(events, e)
  BY PushedRun
<1>2. /\ DOMAIN queued' = DOMAIN queued \cup {Len(queued) + 1}
      /\ queued'[Len(queued) + 1] = [events |-> events, callback |-> a]
      /\ \A k \in DOMAIN queued : queued'[k] = queued[k]
  BY <1>1, AppendedElements DEF IInv, Types
<1>3. InQueue(e) \/ Has(events, e) => InQueue(e)'
  BY <1>2 DEF InQueue, Has
<1>4. InHeap(e) => InHeap(e)' \/ InBatch(batch[a], e)
  BY <1>1 DEF InHeap, InBatch, Unpushed
<1>5. Held(e) => Held(e)'
  <2>1. pc[a] = "push" /\ \A m \in Lanes : m # a => pc'[m] = pc[m]
    BY DEF PushBatch, Goto, IInv, Types, Actors
  <2>2. QED
    BY <1>1, <2>1 DEF Held, Early
<1>6. InWriting(e)' = InWriting(e) /\ InTree(e)' = InTree(e)
  BY <1>1 DEF InWriting, InTree, Has
<1>7. QED
  BY <1>1, <1>3, <1>4, <1>5, <1>6 DEF Somewhere

LEMMA NothingLostKeeps ==
  ASSUME IInv, MainAlone, Orderly, Summary, NothingLost, ~crashed, Step
  PROVE  NothingLost'
<1> SUFFICES ASSUME ~overrun' PROVE \A e \in Entries : e < presentEventEntry' => Somewhere(e)'
  BY DEF NothingLost
<1>1. ~overrun
  BY OverrunStays DEF IInv, Types
<1>2. \A e \in Entries : e < presentEventEntry => Somewhere(e)
  BY <1>1 DEF NothingLost
<1>3. ASSUME NEW l \in Lanes, Output(l)
      PROVE  \A e \in Entries : e < presentEventEntry' => Somewhere(e)'
  <2>1. pc[Main] = "idle"
    BY <1>3 DEF Output, TakeEntry, EntryOfBatch, Load, Install, Reload, Fill, FillSlot, Count, Goto,
                MainAlone, IInv, Types
  <2>2. QED
    BY <1>1, <1>3, <2>1, LaneLosesNothing DEF Orderly
<1>4. CASE QueueStep
  <2>1. presentEventEntry' = presentEventEntry
    BY <1>4 DEF QueueStep, StartOutput, FinishOutput, DeleteBatch, shared
  <2>2. QED
    BY <1>2, <1>4, <2>1, QueueLosesNothing
<1>5. ASSUME NEW a \in Actors, FinishBatch(a)
      PROVE  \A e \in Entries : e < presentEventEntry' => Somewhere(e)'
  <2>1. presentEventEntry' = presentEventEntry
    BY <1>5 DEF FinishBatch, Exchange, ReadCount, ClearCount, PushBatch, shared
  <2>2. CASE PushBatch(a)
    BY <1>1, <1>2, <2>1, <2>2, PushLosesNothing
  <2>3. CASE Exchange(a) \/ ReadCount(a) \/ ClearCount(a)
    <3>1. UNCHANGED <<heap, expired, queue, tree, event>>
      BY <2>3 DEF Exchange, ReadCount, ClearCount, locals
    <3>2. \A l \in Lanes : pc[l] \in Early => pc'[l] \in Early
      BY <2>3 DEF Exchange, ReadCount, ClearCount, Goto, Early, IInv, Types, Actors
    <3>3. QED
      BY <1>2, <2>1, <3>1, <3>2, WhereTheyWere
  <2>4. QED
    BY <1>5, <2>2, <2>3 DEF FinishBatch
<1>6. CASE StartSummary \/ SummaryBatch \/ SummaryDone
  <2>1. UNCHANGED <<presentEventEntry, heap, expired, queue, tree, event>>
    BY <1>6 DEF StartSummary, SummaryBatch, SummaryDone, shared, locals
  <2>2. \A l \in Lanes : pc[l] \in Early => pc'[l] \in Early
    BY <1>6 DEF StartSummary, SummaryBatch, SummaryDone, Goto, Early, IInv, Types, Actors, Lanes, Main
  <2>3. QED
    BY <1>2, <2>1, <2>2, WhereTheyWere
<1>7. QED
  BY <1>3, <1>4, <1>5, <1>6 DEF Step, QueueStep

LEMMA EndsKeeps == ASSUME IInv, MainAlone, Ends, Step PROVE Ends'
<1> SUFFICES ASSUME pc'[Main] = "done"
             PROVE  batchIndex'[Main] = NLanes /\ queued' = <<>> /\ writing' = {} /\ expired' = {}
  BY DEF Ends
<1>1. CASE QueueStep /\ pc'[Main] = pc[Main]
  <2>1. queued = <<>> /\ writing = {} /\ expired = {}
    BY <1>1 DEF Ends
  <2>2. QED
    BY <1>1, <2>1 DEF QueueStep, StartOutput, FinishOutput, DeleteBatch, Queue!Begin, Queue!Complete
<1>2. CASE StartSummary /\ pc'[Main] = "summary"
  BY <1>2
<1>3. CASE MainStep
  <2>1. Main \in Actors /\ pc \in [Actors -> PC] /\ batchIndex[Main] \in 0..NLanes
    BY DEF IInv, Types, Actors
  <2>2. SummaryDone
    BY <1>3, <2>1 DEF MainStep, FinishBatch, Exchange, ReadCount, ClearCount, PushBatch, SummaryBatch,
                      Goto
  <2>3. batchIndex[Main] = NLanes
    BY <2>1, <2>2, BatchAssumption DEF SummaryDone, Ring
  <2>4. QED
    BY <2>2, <2>3 DEF SummaryDone, queue, locals
<1>4. CASE LaneStep /\ pc'[Main] = "idle"
  BY <1>4
<1>5. QED
  BY <1>1, <1>2, <1>3, <1>4, WhoSteps

----------------------------------------------------------------------------
OrderInv == CountsFit /\ MainAlone /\ Orderly /\ Summary /\ OnlyRuns /\ NothingLost /\ Ends

LEMMA OrderInitHolds == Init => OrderInv
<1> SUFFICES ASSUME Init PROVE OrderInv
  OBVIOUS
<1>1. /\ \A a \in Actors : pc[a] = "idle" /\ batchIndex[a] = 0 /\ eventsInBatch[a] = 0 /\ event[a] = Null
      /\ \A b \in Ring : eventBatches[b] = Null /\ waitingEventsInBatch[b] = 0
      /\ presentEventEntry = 0 /\ DOMAIN queued = {} /\ writing = {} /\ DOMAIN tree = {}
      /\ Main \in Actors /\ \A l \in Lanes : l \in Actors
  BY DEF Init, Actors
<1> HIDE DEF Init
<1>2. \A b \in Ring : Inside(b) = {} /\ \A l \in Lanes : ~CompletesAt(l, b)
  BY <1>1 DEF Inside, CompletesAt, BeforeCount, Early, Completing
<1>3. Cardinality({}) = 0
  BY LaneSets
<1>4. Begun = 0
  BY <1>1, BatchAssumption DEF Begun
<1>5. CountsFit
  <2>1. NEvents \in Nat
    BY BatchAssumption
  <2>2. \A a \in Actors : eventsInBatch[a] <= NEvents
    BY <1>1, <2>1
  <2>3. \A b \in Ring : waitingEventsInBatch[b] = 0 /\ Cardinality(Inside(b)) = 0
    BY <1>1, <1>2, <1>3
  <2>4. \A b \in Ring : waitingEventsInBatch[b] + Cardinality(Inside(b)) <= presentEventEntry
    BY <1>1, <2>3
  <2>5. QED
    BY <2>2, <2>4 DEF CountsFit
<1>6. Counts
  <2>1. \A b \in Ring : ~Current(b) /\ Clean(b)
    BY <1>1, <1>2, <1>4 DEF Current, Clean
  <2>2. QED
    BY <1>1, <1>2, <2>1, BatchAssumption DEF Counts
<1>7. RingPointers /\ \A l \in Lanes : Complete(l)
  BY <1>1 DEF RingPointers, Complete, Owning
<1>8. \A b \in Ring, e \in Entries : ~IsAt(e, b)
  BY <1>1 DEF IsAt, BeforeCount, Early
<1>9. \A e \in Entries : ~(e < presentEventEntry)
  BY <1>1 DEF Entries
<1>10. Turns /\ Filled
  BY <1>8, <1>9 DEF Turns, Filled
<1>11. OnlyRuns /\ NothingLost /\ Ends /\ MainAlone /\ Summary
  BY <1>1, <1>9 DEF OnlyRuns, NothingLost, Ends, MainAlone, Summary
<1>12. QED
  BY <1>5, <1>6, <1>7, <1>10, <1>11 DEF OrderInv, Orderly, InOrder

LEMMA OrderNextKeeps == IInv /\ OrderInv /\ [Next]_vars => OrderInv'
<1> SUFFICES ASSUME IInv, OrderInv, [Next]_vars PROVE OrderInv'
  OBVIOUS
<1>1. CASE UNCHANGED vars
  <2> USE <1>1 DEF vars, shared, queue, locals
  <2>1. \A b : /\ Inside(b)' = Inside(b)
               /\ Current(b)' <=> Current(b)
               /\ Clean(b)' <=> Clean(b)
               /\ \A a : CompletesAt(a, b)' <=> CompletesAt(a, b)
               /\ \A e : IsAt(e, b)' <=> IsAt(e, b)
    BY DEF Inside, Current, Cur, Begun, Turn, Clean, CompletesAt, IsAt, InBatch
  <2>2. Begun' = Begun /\ Cur' = Cur /\ \A e : Held(e)' <=> Held(e)
    BY DEF Begun, Cur, Turn, Held
  <2>3. CountsFit' /\ MainAlone' /\ Ends'
    BY <2>1 DEF OrderInv, CountsFit, MainAlone, Ends
  <2>4. Counts => Counts'
    BY <2>1, <2>2 DEF Counts
  <2>5. RingPointers => RingPointers'
    BY DEF RingPointers, At
  <2>6. Turns => Turns'
    BY <2>1, <2>2 DEF Turns, Turn
  <2>7. Filled => Filled'
    BY <2>1, <2>2 DEF Filled, Turn, InBatch
  <2>8. \A l \in Lanes : Complete(l) => Complete(l)'
    BY DEF Complete, Turn
  <2>9. Orderly'
    BY <2>4, <2>5, <2>6, <2>7, <2>8 DEF OrderInv, Orderly, InOrder
  <2>10. \A c : Partial(c)' <=> Partial(c)
    BY <2>2 DEF Partial
  <2>11. MainOwns => MainOwns'
    BY <2>2, <2>10 DEF MainOwns, At, Partial
  <2>12. \A b \in Ring : LeftOver(b) => LeftOver(b)'
    BY <2>1, <2>2, <2>10 DEF LeftOver, Partial
  <2>13. Summary'
    BY <2>11, <2>12 DEF OrderInv, Summary
  <2>14. OnlyRuns'
    BY DEF OrderInv, OnlyRuns, Run
  <2>15. \A e : Somewhere(e) => Somewhere(e)'
    BY DEF Somewhere, Held, InHeap, InBatch, Unpushed, InQueue, InWriting, InTree, Has
  <2>16. NothingLost'
    BY <2>15 DEF OrderInv, NothingLost
  <2>17. QED
    BY <2>3, <2>9, <2>13, <2>14, <2>16 DEF OrderInv
<1>2. CASE ~crashed /\ Step
  <2>1. CountsFit' /\ MainAlone' /\ Orderly' /\ Summary'
    BY <1>2, CountsFitKeeps, MainAloneKeeps, OrderlyKeeps, SummaryInvKeeps DEF OrderInv
  <2>2. OnlyRuns'
    <3>1. CASE overrun'
      BY <3>1 DEF OnlyRuns
    <3>2. CASE ~overrun'
      BY <1>2, <3>2, OnlyRunsKeeps DEF OrderInv
    <3>3. QED
      BY <3>1, <3>2
  <2>3. NothingLost' /\ Ends'
    BY <1>2, NothingLostKeeps, EndsKeeps DEF OrderInv
  <2>4. QED
    BY <2>1, <2>2, <2>3 DEF OrderInv
<1>3. QED
  BY <1>1, <1>2 DEF Next, Ended

LEMMA OrderInvariant == Spec => []OrderInv
<1>1. Init => OrderInv
  BY OrderInitHolds
<1>2. IInv /\ OrderInv /\ [Next]_vars => OrderInv'
  BY OrderNextKeeps
<1>3. QED
  BY <1>1, <1>2, Invariant, PTL DEF Spec

\* The counters, the pointers and the locals stay in their ranges, overrun or not.
THEOREM TypeCorrect == Spec => []TypeOK
<1>1. IInv /\ OrderInv => TypeOK
  <2> SUFFICES ASSUME IInv, OrderInv PROVE TypeOK
    OBVIOUS
  <2>1. /\ presentEventEntry \in Nat /\ presentEventEntry <= NEvents /\ NEvents \in Nat
        /\ waitingEventsInBatch \in [Ring -> Nat] /\ eventsInBatch \in [Actors -> Nat]
    BY BatchAssumption DEF IInv, Types
  <2>2. \A b \in Ring : Cardinality(Inside(b)) \in Nat
    <3>1. \A b \in Ring : Inside(b) \in SUBSET Lanes
      BY DEF Inside
    <3>2. QED
      BY <3>1, LaneSets
  <2>3. \A b \in Ring : waitingEventsInBatch[b] \in 0..NEvents
    BY <2>1, <2>2 DEF OrderInv, CountsFit
  <2>4. waitingEventsInBatch \in [Ring -> 0..NEvents]
    BY <2>1, <2>3
  <2>5. \A a \in Actors : eventsInBatch[a] \in 0..NEvents
    BY <2>1 DEF OrderInv, CountsFit
  <2>6. eventsInBatch \in [Actors -> 0..NEvents]
    BY <2>1, <2>5
  <2>7. QED
    BY <2>4, <2>6 DEF TypeOK, IInv, Types, Contents
<1>2. QED
  BY <1>1, Invariant, OrderInvariant, PTL

\* A batch never gets more events than it has room for, unless a lane comes round
\* to a batch in use: the assertion of outputAsync.
THEOREM Room == Spec => []RoomUnlessOverrun
<1>1. IInv /\ OrderInv => RoomUnlessOverrun
  <2> SUFFICES ASSUME IInv, OrderInv, ~overrun, NEW l \in Lanes, pc[l] = "count"
               PROVE  waitingEventsInBatch[batchIndex[l]] < batchSize
    BY DEF RoomUnlessOverrun, BatchHasRoom
  <2>1. pc[Main] = "idle"
    BY DEF OrderInv, MainAlone
  <2>2. batchIndex[l] \in Ring
    BY DEF IInv, Types
  <2>3. l \in Inside(batchIndex[l])
    BY DEF Inside, BeforeCount
  <2>4. QED
    BY <2>1, <2>2, <2>3, InsideOrComplete DEF OrderInv, Orderly, InOrder, IInv
<1>2. QED
  BY <1>1, Invariant, OrderInvariant, PTL

\* A lane writes its event into a batch that is alive, is the one in the ring, and
\* has the event's slot free.
THEOREM LiveBatch == Spec => []WritesIntoLiveBatch
<1>1. IInv /\ OrderInv => WritesIntoLiveBatch
  <2> SUFFICES ASSUME IInv, OrderInv, ~overrun, NEW l \in Lanes, pc[l] = "fill"
               PROVE  /\ batch[l] \in DOMAIN heap
                      /\ batch[l] = At(l)
                      /\ heap[batch[l]][IndexInBatch(event[l])] = Null
    BY DEF WritesIntoLiveBatch
  <2>1. pc[Main] = "idle"
    BY DEF OrderInv, MainAlone
  <2>2. QED
    BY <2>1, SlotIsFree DEF OrderInv, Orderly
<1>2. QED
  BY <1>1, Invariant, OrderInvariant, PTL

\* An entry of the tree holds consecutive events, whole batches but for the last.
THEOREM Runs == Spec => []BatchesAreRuns
<1>1. OrderInv => BatchesAreRuns
  BY DEF OrderInv, OnlyRuns, Run, BatchesAreRuns
<1>2. QED
  BY <1>1, OrderInvariant, PTL

\* After printSummary every event is in the tree, and the ring and the heap are
\* empty.
THEOREM AllWritten == Spec => []EveryEventWritten
<1>1. IInv /\ OrderInv => EveryEventWritten
  <2> SUFFICES ASSUME IInv, OrderInv, pc[Main] = "done", ~overrun
               PROVE  /\ \A e \in Entries : Places(e) # {}
                      /\ \A b \in Ring : eventBatches[b] = Null
                      /\ DOMAIN heap = {}
    BY DEF EveryEventWritten
  <2>1. /\ batchIndex[Main] = NLanes /\ queued = <<>> /\ writing = {} /\ expired = {}
        /\ presentEventEntry = NEvents /\ \A l \in Lanes : pc[l] = "idle"
        /\ \A b \in Ring : LeftOver(b)
    BY DEF OrderInv, Ends, MainAlone, Summary
  <2>2. \A b \in Ring : b < NLanes
    BY BatchAssumption DEF Ring
  <2>3. \A b \in Ring : eventBatches[b] = Null
    BY <2>1, <2>2 DEF LeftOver
  <2>4. \A a \in Actors : pc[a] \notin Owning
    BY <2>1 DEF Actors, Owning
  <2>5. \A c \in Unpushed : c # Null
    BY DEF Unpushed, IInv, Types, Entries, Null
  <2>6. Unpushed = {}
    BY <2>3, <2>4, <2>5 DEF IInv, OnePlacePerBatch, Owns
  <2>7. DOMAIN heap = {}
    BY <2>1, <2>6 DEF Unpushed
  <2>8. ASSUME NEW e \in Entries PROVE Places(e) # {}
    <3>1. e < presentEventEntry
      BY <2>1, BatchAssumption DEF Entries
    <3>2. ~Held(e) /\ ~InHeap(e) /\ ~InQueue(e) /\ ~InWriting(e)
      BY <2>1, <2>6 DEF Held, Early, InHeap, InQueue, InWriting
    <3>3. InTree(e)
      BY <3>1, <3>2 DEF OrderInv, NothingLost, Somewhere
    <3>4. IndexInBatch(e) \in 1..batchSize
      BY BatchAssumption DEF Entries, IndexInBatch
    <3>5. PICK k \in DOMAIN tree : IndexInBatch(e) \in DOMAIN tree[k] /\ tree[k][IndexInBatch(e)] = e
      BY <3>3 DEF InTree, Has
    <3>6. <<k, IndexInBatch(e)>> \in Places(e)
      BY <3>4, <3>5 DEF Places
    <3>7. QED
      BY <3>6
  <2>9. QED
    BY <2>3, <2>7, <2>8
<1>2. QED
  BY <1>1, Invariant, OrderInvariant, PTL

----------------------------------------------------------------------------
\* The outputers of the other modules

RecordsP == INSTANCE EventOutputersProofs WITH
  NEvents <- 4, NProducts <- 2, pc <- at, event <- lanesEvent,
  queued <- tasks, writing <- running,
  Kinds <- {"PDSOutputer", "RootEventOutputer", "HDFEventOutputer",
            "RootOutputer", "RNTupleOutputer", "RNTupleTFileOutputer"}

MergerP == INSTANCE TBufferMergerRootOutputerProofs WITH
  NEvents <- 5, AutoFlushes <- {2, -2}, Sizes <- {1, 2}, Garbage <- {-1, 0, 7},
  pc <- at, queued <- tasks

ClustersP == INSTANCE RNTupleAsyncOutputerProofs WITH
  NEvents <- 3, MaxTime <- 2, pc <- at, queued <- tasks,
  Kinds <- {"RNTupleAsyncOutputer", "RNTupleParallelOutputer"}

jobVars == <<vars, kind, job, eventByEvent, closed, ofRecords, ofMerger, ofClusters,
             ofAppender>>

\* The outputers of the command line are told apart by their names.
LEMMA KindsApart ==
  /\ kind \in RecordKinds => /\ kind \notin ClusterKinds
                             /\ kind \notin {"RootBatchEventsOutputer",
                                             "TBufferMergerRootOutputer", "HDFOutputer"}
  /\ kind \in ClusterKinds => kind \notin {"RootBatchEventsOutputer",
                                           "TBufferMergerRootOutputer", "HDFOutputer"}
BY DEF RecordKinds, ClusterKinds, Records!Serializing, Records!Reading

\* What the two instances of a module define is the same.
LEMMA SameRecords == /\ Records!Init => RecordsP!Init
                     /\ Records!Next => RecordsP!Next
<1>1. Records!Init => RecordsP!Init
  BY DEF Records!Init, Records!Lanes, Records!Products, Records!None,
         Records!HeaderInFirst, Records!Header, RecordsP!Init, RecordsP!Lanes,
         RecordsP!Products, RecordsP!None, RecordsP!HeaderInFirst, RecordsP!Header
<1>2. Records!Next => RecordsP!Next
  BY DEF Records!Next, Records!StartWrite, Records!FinishWrite, Records!LaneStep,
         Records!PrintSummary, Records!TakeEvent, Records!SerializeProduct,
         Records!OutputAsync, Records!OutputObjectsAsync, Records!OutputBufferAsync,
         Records!Push, Records!NextEvent, Records!Write, Records!Record,
         Records!Goto, Records!Queue!Begin, Records!Queue!Submit,
         Records!Queue!Complete, Records!Lanes, Records!Products,
         Records!Serializing, Records!Reading, Records!Header, Records!None,
         Records!vars, Records!lanes, Records!queue, Records!output, RecordsP!Next,
         RecordsP!StartWrite, RecordsP!FinishWrite, RecordsP!LaneStep,
         RecordsP!PrintSummary, RecordsP!TakeEvent, RecordsP!SerializeProduct,
         RecordsP!OutputAsync, RecordsP!OutputObjectsAsync,
         RecordsP!OutputBufferAsync, RecordsP!Push, RecordsP!NextEvent,
         RecordsP!Write, RecordsP!Record, RecordsP!Goto, RecordsP!Queue!Begin,
         RecordsP!Queue!Submit, RecordsP!Queue!Complete, RecordsP!Lanes,
         RecordsP!Products, RecordsP!Serializing, RecordsP!Reading, RecordsP!Header,
         RecordsP!None, RecordsP!vars, RecordsP!lanes, RecordsP!queue,
         RecordsP!output
<1>3. QED
  BY <1>1, <1>2

LEMMA SameMerger == /\ Merger!Init => MergerP!Init
                    /\ Merger!Next => MergerP!Next
<1>1. Merger!Init => MergerP!Init
  BY DEF Merger!Init, Merger!Lanes, Merger!Events, MergerP!Init, MergerP!Lanes,
         MergerP!Events
<1>2. Merger!Next => MergerP!Next
  BY DEF Merger!Next, Merger!StartQueuedWrite, Merger!FinishQueuedWrite,
         Merger!LaneStep, Merger!Finished, Merger!Fill, Merger!Count, Merger!Reset,
         Merger!Tell, Merger!Check, Merger!NothingToWrite, Merger!WriteAtOnce,
         Merger!PushWrite, Merger!MustWrite, Merger!Write, Merger!CloseLane,
         Merger!ClearFor, Merger!MergeOf, Merger!Goto, Merger!Queue!Begin,
         Merger!Queue!Submit, Merger!Queue!Complete, Merger!Lanes, Merger!Events,
         Merger!vars, Merger!parameters, Merger!flags, Merger!queue, Merger!memory,
         MergerP!Next, MergerP!StartQueuedWrite, MergerP!FinishQueuedWrite,
         MergerP!LaneStep, MergerP!Finished, MergerP!Fill, MergerP!Count,
         MergerP!Reset, MergerP!Tell, MergerP!Check, MergerP!NothingToWrite,
         MergerP!WriteAtOnce, MergerP!PushWrite, MergerP!MustWrite, MergerP!Write,
         MergerP!CloseLane, MergerP!ClearFor, MergerP!MergeOf, MergerP!Goto,
         MergerP!Queue!Begin, MergerP!Queue!Submit, MergerP!Queue!Complete,
         MergerP!Lanes, MergerP!Events, MergerP!vars, MergerP!parameters,
         MergerP!flags, MergerP!queue, MergerP!memory
<1>3. QED
  BY <1>1, <1>2

LEMMA SameClusters == /\ Clusters!Init => ClustersP!Init
                      /\ Clusters!Next => ClustersP!Next
<1>1. Clusters!Init => ClustersP!Init
  BY DEF Clusters!Init, Clusters!Lanes, Clusters!Events, Clusters!NoLane,
         ClustersP!Init, ClustersP!Lanes, ClustersP!Events, ClustersP!NoLane
<1>2. Clusters!Next => ClustersP!Next
  BY DEF Clusters!Next, Clusters!Tick, Clusters!Call, Clusters!CallStep,
         Clusters!StartFlush, Clusters!FinishFlush, Clusters!PrintSummary,
         Clusters!Finished, Clusters!Free, Clusters!StartClock,
         Clusters!FillProducts, Clusters!FillNoFlush, Clusters!FillAndFlush,
         Clusters!Commit, Clusters!PushFlush, Clusters!Moved, Clusters!Return,
         Clusters!StopClock, Clusters!AddTime, Clusters!Goto, Clusters!Queue!Begin,
         Clusters!Queue!Submit, Clusters!Queue!Complete, Clusters!Lanes,
         Clusters!Events, Clusters!vars, Clusters!clock, Clusters!queue,
         Clusters!ntuple, ClustersP!Next, ClustersP!Tick, ClustersP!Call,
         ClustersP!CallStep, ClustersP!StartFlush, ClustersP!FinishFlush,
         ClustersP!PrintSummary, ClustersP!Finished, ClustersP!Free,
         ClustersP!StartClock, ClustersP!FillProducts, ClustersP!FillNoFlush,
         ClustersP!FillAndFlush, ClustersP!Commit, ClustersP!PushFlush,
         ClustersP!Moved, ClustersP!Return, ClustersP!StopClock, ClustersP!AddTime,
         ClustersP!Goto, ClustersP!Queue!Begin, ClustersP!Queue!Submit,
         ClustersP!Queue!Complete, ClustersP!Lanes, ClustersP!Events, ClustersP!vars,
         ClustersP!clock, ClustersP!queue, ClustersP!ntuple
<1>3. QED
  BY <1>1, <1>2

\* A job keeps its outputer.
LEMMA KindStays == [JobNext]_jobVars => kind' = kind
<1>1. Records!Next => kind' = kind
  BY DEF Records!Next, Records!StartWrite, Records!FinishWrite, Records!LaneStep,
         Records!PrintSummary, Records!TakeEvent, Records!SerializeProduct,
         Records!OutputAsync, Records!NextEvent
<1>2. Clusters!Next => kind' = kind
  BY DEF Clusters!Next, Clusters!Tick, Clusters!Call, Clusters!CallStep,
         Clusters!StartFlush, Clusters!FinishFlush, Clusters!PrintSummary,
         Clusters!Finished, Clusters!FillProducts, Clusters!PushFlush,
         Clusters!StopClock, Clusters!AddTime, Clusters!vars
<1>3. QED
  BY <1>1, <1>2 DEF JobNext, BatchNext, RecordsNext, MergerNext, ClustersNext, AppenderNext,
                    jobVars

RecordsInv == kind \in RecordKinds => RecordsP!Complete /\ RecordsP!Narrow
MergerInv == kind = "TBufferMergerRootOutputer" => MergerP!IInv
ClustersInv == kind \in ClusterKinds => ClustersP!IInv /\ ClustersP!ClockInv

LEMMA NumbersOfTheJob == MergerP!Parameters
BY BatchAssumption DEF MergerP!Parameters

LEMMA RecordsInvariant == JobSpec => []RecordsInv
<1>1. JobInit => RecordsInv
  <2> SUFFICES ASSUME JobInit, kind \in RecordKinds
               PROVE  RecordsP!Complete /\ RecordsP!Narrow
    BY DEF RecordsInv
  <2>1. Clusters!Init => kind \in ClusterKinds
    BY DEF Clusters!Init, ClusterKinds
  <2>2. Records!Init
    BY <2>1, KindsApart DEF JobInit
  <2>3. QED
    BY <2>2, SameRecords, RecordsP!CompleteInit, RecordsP!NarrowInit
<1>2. RecordsInv /\ [JobNext]_jobVars => RecordsInv'
  <2> SUFFICES ASSUME RecordsInv, [JobNext]_jobVars, kind' \in RecordKinds
               PROVE  (RecordsP!Complete /\ RecordsP!Narrow)'
    BY DEF RecordsInv, RecordKinds, Records!Serializing, Records!Reading
  <2>1. kind \in RecordKinds
    BY KindStays
  <2>2. Records!Next \/ UNCHANGED jobVars
    BY <2>1, KindsApart DEF JobNext, BatchNext, RecordsNext, MergerNext, ClustersNext,
                            AppenderNext
  <2>3. [RecordsP!Next]_(RecordsP!vars)
    <3>1. UNCHANGED jobVars => UNCHANGED RecordsP!vars
      BY DEF jobVars, job, eventByEvent, ofRecords, RecordsP!vars, RecordsP!lanes,
             RecordsP!queue, RecordsP!output
    <3>2. QED
      BY <2>2, <3>1, SameRecords
  <2>4. QED
    BY <2>1, <2>3, RecordsP!CompleteNext, RecordsP!NarrowNext
    DEF RecordsInv, RecordsP!Complete
<1>3. QED
  BY <1>1, <1>2, PTL DEF JobSpec, jobVars

LEMMA MergerInvariant == JobSpec => []MergerInv
<1>1. JobInit => MergerInv
  <2> SUFFICES ASSUME JobInit, kind = "TBufferMergerRootOutputer" PROVE MergerP!IInv
    BY DEF MergerInv
  <2>1. /\ Clusters!Init => kind \in ClusterKinds
        /\ Records!Init => kind \in RecordKinds
    BY DEF Clusters!Init, ClusterKinds, Records!Init, RecordKinds, Records!Serializing,
           Records!Reading
  <2>2. Merger!Init
    BY <2>1, KindsApart DEF JobInit
  <2>3. QED
    BY <2>2, SameMerger, NumbersOfTheJob, MergerP!InitHolds
<1>2. MergerInv /\ [JobNext]_jobVars => MergerInv'
  <2> SUFFICES ASSUME MergerInv, [JobNext]_jobVars, kind' = "TBufferMergerRootOutputer"
               PROVE  MergerP!IInv'
    BY DEF MergerInv
  <2>1. kind = "TBufferMergerRootOutputer"
    BY KindStays
  <2>2. Merger!Next \/ UNCHANGED jobVars
    BY <2>1, KindsApart DEF JobNext, BatchNext, RecordsNext, MergerNext, ClustersNext,
                            AppenderNext
  <2>3. [MergerP!Next]_(MergerP!vars)
    <3>1. UNCHANGED jobVars => UNCHANGED MergerP!vars
      BY DEF jobVars, job, ofMerger, MergerP!vars, MergerP!parameters, MergerP!flags,
             MergerP!queue, MergerP!memory
    <3>2. QED
      BY <2>2, <3>1, SameMerger
  <2>4. QED
    BY <2>1, <2>3, NumbersOfTheJob, MergerP!NextKeeps DEF MergerInv
<1>3. QED
  BY <1>1, <1>2, PTL DEF JobSpec, jobVars

LEMMA ClustersInvariant == JobSpec => []ClustersInv
<1>1. JobInit => ClustersInv
  <2> SUFFICES ASSUME JobInit, kind \in ClusterKinds
               PROVE  ClustersP!IInv /\ ClustersP!ClockInv
    BY DEF ClustersInv
  <2>1. Records!Init => kind \in RecordKinds
    BY DEF Records!Init, RecordKinds, Records!Serializing, Records!Reading
  <2>2. Clusters!Init
    BY <2>1, KindsApart DEF JobInit
  <2>3. QED
    BY <2>2, SameClusters, ClustersP!InitHolds, ClustersP!ClockInit
<1>2. ClustersInv /\ [JobNext]_jobVars => ClustersInv'
  <2> SUFFICES ASSUME ClustersInv, [JobNext]_jobVars, kind' \in ClusterKinds
               PROVE  (ClustersP!IInv /\ ClustersP!ClockInv)'
    BY DEF ClustersInv, ClusterKinds
  <2>1. kind \in ClusterKinds
    BY KindStays
  <2>2. Clusters!Next \/ UNCHANGED jobVars
    BY <2>1, KindsApart DEF JobNext, BatchNext, RecordsNext, MergerNext, ClustersNext,
                            AppenderNext
  <2>3. [ClustersP!Next]_(ClustersP!vars)
    <3>1. UNCHANGED jobVars => UNCHANGED ClustersP!vars
      BY DEF jobVars, job, ofClusters, ClustersP!vars, ClustersP!clock, ClustersP!queue,
             ClustersP!ntuple
    <3>2. QED
      BY <2>2, <3>1, SameClusters
  <2>4. QED
    BY <2>1, <2>3, ClustersP!NextKeeps, ClustersP!ClockNext
    DEF ClustersInv, ClustersP!IInv
<1>3. QED
  BY <1>1, <1>2, PTL DEF JobSpec, jobVars

\* EventOutputers in a job: a record has the data products and the identifier of one
\* event, for any number of lanes.
THEOREM WholeEvents == JobSpec => []RecordsAreWholeEvents
<1>1. RecordsInv => RecordsAreWholeEvents
  <2>1. RecordsP!RecordsAreWholeEvents => Records!RecordsAreWholeEvents
    BY DEF Records!RecordsAreWholeEvents, Records!None, Records!Products,
           RecordsP!RecordsAreWholeEvents, RecordsP!None, RecordsP!Products
  <2>2. QED
    BY <2>1 DEF RecordsInv, RecordsP!Complete, RecordsP!IInv, RecordsAreWholeEvents
<1>2. QED
  BY <1>1, RecordsInvariant, PTL

\* EventOutputers in a job: a closed file has every event once, whatever lanes had it.
THEOREM FilesAreComplete == JobSpec => []FileIsComplete
<1>1. RecordsInv => FileIsComplete
  <2>1. RecordsP!FileIsComplete => Records!FileIsComplete
    BY DEF Records!FileIsComplete, Records!Header, Records!None, Records!Products,
           Records!Events, RecordsP!FileIsComplete, RecordsP!Header, RecordsP!None,
           RecordsP!Products, RecordsP!Events
  <2>2. QED
    BY <2>1, RecordsP!CompleteIsComplete DEF RecordsInv, FileIsComplete
<1>2. QED
  BY <1>1, RecordsInvariant, PTL

\* TBufferMergerRootOutputer in a job: an event is with one lane or merged once.
THEOREM Merged == JobSpec => []MergedOnce
<1>1. MergerInv => MergedOnce
  <2>1. MergerP!MergedOnce => Merger!MergedOnce
    BY DEF Merger!MergedOnce, Merger!Lanes, Merger!Events, Merger!Cardinality,
           MergerP!MergedOnce, MergerP!Lanes, MergerP!Events, MergerP!Cardinality
  <2>2. QED
    BY <2>1, MergerP!InvariantMergesOnce DEF MergerInv, MergedOnce
<1>2. QED
  BY <1>1, MergerInvariant, PTL

\* TBufferMergerRootOutputer in a job: the count of events since the last write comes
\* back, whatever lanes add to it meanwhile.
THEOREM CountReset == JobSpec => []CountComesBack
<1>1. MergerInv => CountComesBack
  <2>1. MergerP!CountComesBack => Merger!CountComesBack
    BY DEF Merger!CountComesBack, Merger!Lanes, MergerP!CountComesBack,
           MergerP!Lanes
  <2>2. QED
    BY <2>1 DEF MergerInv, MergerP!IInv, CountComesBack
<1>2. QED
  BY <1>1, MergerInvariant, PTL

\* TBufferMergerRootOutputer in a job: a lane told to write has written.
THEOREM Told == JobSpec => []ToldLanesWrite
<1>1. MergerInv => ToldLanesWrite
  <2>1. MergerP!ToldLanesWrite => Merger!ToldLanesWrite
    BY DEF Merger!ToldLanesWrite, Merger!Lanes, MergerP!ToldLanesWrite,
           MergerP!Lanes
  <2>2. QED
    BY <2>1, MergerP!InvariantTellsLanes DEF MergerInv, ToldLanesWrite
<1>2. QED
  BY <1>1, MergerInvariant, PTL

\* RNTupleAsyncOutputer and RNTupleParallelOutputer in a job: a cluster is flushed as
\* it was sealed, and a closed file has every event once.
THEOREM SealedClusters == JobSpec => []ClustersAsSealed
<1>1. ClustersInv => ClustersAsSealed
  <2>1. ClustersP!IInv => ClustersP!ClustersAsSealed
    BY DEF ClustersP!IInv, ClustersP!Sealed, ClustersP!Flushing, ClustersP!ClosedIsDone,
           ClustersP!ClustersAsSealed
  <2>2. ClustersP!ClustersAsSealed => Clusters!ClustersAsSealed
    BY DEF Clusters!ClustersAsSealed, Clusters!Events, ClustersP!ClustersAsSealed,
           ClustersP!Events
  <2>3. QED
    BY <2>1, <2>2 DEF ClustersInv, ClustersAsSealed
<1>2. QED
  BY <1>1, ClustersInvariant, PTL

\* What is proved of BatchEventsOutputer holds in the job: its variables make the
\* steps of that module, or, with another outputer, none.
THEOREM BatchesInTheJob == JobSpec => Spec
<1>1. JobInit => Init
  BY DEF JobInit
<1>2. [JobNext]_jobVars => [Next]_vars
  BY DEF JobNext, BatchNext, RecordsNext, MergerNext, ClustersNext, AppenderNext, jobVars
<1>3. QED
  BY <1>1, <1>2, PTL DEF JobSpec, Spec, jobVars

\* The time of a set of calls does not depend on the job's constants.
LEMMA SameTime ==
  ASSUME NEW calls, NEW from, NEW to
  PROVE  Clusters!TimeOf(calls, from, to) = ClustersP!TimeOf(calls, from, to)
BY DEF Clusters!TimeOf, Clusters!MapThenSumSet, Clusters!MapThenFoldSet,
       ClustersP!TimeOf, ClustersP!MapThenSumSet, ClustersP!MapThenFoldSet

\* RNTupleAsyncOutputer and RNTupleParallelOutputer in a job: the clock shows the time
\* in which a call was running, each moment once.
THEOREM WallclockCounts == JobSpec => []WallclockIsBusyTime
<1>1. ClustersInv => WallclockIsBusyTime
  <2>1. ClustersP!WallclockIsBusyTime => Clusters!WallclockIsBusyTime
    BY SameTime DEF Clusters!WallclockIsBusyTime, Clusters!Events,
                    ClustersP!WallclockIsBusyTime, ClustersP!Events
  <2>2. QED
    BY <2>1 DEF ClustersInv, ClustersP!ClockInv, WallclockIsBusyTime
<1>2. QED
  BY <1>1, ClustersInvariant, PTL
----------------------------------------------------------------------------
\* Sequences: FlattenSeq is a recursive function, so that its values are not found by
\* expanding it.  FlattenJoins shows that a function that puts the sequences together
\* one by one exists and is the one it chooses; the smallest place at which that fails
\* (Smallest) takes the place of the induction.

\* What holds for some subsets of a finite set, or some numbers, has a smallest one.
LEMMA SmallestSubset ==
  ASSUME NEW S, IsFiniteSet(S), NEW T, T \subseteq SUBSET S, T # {}
  PROVE  \E s \in T : \A r \in T : r \subseteq s => r = s
<1>1. IsWellFoundedOn(StrictSubsetOrdering(S), FiniteSubsetsOf(S))
  BY FS_StrictSubsetOrderingWellFounded
<1>2. T \subseteq FiniteSubsetsOf(S)
  BY FS_Subset DEF FiniteSubsetsOf
<1>3. \E s \in T : \A r \in T : ~ (<<r, s>> \in StrictSubsetOrdering(S))
  BY <1>1, <1>2, WFMin
<1>4. QED
  BY <1>3 DEF StrictSubsetOrdering

LEMMA Smallest ==
  ASSUME NEW T, T \subseteq Nat, T # {}
  PROVE  \E n \in T : \A m \in T : n <= m
<1>1. PICK k \in T : TRUE
  OBVIOUS
<1> DEFINE F == {0..(n - 1) : n \in {m \in T : m <= k}}
<1>2. IsFiniteSet(0..(k - 1))
  BY FS_Interval
<1>3. F \subseteq SUBSET (0..(k - 1)) /\ F # {}
  OBVIOUS
<1>4. \E s \in F : \A r \in F : r \subseteq s => r = s
  <2>1. PICK G, I : G = F /\ I = 0..(k - 1)
    OBVIOUS
  <2>2. IsFiniteSet(I) /\ G \in SUBSET SUBSET I /\ G # {}
    BY <1>2, <1>3, <2>1
  <2>3. \E s \in G : \A r \in G : r \subseteq s => r = s
    BY <2>2, SmallestSubset
  <2>4. QED
    BY <2>1, <2>3
<1>5. PICK n \in T : n <= k /\ \A r \in F : r \subseteq 0..(n - 1) => r = 0..(n - 1)
  BY <1>4
<1>6. ASSUME NEW m \in T, m < n PROVE FALSE
  <2>1. 0..(m - 1) \in F /\ 0..(m - 1) \subseteq 0..(n - 1)
    BY <1>5, <1>6
  <2>2. 0..(m - 1) = 0..(n - 1)
    BY <1>5, <2>1
  <2>3. n - 1 \in 0..(n - 1) /\ n - 1 \notin 0..(m - 1)
    BY <1>6
  <2>4. QED
    BY <2>2, <2>3
<1>7. QED
  BY <1>6

\* The beginnings of what a sequence of sequences is put together to: f[i] has the
\* first i of them.
Joins(f, s, V) == /\ f \in [0..Len(s) -> Seq(V)]
                  /\ f[0] = <<>>
                  /\ \A i \in 1..Len(s) : f[i] = f[i - 1] \o s[i]

LEMMA JoinedAre ==
  ASSUME NEW V, NEW s \in Seq(Seq(V))
  PROVE  Len(s) \in Nat /\ \A i \in 1..Len(s) : s[i] \in Seq(V)
OBVIOUS

LEMMA JoinFacts ==
  ASSUME NEW V, NEW s \in Seq(Seq(V)), NEW f, Joins(f, s, V)
  PROVE  /\ f[0] = <<>> /\ \A i \in 0..Len(s) : f[i] \in Seq(V)
         /\ \A i \in 1..Len(s) : f[i] = f[i - 1] \o s[i]
BY DEF Joins

LEMMA JoinExists ==
  ASSUME NEW V, NEW s \in Seq(Seq(V)) PROVE \E f : Joins(f, s, V)
<1> DEFINE P(f, n) == /\ f \in [0..n -> Seq(V)] /\ f[0] = <<>>
                      /\ \A i \in 1..n : f[i] = f[i - 1] \o s[i]
           T == {n \in 0..Len(s) : ~ \E f : P(f, n)}
<1>1. Len(s) \in Nat /\ \A i \in 1..Len(s) : s[i] \in Seq(V)
  OBVIOUS
<1>2. SUFFICES ASSUME T # {} PROVE FALSE
  <2>1. Len(s) \in 0..Len(s)
    BY <1>1
  <2>2. PICK f : P(f, Len(s))
    BY <2>1
  <2>3. Joins(f, s, V)
    BY <2>2 DEF Joins
  <2>4. QED
    BY <2>3
<1>3. PICK n \in T : \A m \in T : n <= m
  <2>1. \A m \in 0..Len(s) : m \in Nat
    BY <1>1
  <2>2. T \subseteq Nat
    BY <2>1
  <2> HIDE DEF T
  <2>3. QED
    BY <1>2, <2>2, Smallest
<1>4. CASE n = 0
  <2>1. P([i \in 0..0 |-> <<>>], 0)
    OBVIOUS
  <2>2. QED
    BY <1>3, <1>4, <2>1
<1>5. CASE n # 0
  <2>1. n - 1 \in 0..Len(s) /\ n - 1 \notin T /\ n \in 1..Len(s)
    <3>1. n \in 0..Len(s) /\ n - 1 \in 0..Len(s) /\ n \in 1..Len(s)
      BY <1>1, <1>3, <1>5
    <3>2. ~ (n <= n - 1)
      BY <3>1
    <3>3. QED
      BY <1>3, <3>1, <3>2
  <2>2. PICK g : P(g, n - 1)
    BY <2>1
  <2> DEFINE f == [i \in 0..n |-> IF i = n THEN g[n - 1] \o s[n] ELSE g[i]]
  <2>3. f \in [0..n -> Seq(V)]
    <3>1. g[n - 1] \o s[n] \in Seq(V)
      BY <1>1, <2>1, <2>2
    <3>2. ASSUME NEW i \in 0..n, i # n PROVE g[i] \in Seq(V)
      BY <2>2, <3>2
    <3>3. QED
      BY <3>1, <3>2
  <2>4. f[0] = <<>>
    BY <2>1, <2>2
  <2>5. ASSUME NEW i \in 1..n PROVE f[i] = f[i - 1] \o s[i]
    <3>1. CASE i = n
      <4>1. i \in 0..n /\ i - 1 \in 0..n /\ i - 1 # n
        BY <2>1, <3>1
      <4>2. f[i] = g[n - 1] \o s[n]
        BY <3>1, <4>1
      <4>3. f[i - 1] = g[i - 1]
        BY <4>1
      <4>4. QED
        BY <3>1, <4>2, <4>3
    <3>2. CASE i # n
      <4>1. i \in 1..(n - 1) /\ f[i] = g[i] /\ f[i - 1] = g[i - 1]
        BY <2>1, <3>2
      <4>2. QED
        BY <2>2, <4>1
    <3>3. QED
      BY <3>1, <3>2
  <2>6. P(f, n)
    BY <2>3, <2>4, <2>5
  <2>7. QED
    BY <1>3, <2>6
<1>6. QED
  BY <1>4, <1>5

\* FlattenSeq is that function: its recursive definition has one solution.
LEMMA FlattenJoins ==
  ASSUME NEW V, NEW s \in Seq(Seq(V)), NEW f, Joins(f, s, V)
  PROVE  Appender!FlattenSeq(s) = f[Len(s)]
<1>1. /\ Len(s) \in Nat /\ f[0] = <<>>
      /\ \A i \in 1..Len(s) : s[i] \in Seq(V) /\ f[i] = f[i - 1] \o s[i]
  BY JoinedAre, JoinFacts
<1>2. CASE Len(s) = 0
  <2>1. s = <<>> /\ Appender!FlattenSeq(s) = s
    BY <1>2 DEF Appender!FlattenSeq
  <2>2. QED
    BY <1>1, <1>2, <2>1
<1>3. CASE Len(s) # 0
  <2> DEFINE Puts(g) == [i \in 1..Len(s) |-> IF i = 1 THEN s[i] ELSE g[i - 1] \o s[i]]
             flatten == CHOOSE g : g = Puts(g)
             h == [i \in 1..Len(s) |-> f[i]]
  <2>1. Appender!FlattenSeq(s) = flatten[Len(s)]
    BY <1>3 DEF Appender!FlattenSeq
  <2>2. h = Puts(h)
    <3>1. ASSUME NEW i \in 1..Len(s)
          PROVE  h[i] = IF i = 1 THEN s[i] ELSE h[i - 1] \o s[i]
      <4>1. CASE i = 1
        <5>1. <<>> \o s[i] = s[i]
          BY <1>1
        <5>2. f[i] = f[0] \o s[i]
          <6>1. i - 1 = 0
            BY <4>1
          <6>2. QED
            BY <1>1, <6>1
        <5>3. QED
          BY <1>1, <4>1, <5>1, <5>2
      <4>2. CASE i # 1
        <5>1. i - 1 \in 1..Len(s) /\ h[i - 1] = f[i - 1]
          BY <1>1, <4>2
        <5>2. QED
          BY <1>1, <4>2, <5>1
      <4>3. QED
        BY <4>1, <4>2
    <3>2. QED
      BY <3>1
  <2> HIDE DEF h
  <2>3. flatten = Puts(flatten)
    BY <2>2
  <2> HIDE DEF flatten
  <2> DEFINE T == {i \in 1..Len(s) : flatten[i] # h[i]}
  <2>4. SUFFICES ASSUME T # {} PROVE FALSE
    <3>1. Len(s) \in 1..Len(s)
      BY <1>1, <1>3
    <3>2. flatten[Len(s)] = h[Len(s)]
      BY <3>1
    <3>3. QED
      BY <2>1, <3>1, <3>2 DEF h
  <2>5. PICK n \in T : \A m \in T : n <= m
    <3>1. T \subseteq Nat
      OBVIOUS
    <3> HIDE DEF T
    <3>2. QED
      BY <2>4, <3>1, Smallest
  <2>6. n \in 1..Len(s) /\ flatten[n] # h[n]
    OBVIOUS
  <2>7. /\ flatten[n] = IF n = 1 THEN s[n] ELSE flatten[n - 1] \o s[n]
        /\ h[n] = IF n = 1 THEN s[n] ELSE h[n - 1] \o s[n]
    BY <2>2, <2>3, <2>6
  <2>8. n # 1 => flatten[n - 1] = h[n - 1]
    <3>1. n # 1 => n - 1 \in 1..Len(s) /\ n - 1 \notin T
      BY <1>1, <2>5, <2>6
    <3>2. QED
      BY <3>1
  <2>9. QED
    BY <2>6, <2>7, <2>8
<1>4. QED
  BY <1>2, <1>3

\* The first n of the sequences.
LEMMA JoinOfFirst ==
  ASSUME NEW V, NEW s \in Seq(Seq(V)), NEW f, Joins(f, s, V), NEW n \in 0..Len(s)
  PROVE  Appender!FlattenSeq(SubSeq(s, 1, n)) = f[n]
<1> DEFINE t == SubSeq(s, 1, n)
           g == [i \in 0..n |-> f[i]]
<1>1. Len(s) \in Nat /\ \A i \in 1..Len(s) : s[i] \in Seq(V)
  OBVIOUS
<1>2. t \in Seq(Seq(V)) /\ Len(t) = n /\ \A i \in 1..n : t[i] = s[i]
  BY <1>1
<1>3. Joins(g, t, V)
  <2>1. /\ f \in [0..Len(s) -> Seq(V)] /\ f[0] = <<>>
        /\ \A i \in 1..Len(s) : f[i] = f[i - 1] \o s[i]
    BY DEF Joins
  <2>2. g \in [0..n -> Seq(V)] /\ g[0] = <<>>
    BY <1>1, <2>1
  <2>3. ASSUME NEW i \in 1..n PROVE g[i] = g[i - 1] \o t[i]
    <3>1. i \in 1..Len(s) /\ g[i] = f[i] /\ g[i - 1] = f[i - 1]
      BY <1>1
    <3>2. QED
      BY <1>2, <2>1, <3>1
  <2> HIDE DEF g, t
  <2>4. QED
    BY <1>2, <2>2, <2>3 DEF Joins
<1>4. Appender!FlattenSeq(t) = g[n]
  <2> HIDE DEF g, t
  <2> QED
    BY <1>2, <1>3, FlattenJoins
<1>5. QED
  BY <1>4

LEMMA Behind ==
  ASSUME NEW a \in Nat, NEW b \in Nat, NEW i \in 1..b
  PROVE  a + i \in 1..(a + b) /\ ~ (a + i <= a)
OBVIOUS

\* The n-th of the sequences is in the first k put together, behind the first n - 1.
StandsIn(f, s, n, k) ==
  /\ Len(f[n - 1]) \in Nat /\ Len(s[n]) \in Nat
  /\ Len(f[n]) = Len(f[n - 1]) + Len(s[n])
  /\ Len(f[n]) <= Len(f[k])
  /\ \A i \in 1..Len(s[n]) : f[k][Len(f[n - 1]) + i] = s[n][i]

LEMMA JoinIsLonger ==
  ASSUME NEW V, NEW s \in Seq(Seq(V)), NEW f, Joins(f, s, V), NEW n \in 1..Len(s),
         NEW k \in n..Len(s)
  PROVE  StandsIn(f, s, n, k)
<1>1. Len(s) \in Nat /\ \A i \in 0..Len(s) : f[i] \in Seq(V)
  BY JoinedAre, JoinFacts
<1>2. /\ f[n - 1] \in Seq(V) /\ s[n] \in Seq(V) /\ f[n] = f[n - 1] \o s[n]
  <2>1. n - 1 \in 0..Len(s)
    BY <1>1
  <2>2. QED
    BY <1>1, <2>1, JoinedAre, JoinFacts
<1>3. Len(f[n - 1]) \in Nat /\ Len(f[n]) = Len(f[n - 1]) + Len(s[n]) /\ Len(s[n]) \in Nat
  BY <1>2
<1> DEFINE Found(j) == /\ Len(f[n]) <= Len(f[j])
                       /\ \A i \in 1..Len(s[n]) : f[j][Len(f[n - 1]) + i] = s[n][i]
           T == {j \in n..Len(s) : ~ Found(j)}
<1>4. SUFFICES ASSUME T # {} PROVE FALSE
  <2>1. k \notin T => StandsIn(f, s, n, k)
    BY <1>3 DEF StandsIn
  <2>2. QED
    BY <2>1
<1>5. PICK j \in T : \A m \in T : j <= m
  <2>1. T \subseteq Nat
    BY <1>1
  <2> HIDE DEF T
  <2>2. QED
    BY <1>4, <2>1, Smallest
<1>6. CASE j = n
  <2>1. ASSUME NEW i \in 1..Len(s[n]) PROVE f[n][Len(f[n - 1]) + i] = s[n][i]
    <3>1. /\ Len(f[n - 1]) + i \in 1..(Len(f[n - 1]) + Len(s[n]))
          /\ ~ (Len(f[n - 1]) + i <= Len(f[n - 1]))
      BY <1>3, Behind
    <3>2. QED
      BY <1>2, <1>3, <3>1, ConcatProperties
  <2>2. Found(n)
    BY <1>3, <2>1
  <2>3. QED
    BY <1>5, <1>6, <2>2
<1>7. CASE j # n
  <2>1. j - 1 \in n..Len(s) /\ j - 1 \in 0..Len(s) /\ j \in 1..Len(s) /\ Found(j - 1)
    <3>1. j \in n..Len(s) /\ j - 1 \in n..Len(s) /\ ~ (j <= j - 1)
      BY <1>1, <1>5, <1>7
    <3>2. j - 1 \notin T
      BY <1>5, <3>1
    <3>3. QED
      BY <1>1, <3>1, <3>2
  <2>2. f[j] = f[j - 1] \o s[j] /\ f[j - 1] \in Seq(V) /\ s[j] \in Seq(V)
    BY ZenonT(30), <1>1, <2>1, JoinedAre, JoinFacts
  <2>3. Len(f[j]) = Len(f[j - 1]) + Len(s[j]) /\ Len(s[j]) \in Nat /\ Len(f[j - 1]) \in Nat
    <3>1. ASSUME NEW a \in Seq(V), NEW b \in Seq(V)
          PROVE  Len(a \o b) = Len(a) + Len(b) /\ Len(b) \in Nat /\ Len(a) \in Nat
      OBVIOUS
    <3>2. QED
      BY <2>2, <3>1
  <2>4. ASSUME NEW i \in 1..Len(f[j - 1]) PROVE f[j][i] = f[j - 1][i]
    <3>1. i \in 1..(Len(f[j - 1]) + Len(s[j])) /\ i <= Len(f[j - 1])
      <4>1. ASSUME NEW a \in Nat, NEW b \in Nat, NEW c \in 1..a
            PROVE  c \in 1..(a + b) /\ c <= a
        OBVIOUS
      <4>2. QED
        BY <2>3, <4>1
    <3>2. QED
      BY <2>2, <3>1, ConcatProperties
  <2>5. Found(j)
    <3>1. Len(f[n]) <= Len(f[j])
      <4>1. Len(f[n]) <= Len(f[j - 1])
        BY <2>1
      <4>2. ASSUME NEW a \in Nat, NEW b \in Nat, NEW c \in Nat, c <= a PROVE c <= a + b
        BY <4>2
      <4>3. Len(f[n]) \in Nat
        <5>1. ASSUME NEW a \in Nat, NEW b \in Nat PROVE a + b \in Nat
          OBVIOUS
        <5>2. QED
          BY <1>3, <5>1
      <4>4. QED
        BY <2>3, <4>1, <4>2, <4>3
    <3>2. ASSUME NEW i \in 1..Len(s[n]) PROVE f[j][Len(f[n - 1]) + i] = s[n][i]
      <4>1. Len(f[n - 1]) + i \in 1..Len(f[j - 1])
        <5>1. ASSUME NEW a \in Nat, NEW b \in Nat, NEW d \in Nat, NEW c \in 1..b,
                     a + b <= d
              PROVE  a + c \in 1..d
          BY <5>1
        <5>2. Len(f[n - 1]) + Len(s[n]) <= Len(f[j - 1])
          BY <1>3, <2>1
        <5>3. QED
          BY <1>3, <2>3, <5>1, <5>2
      <4>2. QED
        BY <2>1, <2>4, <4>1
    <3>3. QED
      BY <3>1, <3>2
  <2>6. QED
    BY <1>5, <2>5
<1>8. QED
  BY <1>6, <1>7

LEMMA CutOut ==
  ASSUME NEW V, NEW whole \in Seq(V), NEW part \in Seq(V), NEW a \in Nat, NEW z \in Nat,
         z = a + Len(part), z <= Len(whole),
         \A i \in 1..Len(part) : whole[a + i] = part[i]
  PROVE  SubSeq(whole, a + 1, z) = part
<1> DEFINE cut == SubSeq(whole, a + 1, z)
<1>1. PICK n \in Nat, m \in Nat : n = Len(part) /\ m = Len(whole)
  OBVIOUS
<1>2. \A i \in (a + 1)..z : whole[i] \in V
  <2>1. \A i \in (a + 1)..z : i \in 1..m
    BY <1>1
  <2>2. QED
    BY <1>1, <2>1, ElementOfSeq
<1>3. /\ cut \in Seq(V) /\ Len(cut) = IF a + 1 <= z THEN z - (a + 1) + 1 ELSE 0
      /\ \A i \in 1..(z - (a + 1) + 1) : cut[i] = whole[a + 1 + i - 1]
  BY <1>2, SubSeqProperties, a + 1 \in Int, z \in Int
<1> HIDE DEF cut
<1>4. Len(cut) = n /\ z - (a + 1) + 1 = n
  BY <1>1, <1>3
<1>5. ASSUME NEW i \in 1..n PROVE cut[i] = part[i]
  <2>1. a + 1 + i - 1 = a + i
    OBVIOUS
  <2>2. QED
    BY <1>1, <1>3, <1>4, <2>1
<1>6. cut = part
  BY <1>1, <1>3, <1>4, <1>5, SeqEqual
<1>7. QED
  BY <1>6 DEF cut

----------------------------------------------------------------------------
\* HDFOutputer: what is proved of it, from any numbers and any sizes.
AppenderParameters ==
  /\ NLanes \in Nat /\ AppendedEvents \in Nat /\ AppendedProducts \in Nat
  /\ AppendedSizes \subseteq Nat

Octets == Appender!Events \X Appender!Products \X Nat

AppenderTypes ==
  /\ method \in Appender!Methods /\ size \in [Appender!Events -> Nat]
  /\ next \in 0..AppendedEvents
  /\ lanesEvent \in [Appender!Lanes -> Appender!Events \cup {Appender!None}]
  /\ at \in [Appender!Lanes -> {"next", "products", "output"}]
  /\ blobs \in [Appender!Lanes -> [Appender!Products -> Seq(Octets)]]
  /\ tasks \in Seq(Appender!Lanes) /\ running \subseteq Appender!Lanes
  /\ products_ \in Seq(Seq(Octets)) /\ events_ \in Seq(Appender!Events)
  /\ batch_ = Len(events_) /\ Len(products_) = batch_ * AppendedProducts
  /\ offsets_ \in [Appender!Products -> Nat]
  /\ datasets \in [Appender!Products -> Seq(Octets)] /\ ends \in [Appender!Products -> Seq(Nat)]
  /\ ids \in Seq(Appender!Events) /\ order \in Seq(Appender!Events)
  /\ runAttribute \in {Appender!None, 1, 2}
  /\ batches \in Nat /\ closed \in BOOLEAN

\* A lane outputs what the serializers made of its event.
WithEvent == {l \in Appender!Lanes : at[l] # "next"}

LanesHoldBlobs ==
  /\ \A l \in WithEvent : lanesEvent[l] \in Appender!Events
  /\ \A l \in Appender!Lanes : at[l] = "output" =>
       \A p \in Appender!Products : blobs[l][p] = Appender!Blob(lanesEvent[l], p)

\* A lane has one output, which waits or is running.
OutputsWait ==
  /\ \A i \in DOMAIN tasks : at[tasks[i]] = "output" /\ tasks[i] \notin running
  /\ \A i, j \in DOMAIN tasks : tasks[i] = tasks[j] => i = j
  /\ \A l \in running : at[l] = "output" /\ \A k \in running : k = l

\* The batch in memory has the blobs of its events, event by event.
BlobsInMemory(products, events) ==
  /\ Len(products) = Len(events) * AppendedProducts
  /\ \A j \in 1..Len(events), p \in Appender!Products :
       products[(j - 1) * AppendedProducts + p + 1] = Appender!Blob(events[j], p)

MemoryIsRight == ~closed => BlobsInMemory(products_, events_)

\* What was output is in the file or, behind it, in memory; every event taken was
\* output or is with a lane.
OrderOfOutput ==
  /\ order = IF closed THEN ids ELSE ids \o events_
  /\ next = Len(order) + Cardinality(WithEvent)
  /\ closed => next = AppendedEvents /\ WithEvent = {}
  /\ order # <<>> => runAttribute = Appender!RunOf(order[1])

\* A table of ends cuts a dataset into the blobs of the events, with nothing left
\* over: the end of an event is where the next one begins.
EndAt(table, i) == IF i = 0 THEN 0 ELSE table[i]

CutsOf(dataset, table, total, events, p) ==
  /\ Len(table) = Len(events) /\ Len(dataset) = total
  /\ total = EndAt(table, Len(events))
  /\ \A i \in 1..Len(events) :
       /\ table[i] = EndAt(table, i - 1) + Len(Appender!Blob(events[i], p))
       /\ table[i] <= Len(dataset)
       /\ \A q \in 1..Len(Appender!Blob(events[i], p)) :
            dataset[EndAt(table, i - 1) + q] = Appender!Blob(events[i], p)[q]

FileIsCut ==
  /\ batches = 0 => ids = <<>>
  /\ Appender!AppendsBehind =>
       \A p \in Appender!Products : CutsOf(datasets[p], ends[p], offsets_[p], ids, p)

AppenderInv == /\ AppenderTypes
               /\ LanesHoldBlobs /\ OutputsWait
               /\ MemoryIsRight /\ OrderOfOutput /\ FileIsCut

LEMMA AppenderInitHolds == ASSUME AppenderParameters PROVE Appender!Init => AppenderInv
<1> SUFFICES ASSUME Appender!Init PROVE AppenderInv
  OBVIOUS
<1> USE DEF Appender!Init, AppenderParameters
<1>1. AppenderTypes
  <2>0. Len(products_) = batch_ * AppendedProducts /\ batch_ = Len(events_)
    <3>1. 0 * AppendedProducts = 0 /\ Len(<<>>) = 0
      OBVIOUS
    <3>2. QED
      BY <3>1
  <2>1. size \in [Appender!Events -> Nat] /\ method \in Appender!Methods /\
          next \in 0..AppendedEvents
    <3>1. size \in [Appender!Events -> AppendedSizes] /\ AppendedSizes \subseteq Nat
      OBVIOUS
    <3>2. size \in [Appender!Events -> Nat]
      BY <3>1
    <3>3. next \in 0..AppendedEvents
      OBVIOUS
    <3>4. QED
      BY <3>2, <3>3
  <2>2. blobs \in [Appender!Lanes -> [Appender!Products -> Seq(Octets)]] /\
          datasets \in [Appender!Products -> Seq(Octets)]
    OBVIOUS
  <2>3. products_ \in Seq(Seq(Octets)) /\ ends \in [Appender!Products -> Seq(Nat)]
    OBVIOUS
  <2>4. /\ lanesEvent \in [Appender!Lanes -> Appender!Events \cup {Appender!None}]
        /\ at \in [Appender!Lanes -> {"next", "products", "output"}]
        /\ offsets_ \in [Appender!Products -> Nat]
    OBVIOUS
  <2>5. tasks \in Seq(Appender!Lanes) /\ events_ \in Seq(Appender!Events) /\
          ids \in Seq(Appender!Events)
    OBVIOUS
  <2>6. order \in Seq(Appender!Events) /\ running \subseteq Appender!Lanes /\ batches \in Nat
    OBVIOUS
  <2>7. QED
    BY <2>0, <2>1, <2>2, <2>3, <2>4, <2>5, <2>6 DEF AppenderTypes
<1>2. WithEvent = {} /\ LanesHoldBlobs /\ OutputsWait
  BY DEF WithEvent, LanesHoldBlobs, OutputsWait
<1>3. MemoryIsRight
  BY DEF MemoryIsRight, BlobsInMemory
<1>4. OrderOfOutput
  <2>1. <<>> \o <<>> = <<>>
    OBVIOUS
  <2>2. Cardinality({}) = 0
    BY FS_EmptySet
  <2>3. QED
    BY <1>2, <2>1, <2>2 DEF OrderOfOutput
<1>5. FileIsCut
  BY DEF FileIsCut, CutsOf, EndAt
<1>6. QED
  BY <1>1, <1>2, <1>3, <1>4, <1>5 DEF AppenderInv

\* What the serializer makes of a data product are bytes.
LEMMA BlobIsBytes ==
  ASSUME AppenderParameters, AppenderTypes, NEW e \in Appender!Events,
         NEW p \in Appender!Products
  PROVE  Appender!Blob(e, p) \in Seq(Octets) /\ Len(Appender!Blob(e, p)) \in Nat
<1>1. size[e] \in Nat
  BY DEF AppenderTypes
<1>2. \A i \in 1..size[e] : <<e, p, i>> \in Octets
  BY <1>1 DEF Octets
<1>3. QED
  BY <1>1, <1>2 DEF Appender!Blob

\* The parts at the beginning of a sequence, and at its end.
LEMMA FirstPart ==
  ASSUME NEW V, NEW s \in Seq(V), NEW t \in Seq(V), NEW i \in 1..Len(s)
  PROVE  (s \o t)[i] = s[i] /\ i \in 1..Len(s \o t)
<1>1. Len(s) \in Nat /\ Len(t) \in Nat /\ Len(s \o t) = Len(s) + Len(t)
  OBVIOUS
<1>2. i \in 1..(Len(s) + Len(t)) /\ i <= Len(s)
  BY <1>1
<1>3. QED
  BY <1>1, <1>2, ConcatProperties

LEMMA SecondPart ==
  ASSUME NEW V, NEW s \in Seq(V), NEW t \in Seq(V), NEW i \in 1..Len(t)
  PROVE  (s \o t)[Len(s) + i] = t[i]
<1>1. Len(s) \in Nat /\ Len(t) \in Nat
  OBVIOUS
<1>2. Len(s) + i \in 1..(Len(s) + Len(t)) /\ ~ (Len(s) + i <= Len(s))
  BY <1>1, Behind
<1>3. Len(s) + i - Len(s) = i
  BY <1>1
<1>4. QED
  BY <1>2, <1>3, ConcatProperties

\* Where the bytes of the events end, once those of more are put behind the others:
\* f[j] has the first j of them.
Behinds(table, sizes, total, f, n, m) ==
  /\ Len(table \o sizes) = n + m
  /\ \A i \in 0..n : EndAt(table \o sizes, i) = EndAt(table, i)
  /\ \A j \in 0..m : EndAt(table \o sizes, n + j) = total + Len(f[j])

LEMMA EndsOfMore ==
  ASSUME NEW table \in Seq(Nat), NEW sizes \in Seq(Nat), NEW total \in Nat, NEW f,
         total = EndAt(table, Len(table)), Len(f[0]) = 0,
         \A j \in 1..Len(sizes) : sizes[j] = total + Len(f[j])
  PROVE  Behinds(table, sizes, total, f, Len(table), Len(sizes))
<1>1. PICK n \in Nat, m \in Nat : n = Len(table) /\ m = Len(sizes)
  OBVIOUS
<1>2. Len(table \o sizes) = n + m
  BY <1>1
<1>3. ASSUME NEW i \in 0..n PROVE EndAt(table \o sizes, i) = EndAt(table, i)
  <2>1. i # 0 => (table \o sizes)[i] = table[i]
    BY <1>1, FirstPart
  <2>2. QED
    BY <2>1 DEF EndAt
<1>4. ASSUME NEW j \in 0..m PROVE EndAt(table \o sizes, n + j) = total + Len(f[j])
  <2>1. CASE j = 0
    <3>1. n + j = n /\ n \in 0..n
      BY <2>1
    <3>2. EndAt(table \o sizes, n + j) = EndAt(table, n)
      BY <1>3, <3>1
    <3>3. QED
      BY <1>1, <2>1, <3>2
  <2>2. CASE j # 0
    <3>1. j \in 1..m /\ n + j # 0
      BY <2>2
    <3>2. (table \o sizes)[n + j] = sizes[j]
      BY <1>1, <3>1, SecondPart
    <3>3. QED
      BY <1>1, <3>1, <3>2 DEF EndAt
  <2>3. QED
    BY <2>1, <2>2
<1>5. QED
  BY <1>1, <1>2, <1>3, <1>4 DEF Behinds

\* Appending the blobs of more events, and where each of them ends, keeps the cuts.
LEMMA AppendCuts ==
  ASSUME AppenderParameters, AppenderTypes, NEW p \in Appender!Products,
         NEW dataset \in Seq(Octets), NEW table \in Seq(Nat), NEW total \in Nat,
         NEW events \in Seq(Appender!Events), NEW more \in Seq(Appender!Events), more # <<>>,
         CutsOf(dataset, table, total, events, p),
         NEW s \in Seq(Seq(Octets)), Len(s) = Len(more),
         \A j \in 1..Len(more) : s[j] = Appender!Blob(more[j], p),
         NEW sizes \in Seq(Nat), Len(sizes) = Len(more),
         \A j \in 1..Len(more) : sizes[j] = total + Len(Appender!FlattenSeq(SubSeq(s, 1, j)))
  PROVE  CutsOf(dataset \o Appender!FlattenSeq(s), table \o sizes, sizes[Len(sizes)], events \o more, p)
<1>1. PICK f : Joins(f, s, Octets)
  BY JoinExists
<1>2. PICK n \in Nat, m \in Nat :
        /\ n = Len(events) /\ n = Len(table) /\ m = Len(more) /\ m = Len(s) /\ m = Len(sizes)
        /\ m > 0
  BY DEF CutsOf
<1>3. /\ f[0] = <<>> /\ Len(f[0]) = 0
      /\ \A j \in 0..m : f[j] \in Seq(Octets) /\ Len(f[j]) \in Nat
      /\ Appender!FlattenSeq(s) = f[m]
  <2>1. f[0] = <<>> /\ \A j \in 0..Len(s) : f[j] \in Seq(Octets)
    BY <1>1, JoinFacts
  <2>2. Appender!FlattenSeq(s) = f[Len(s)]
    BY <1>1, FlattenJoins
  <2>3. QED
    BY SMTT(30), <1>2, <2>1, <2>2
<1>4. ASSUME NEW j \in 1..m PROVE sizes[j] = total + Len(f[j])
  <2>1. j \in 0..Len(s) /\ j \in 1..Len(more)
    BY <1>2
  <2>2. Appender!FlattenSeq(SubSeq(s, 1, j)) = f[j]
    BY <1>1, <2>1, JoinOfFirst
  <2>3. QED
    BY <2>1, <2>2
<1>5. Behinds(table, sizes, total, f, n, m)
  <2>1. total = EndAt(table, Len(table)) /\ Len(f[0]) = 0
    BY <1>2, <1>3 DEF CutsOf
  <2>2. QED
    BY <1>2, <1>4, <2>1, EndsOfMore
<1>6. PICK whole : whole = dataset \o f[m]
  OBVIOUS
<1>7. PICK new : new = table \o sizes
  OBVIOUS
<1>8. PICK all : all = events \o more
  OBVIOUS
<1>9. /\ Len(new) = n + m /\ Len(all) = n + m
      /\ Len(whole) = total + Len(f[m])
      /\ Len(dataset) = total
      /\ \A i \in 0..n : EndAt(new, i) = EndAt(table, i)
      /\ \A j \in 0..m : EndAt(new, n + j) = total + Len(f[j])
  <2>1. Len(dataset) = total
    BY DEF CutsOf
  <2>2. Len(all) = n + m
    <3>1. Len(events \o more) = Len(events) + Len(more)
      OBVIOUS
    <3>2. QED
      BY <1>2, <1>8, <3>1
  <2>3. Len(whole) = total + Len(f[m])
    <3>1. PICK u \in Seq(Octets) : u = f[m]
      <4>1. m \in 0..m
        BY <1>2
      <4>2. QED
        BY <1>3, <4>1
    <3>2. Len(dataset \o u) = Len(dataset) + Len(u)
      OBVIOUS
    <3>3. QED
      BY <1>6, <2>1, <3>1, <3>2
  <2>4. QED
    BY <1>5, <1>7, <2>1, <2>2, <2>3 DEF Behinds
<1>10. sizes[m] = EndAt(new, n + m) /\ Len(whole) = sizes[m]
  BY <1>2, <1>4, <1>9
<1> DEFINE Cut(i) == /\ new[i] = EndAt(new, i - 1) + Len(Appender!Blob(all[i], p))
                     /\ new[i] <= Len(whole)
                     /\ \A q \in 1..Len(Appender!Blob(all[i], p)) :
                          whole[EndAt(new, i - 1) + q] = Appender!Blob(all[i], p)[q]
<1>11. ASSUME NEW i \in 1..n PROVE Cut(i)
  <2>1. i \in 1..Len(events) /\ i # 0 /\ i - 1 \in 0..n /\ i \in 0..n
    BY <1>2
  <2>2. all[i] = events[i] /\ events[i] \in Appender!Events
    BY <1>8, <2>1, FirstPart
  <2>3. new[i] = table[i] /\ EndAt(new, i - 1) = EndAt(table, i - 1)
    BY <1>9, <2>1 DEF EndAt
  <2>4. PICK b \in Seq(Octets) : b = Appender!Blob(events[i], p) /\ Len(b) \in Nat
    BY <2>2, BlobIsBytes
  <2>5. /\ table[i] = EndAt(table, i - 1) + Len(b) /\ table[i] <= total
        /\ \A q \in 1..Len(b) : dataset[EndAt(table, i - 1) + q] = b[q]
    BY <1>9, <2>1, <2>4 DEF CutsOf
  <2>6. EndAt(table, i - 1) \in Nat
    <3>1. CASE i = 1
      BY <3>1 DEF EndAt
    <3>2. CASE i # 1
      <4>1. i - 1 \in 1..Len(table) /\ i - 1 # 0
        BY <1>2, <3>2
      <4>2. QED
        BY SMTT(30), <4>1 DEF EndAt
    <3>3. QED
      BY <3>1, <3>2
  <2>7. ASSUME NEW q \in 1..Len(b) PROVE whole[EndAt(table, i - 1) + q] = b[q]
    <3>1. EndAt(table, i - 1) + q \in 1..total
      <4>1. ASSUME NEW a \in Nat, NEW c \in Nat, a + c <= total, NEW d \in 1..c
            PROVE  a + d \in 1..total
        BY <4>1
      <4>2. QED
        BY <2>4, <2>5, <2>6, <4>1
    <3>2. EndAt(table, i - 1) + q \in 1..Len(dataset)
      BY <1>9, <3>1
    <3>3. whole[EndAt(table, i - 1) + q] = dataset[EndAt(table, i - 1) + q]
      BY <1>3, <1>6, <3>2, FirstPart
    <3>4. QED
      BY <2>5, <3>3
  <2>8. new[i] <= Len(whole)
    <3>1. ASSUME NEW a \in Nat, NEW c \in Nat, a <= total PROVE a <= total + c
      BY <3>1
    <3>2. table[i] \in Nat /\ Len(f[m]) \in Nat
      <4>1. m \in 0..m /\ i \in 1..Len(table)
        BY <1>2, <2>1
      <4>2. table[i] \in Nat
        BY <4>1
      <4>3. QED
        BY <1>3, <4>1, <4>2
    <3>3. QED
      BY <1>9, <2>3, <2>5, <3>1, <3>2
  <2>9. QED
    BY <2>2, <2>3, <2>4, <2>5, <2>7, <2>8
<1>12. ASSUME NEW j \in 1..m PROVE Cut(n + j)
  <2>1. n + j # 0 /\ j \in 0..m /\ j - 1 \in 0..m /\ n + j - 1 = n + (j - 1) /\ m \in j..Len(s)
    BY <1>2
  <2>2. all[n + j] = more[j] /\ more[j] \in Appender!Events
    <3>1. j \in 1..Len(more)
      BY <1>2
    <3>2. (events \o more)[Len(events) + j] = more[j]
      BY SMTT(30), <3>1, SecondPart
    <3>3. more[j] \in Appender!Events
      BY <3>1
    <3>4. QED
      BY <1>2, <1>8, <3>2, <3>3
  <2>3. new[n + j] = total + Len(f[j]) /\ EndAt(new, n + j - 1) = total + Len(f[j - 1])
    BY <1>9, <2>1 DEF EndAt
  <2>4. PICK b \in Seq(Octets) : b = Appender!Blob(more[j], p) /\ b = s[j] /\ Len(b) \in Nat
    BY <1>2, <2>2, BlobIsBytes
  <2>5. StandsIn(f, s, j, m)
    BY <1>1, <1>2, <2>1, JoinIsLonger
  <2>6. /\ Len(f[j]) = Len(f[j - 1]) + Len(b) /\ Len(f[j]) <= Len(f[m])
        /\ Len(f[j - 1]) \in Nat
        /\ \A q \in 1..Len(b) : f[m][Len(f[j - 1]) + q] = b[q]
    BY <2>4, <2>5 DEF StandsIn
  <2>7. ASSUME NEW q \in 1..Len(b) PROVE whole[total + Len(f[j - 1]) + q] = b[q]
    <3>1. Len(f[j - 1]) + q \in 1..Len(f[m])
      <4>1. ASSUME NEW a \in Nat, NEW c \in Nat, NEW g \in Nat, a + c <= g, NEW d \in 1..c
            PROVE  a + d \in 1..g
        BY <4>1
      <4>2. Len(f[j - 1]) + Len(b) <= Len(f[m]) /\ Len(f[m]) \in Nat
        BY <1>3, <2>6
      <4>3. QED
        BY <2>4, <2>6, <4>1, <4>2
    <3>2. whole[total + (Len(f[j - 1]) + q)] = f[m][Len(f[j - 1]) + q]
      <4>1. PICK u \in Seq(Octets), k \in Nat : u = f[m] /\ k = Len(f[j - 1]) + q
        <5>1. Len(f[j - 1]) + q \in Nat
          BY <3>1
        <5>2. m \in 0..m
          BY <1>2
        <5>3. QED
          BY <1>3, <5>1, <5>2
      <4>2. k \in 1..Len(u)
        BY <3>1, <4>1
      <4>3. whole[Len(dataset) + k] = u[k]
        <5>1. (dataset \o u)[Len(dataset) + k] = u[k]
          BY <4>2, SecondPart
        <5>2. QED
          BY <1>6, <4>1, <5>1
      <4>4. QED
        BY <1>9, <4>1, <4>3
    <3>3. total + Len(f[j - 1]) + q = total + (Len(f[j - 1]) + q)
      BY <2>6
    <3>4. QED
      BY <2>6, <3>2, <3>3
  <2>8. new[n + j] = EndAt(new, n + j - 1) + Len(b) /\ new[n + j] <= Len(whole)
    <3>1. ASSUME NEW a \in Nat, NEW c \in Nat PROVE total + (a + c) = total + a + c
      OBVIOUS
    <3>2. ASSUME NEW a \in Nat, NEW c \in Nat, a <= c PROVE total + a <= total + c
      BY <3>2
    <3>3. Len(f[j]) \in Nat /\ Len(f[m]) \in Nat
      <4>1. m \in 0..m
        BY <1>2
      <4>2. QED
        BY <1>3, <2>1, <4>1
    <3>4. new[n + j] = EndAt(new, n + j - 1) + Len(b)
      <4>1. total + (Len(f[j - 1]) + Len(b)) = total + Len(f[j - 1]) + Len(b)
        BY <2>4, <2>6, <3>1
      <4>2. QED
        BY <2>3, <2>6, <4>1
    <3>5. new[n + j] <= Len(whole)
      BY <1>9, <2>3, <2>6, <3>2, <3>3
    <3>6. QED
      BY <3>4, <3>5
  <2>9. \A q \in 1..Len(b) : whole[EndAt(new, n + j - 1) + q] = b[q]
    BY <2>3, <2>7
  <2>10. b = Appender!Blob(all[n + j], p)
    BY <2>2, <2>4
  <2>11. QED
    BY SMTT(30), <2>8, <2>9, <2>10
<1>13. \A i \in 1..(n + m) : Cut(i)
  <2>1. ASSUME NEW i \in 1..(n + m), i > n PROVE \E j \in 1..m : i = n + j
    <3>1. i - n \in 1..m /\ i = n + (i - n)
      BY <2>1
    <3>2. QED
      BY <3>1
  <2>2. ASSUME NEW i \in 1..(n + m), ~ (i > n) PROVE i \in 1..n
    BY <2>2
  <2> HIDE DEF Cut
  <2>3. QED
    BY <1>11, <1>12, <2>1, <2>2
<1>14. CutsOf(whole, new, sizes[m], all, p)
  BY <1>9, <1>10, <1>13 DEF CutsOf
<1>15. QED
  BY <1>2, <1>3, <1>6, <1>7, <1>8, <1>14

\* The place of a blob among those of the batch.
LEMMA PlaceOfBlob ==
  ASSUME NEW n \in Nat, NEW j \in 1..n, NEW k \in Nat, NEW p \in 0..(k - 1)
  PROVE  (j - 1) * k + p + 1 \in 1..(n * k) /\ (j - 1) * k \in Nat
<1>1. (j - 1) * k \in Nat /\ (j - 1) * k + k = j * k
  OBVIOUS
<1>2. j * k <= n * k
  <2>1. (n - j) * k \in Nat /\ n * k = j * k + (n - j) * k
    OBVIOUS
  <2>2. j * k \in Nat
    OBVIOUS
  <2>3. ASSUME NEW a \in Nat, NEW b \in Nat PROVE a <= a + b
    OBVIOUS
  <2>4. QED
    BY <2>1, <2>2, <2>3
<1>3. n * k \in Nat
  OBVIOUS
<1>4. ASSUME NEW a \in Nat, NEW b \in Nat, a + k <= b PROVE a + p + 1 \in 1..b
  BY <1>4
<1>5. QED
  BY <1>1, <1>2, <1>3, <1>4

\* What writeBatch collects for a data product are its blobs of the events.
LEMMA ProductsOfBatch ==
  ASSUME AppenderParameters, AppenderTypes, NEW p \in Appender!Products,
         NEW products \in Seq(Seq(Octets)), NEW events \in Seq(Appender!Events),
         BlobsInMemory(products, events)
  PROVE  /\ Appender!ProductsOf(products, p) \in Seq(Seq(Octets))
         /\ Len(Appender!ProductsOf(products, p)) = Len(events)
         /\ \A j \in 1..Len(events) : Appender!ProductsOf(products, p)[j] =
              Appender!Blob(events[j], p)
<1>1. PICK n \in Nat, k \in Nat \ {0} : n = Len(events) /\ k = AppendedProducts
  BY DEF AppenderParameters, Appender!Products
<1>2. Len(products) \div AppendedProducts = n
  <2>1. n * k \in Nat /\ (n * k) \div k = n
    OBVIOUS
  <2>2. QED
    BY <1>1, <2>1 DEF BlobsInMemory
<1>3. ASSUME NEW j \in 1..n
      PROVE  /\ products[(j - 1) * AppendedProducts + p + 1] = Appender!Blob(events[j], p)
             /\ Appender!Blob(events[j], p) \in Seq(Octets)
  BY <1>1, BlobIsBytes DEF BlobsInMemory
<1>4. Appender!ProductsOf(products, p) =
        [j \in 1..n |-> products[(j - 1) * AppendedProducts + p + 1]]
  BY <1>2 DEF Appender!ProductsOf
<1>5. QED
  BY <1>1, <1>3, <1>4

LEMMA FlattenIsSeq ==
  ASSUME NEW V, NEW s \in Seq(Seq(V))
  PROVE  Appender!FlattenSeq(s) \in Seq(V) /\
         \A j \in 0..Len(s) : Appender!FlattenSeq(SubSeq(s, 1, j)) \in Seq(V)
<1>1. PICK f : Joins(f, s, V)
  BY JoinExists
<1>2. Appender!FlattenSeq(s) = f[Len(s)] /\
        \A j \in 0..Len(s) : Appender!FlattenSeq(SubSeq(s, 1, j)) = f[j]
  BY <1>1, FlattenJoins, JoinOfFirst
<1>3. Len(s) \in 0..Len(s) /\ \A j \in 0..Len(s) : f[j] \in Seq(V)
  <2>1. Len(s) \in Nat
    OBVIOUS
  <2>2. QED
    <3>1. \A j \in 0..Len(s) : f[j] \in Seq(V)
      BY <1>1, JoinFacts
    <3>2. QED
      BY <2>1, <3>1
<1>4. QED
  BY <1>2, <1>3

LEMMA SizesOfBatch ==
  ASSUME AppenderParameters, AppenderTypes, NEW p \in Appender!Products,
         NEW products \in Seq(Seq(Octets)), NEW n \in Nat,
         Appender!ProductsOf(products, p) \in Seq(Seq(Octets)),
           Len(Appender!ProductsOf(products, p)) = n
  PROVE  /\ Appender!SizesOf(products, p) \in Seq(Nat) /\ Len(Appender!SizesOf(products, p)) = n
         /\ \A j \in 1..n : Appender!SizesOf(products, p)[j] =
              offsets_[p] + Len(Appender!FlattenSeq(SubSeq(Appender!ProductsOf(products, p), 1, j)))
<1>1. PICK s \in Seq(Seq(Octets)) : s = Appender!ProductsOf(products, p) /\ Len(s) = n
  OBVIOUS
<1>2. Appender!SizesOf(products, p) =
        [j \in 1..n |-> offsets_[p] + Len(Appender!FlattenSeq(SubSeq(s, 1, j)))]
  BY <1>1 DEF Appender!SizesOf
<1>3. ASSUME NEW j \in 1..n PROVE offsets_[p] + Len(Appender!FlattenSeq(SubSeq(s, 1, j))) \in
               Nat
  <2>1. Appender!FlattenSeq(SubSeq(s, 1, j)) \in Seq(Octets)
    BY <1>1, FlattenIsSeq
  <2>2. Len(Appender!FlattenSeq(SubSeq(s, 1, j))) \in Nat /\ offsets_[p] \in Nat
    BY <2>1 DEF AppenderTypes
  <2>3. QED
    BY <2>2
<1>4. QED
  BY <1>1, <1>2, <1>3

\* An empty dataset is written from its start, and any other is extended.
LEMMA AppendedTo ==
  ASSUME NEW V, NEW d \in Seq(V), NEW data \in Seq(V)
  PROVE  /\ Appender!AppendTo(d, data) \in Seq(V)
         /\ (method = "multidataset" => d = <<>>) => Appender!AppendTo(d, data) = d \o data
<1>1. SubSeq(d, Len(data) + 1, Len(d)) \in Seq(V)
  <2>1. Len(data) + 1 \in Int /\ Len(d) \in Int
    OBVIOUS
  <2>2. \A i \in (Len(data) + 1)..Len(d) : d[i] \in V
    OBVIOUS
  <2>3. QED
    BY <2>1, <2>2, SubSeqProperties
<1>2. d = <<>> => Appender!WriteFromStart(d, data) = d \o data
  <2>1. SUFFICES ASSUME d = <<>> PROVE Appender!WriteFromStart(d, data) = d \o data
    OBVIOUS
  <2>2. SubSeq(d, Len(data) + 1, Len(d)) = <<>>
    <3>1. Len(SubSeq(d, Len(data) + 1, Len(d))) = 0
      <4>1. Len(data) + 1 \in Int /\ Len(d) \in Int /\ ~ (Len(data) + 1 <= Len(d))
        BY <2>1
      <4>2. \A i \in (Len(data) + 1)..Len(d) : d[i] \in V
        OBVIOUS
      <4>3. QED
        BY <4>1, <4>2, SubSeqProperties
    <3>2. QED
      BY <1>1, <3>1
  <2>3. data \o <<>> = data /\ <<>> \o data = data
    OBVIOUS
  <2>4. QED
    BY <2>1, <2>2, <2>3 DEF Appender!WriteFromStart
<1>3. QED
  BY <1>1, <1>2 DEF Appender!AppendTo, Appender!Extend, Appender!WriteFromStart

\* A batch is written: what the file has of it is behind what it had, unless the
\* multi-dataset plug-in has written before.
LEMMA WriteKeeps ==
  ASSUME AppenderParameters, AppenderTypes, FileIsCut,
         NEW products \in Seq(Seq(Octets)), NEW events \in Seq(Appender!Events), events # <<>>,
         BlobsInMemory(products, events),
         UNCHANGED <<method, size>>, Appender!WriteBatch(products, events)
  PROVE  /\ FileIsCut'
         /\ ids' = ids \o events /\ ids' \in Seq(Appender!Events)
         /\ datasets' \in [Appender!Products -> Seq(Octets)]
         /\ ends' \in [Appender!Products -> Seq(Nat)]
         /\ offsets_' \in [Appender!Products -> Nat] /\ batches' \in Nat
<1>1. /\ ids' = ids \o events /\ ids' \in Seq(Appender!Events)
      /\ batches' = batches + 1 /\ batches \in Nat
  BY DEF Appender!WriteBatch, Appender!Extend, AppenderTypes
<1>2. PICK n \in Nat : n = Len(events) /\ n > 0
  OBVIOUS
<1>3. ASSUME NEW p \in Appender!Products
      PROVE  /\ Appender!ProductsOf(products, p) \in Seq(Seq(Octets))
             /\ Len(Appender!ProductsOf(products, p)) = n
             /\ \A j \in 1..n : Appender!ProductsOf(products, p)[j] =
                  Appender!Blob(events[j], p)
             /\ Appender!SizesOf(products, p) \in Seq(Nat)
             /\ Len(Appender!SizesOf(products, p)) = n
             /\ \A j \in 1..n : Appender!SizesOf(products, p)[j] =
                  offsets_[p] + Len(Appender!FlattenSeq(SubSeq(Appender!ProductsOf(products, p), 1, j)))
             /\ Appender!FlattenSeq(Appender!ProductsOf(products, p)) \in Seq(Octets)
             /\ datasets[p] \in Seq(Octets) /\ ends[p] \in Seq(Nat) /\ offsets_[p] \in Nat
  <2>1. /\ Appender!ProductsOf(products, p) \in Seq(Seq(Octets))
        /\ Len(Appender!ProductsOf(products, p)) = n
        /\ \A j \in 1..n : Appender!ProductsOf(products, p)[j] = Appender!Blob(events[j], p)
    BY <1>2, ProductsOfBatch
  <2>2. /\ Appender!SizesOf(products, p) \in Seq(Nat) /\ Len(Appender!SizesOf(products, p)) = n
        /\ \A j \in 1..n : Appender!SizesOf(products, p)[j] =
             offsets_[p] + Len(Appender!FlattenSeq(SubSeq(Appender!ProductsOf(products, p), 1, j)))
    BY <2>1, SizesOfBatch
  <2>3. Appender!FlattenSeq(Appender!ProductsOf(products, p)) \in Seq(Octets)
    BY <2>1, FlattenIsSeq
  <2>4. datasets[p] \in Seq(Octets) /\ ends[p] \in Seq(Nat) /\ offsets_[p] \in Nat
    BY DEF AppenderTypes
  <2>5. QED
    BY <2>1, <2>2, <2>3, <2>4
<1>4. ASSUME NEW p \in Appender!Products PROVE products # <<>>
  <2>1. PICK k \in Nat \ {0} : k = AppendedProducts
    BY DEF AppenderParameters, Appender!Products
  <2>2. n * k # 0
    BY <1>2
  <2>3. QED
    BY <1>2, <2>1, <2>2 DEF BlobsInMemory
<1>5. ASSUME NEW p \in Appender!Products
      PROVE  /\ datasets'[p] =
                  Appender!AppendTo(datasets[p], Appender!FlattenSeq(Appender!ProductsOf(products, p)))
             /\ ends'[p] = Appender!AppendTo(ends[p], Appender!SizesOf(products, p))
             /\ offsets_'[p] = Appender!SizesOf(products, p)[Len(Appender!SizesOf(products, p))]
  BY <1>4 DEF Appender!WriteBatch, Appender!Last
<1>6. /\ datasets' \in [Appender!Products -> Seq(Octets)]
      /\ ends' \in [Appender!Products -> Seq(Nat)]
      /\ offsets_' \in [Appender!Products -> Nat]
  <2>1. ASSUME NEW p \in Appender!Products
        PROVE  datasets'[p] \in Seq(Octets) /\ ends'[p] \in Seq(Nat) /\ offsets_'[p] \in Nat
    <3>1. datasets'[p] \in Seq(Octets) /\ ends'[p] \in Seq(Nat)
      <4>1. Appender!AppendTo(datasets[p], Appender!FlattenSeq(Appender!ProductsOf(products, p))) \in Seq(Octets)
        BY <1>3, AppendedTo
      <4>2. Appender!AppendTo(ends[p], Appender!SizesOf(products, p)) \in Seq(Nat)
        BY <1>3, AppendedTo
      <4>3. QED
        BY <1>5, <4>1, <4>2
    <3>2. n \in 1..Len(Appender!SizesOf(products, p))
      BY <1>2, <1>3
    <3>3. Appender!SizesOf(products, p)[n] \in Nat
      BY <1>3, <3>2
    <3>4. QED
      BY <1>3, <1>5, <3>1, <3>3
  <2>2. /\ DOMAIN datasets' = Appender!Products
        /\ datasets' = [p \in Appender!Products |-> datasets'[p]]
        /\ DOMAIN ends' = Appender!Products /\ ends' = [p \in Appender!Products |-> ends'[p]]
        /\ DOMAIN offsets_' = Appender!Products
        /\ offsets_' = [p \in Appender!Products |-> offsets_'[p]]
    BY DEF Appender!WriteBatch
  <2>3. QED
    BY <2>1, <2>2
<1>7. ASSUME Appender!AppendsBehind', NEW p \in Appender!Products
      PROVE  CutsOf(datasets[p], ends[p], offsets_[p], ids, p)'
  <2>1. Appender!AppendsBehind /\ (method = "multidataset" => batches = 0)
    BY <1>1, <1>7 DEF Appender!AppendsBehind
  <2>2. CutsOf(datasets[p], ends[p], offsets_[p], ids, p)
    BY <2>1 DEF FileIsCut
  <2>3. method = "multidataset" => datasets[p] = <<>> /\ ends[p] = <<>>
    <3>1. SUFFICES ASSUME method = "multidataset" PROVE datasets[p] = <<>> /\ ends[p] = <<>>
      OBVIOUS
    <3>2. ids = <<>>
      BY <2>1, <3>1 DEF FileIsCut
    <3>3. Len(ids) = 0
      BY <3>2
    <3>4. Len(ends[p]) = 0 /\ Len(datasets[p]) = 0
      BY <2>2, <3>3 DEF CutsOf, EndAt
    <3>5. QED
      BY <1>3, <3>4
  <2>4. PICK dataset \in Seq(Octets), table \in Seq(Nat), total \in Nat :
          dataset = datasets[p] /\ table = ends[p] /\ total = offsets_[p]
    BY <1>3
  <2>5. PICK s \in Seq(Seq(Octets)), sizes \in Seq(Nat) :
          s = Appender!ProductsOf(products, p) /\ sizes = Appender!SizesOf(products, p)
    BY <1>3
  <2>6. /\ datasets'[p] = dataset \o Appender!FlattenSeq(s) /\ ends'[p] = table \o sizes
        /\ offsets_'[p] = sizes[Len(sizes)]
    BY ZenonT(30), <1>3, <1>5, <2>3, <2>4, <2>5, AppendedTo
  <2>7. ids \in Seq(Appender!Events) /\ CutsOf(dataset, table, total, ids, p)
    BY <2>2, <2>4 DEF AppenderTypes
  <2>8. /\ Len(s) = Len(events) /\ Len(sizes) = Len(events)
        /\ \A j \in 1..Len(events) : s[j] = Appender!Blob(events[j], p)
        /\ \A j \in 1..Len(events) : sizes[j] =
             total + Len(Appender!FlattenSeq(SubSeq(s, 1, j)))
    BY <1>2, <1>3, <2>4, <2>5
  <2>9. CutsOf(dataset \o Appender!FlattenSeq(s), table \o sizes, sizes[Len(sizes)], ids \o events, p)
    BY <2>7, <2>8, AppendCuts
  <2>10. CutsOf(datasets'[p], ends'[p], offsets_'[p], ids', p)
    BY <1>1, <2>6, <2>9
  <2>11. size' = size
    OBVIOUS
  <2>12. QED
    BY <2>10, <2>11 DEF CutsOf, EndAt, Appender!Blob
<1>8. FileIsCut'
  <2>1. batches' # 0
    BY <1>1
  <2>2. QED
    BY <1>7, <2>1 DEF FileIsCut
<1>9. QED
  BY <1>1, <1>6, <1>8

----------------------------------------------------------------------------
\* What a step that touches neither the file nor the memory leaves as it is.
LEMMA MemoryStays ==
  ASSUME MemoryIsRight, UNCHANGED <<size, products_, events_>>, closed' = FALSE => ~closed
  PROVE  MemoryIsRight'
BY DEF MemoryIsRight, BlobsInMemory, Appender!Blob

LEMMA FileStays ==
  ASSUME FileIsCut, UNCHANGED <<method, size, Appender!file, offsets_>>
  PROVE  FileIsCut'
<1>1. ASSUME NEW p \in Appender!Products, CutsOf(datasets[p], ends[p], offsets_[p], ids, p)
      PROVE  CutsOf(datasets[p], ends[p], offsets_[p], ids, p)'
  <2>1. UNCHANGED <<size, datasets, ends, offsets_, ids>>
    BY DEF Appender!file
  <2>2. QED
    <3>1. CutsOf(datasets'[p], ends'[p], offsets_'[p], ids', p)
      BY <1>1, <2>1
    <3>2. size' = size
      OBVIOUS
    <3>3. QED
      BY ZenonT(30), <3>1, <3>2 DEF CutsOf, EndAt, Appender!Blob
<1>2. Appender!AppendsBehind' = Appender!AppendsBehind /\ batches' = batches /\ ids' = ids
  BY DEF Appender!file, Appender!AppendsBehind
<1>3. QED
  BY <1>1, <1>2 DEF FileIsCut

LEMMA WithEventFinite ==
  ASSUME AppenderParameters
  PROVE  IsFiniteSet(WithEvent) /\ Cardinality(WithEvent) \in Nat
<1>1. IsFiniteSet(Appender!Lanes)
  BY FS_Interval DEF Appender!Lanes, AppenderParameters
<1>2. WithEvent \subseteq Appender!Lanes
  BY DEF WithEvent
<1>3. QED
  BY <1>1, <1>2, FS_Subset, FS_CardinalityType

\* A lane takes the next event, which is in no other place.
LEMMA TakeEventKeeps ==
  ASSUME AppenderParameters, AppenderInv, NEW l \in Appender!Lanes, Appender!TakeEvent(l)
  PROVE  AppenderInv'
<1> USE DEF AppenderInv
<1>1. /\ at[l] = "next" /\ at' = [at EXCEPT ![l] = "products"]
      /\ next < AppendedEvents /\ next' = next + 1
      /\ lanesEvent' = [lanesEvent EXCEPT ![l] = next]
      /\ UNCHANGED <<method, size, blobs, tasks, running, Appender!memory, products_, events_,
                     batch_,
                     offsets_, Appender!file, datasets, ends, ids, runAttribute, batches,
                     runEnd,
                     order, closed>>
  BY DEF Appender!TakeEvent, Appender!Goto, Appender!parameters, Appender!queue,
         Appender!memory, Appender!file
<1>2. next \in Appender!Events /\ next' \in 0..AppendedEvents /\ ~closed
  BY SMTT(30), <1>1 DEF AppenderTypes, AppenderParameters, Appender!Events, OrderOfOutput
<1>3. AppenderTypes'
  <2>1. lanesEvent' \in [Appender!Lanes -> Appender!Events \cup {Appender!None}]
    BY <1>1, <1>2 DEF AppenderTypes
  <2>2. at' \in [Appender!Lanes -> {"next", "products", "output"}]
    BY <1>1 DEF AppenderTypes
  <2>3. QED
    BY <1>1, <1>2, <2>1, <2>2 DEF AppenderTypes
<1>4. LanesHoldBlobs'
  <2>1. \A k \in Appender!Lanes : k # l => lanesEvent'[k] = lanesEvent[k] /\ at'[k] = at[k]
    BY <1>1 DEF AppenderTypes
  <2>2. lanesEvent'[l] \in Appender!Events /\ at'[l] = "products"
    BY <1>1, <1>2 DEF AppenderTypes
  <2>3. \A k \in WithEvent' : lanesEvent'[k] \in Appender!Events
    BY <2>1, <2>2 DEF LanesHoldBlobs, WithEvent
  <2>4. ASSUME NEW k \in Appender!Lanes, at'[k] = "output", NEW p \in Appender!Products
        PROVE  blobs'[k][p] = Appender!Blob(lanesEvent[k], p)'
    <3>1. k # l /\ at[k] = "output" /\ lanesEvent'[k] = lanesEvent[k]
      BY <2>1, <2>2, <2>4
    <3>2. blobs[k][p] = Appender!Blob(lanesEvent[k], p)
      BY <3>1 DEF LanesHoldBlobs
    <3>3. QED
      BY <1>1, <3>1, <3>2 DEF Appender!Blob
  <2>5. QED
    BY <2>3, <2>4 DEF LanesHoldBlobs
<1>5. OutputsWait'
  BY <1>1 DEF OutputsWait, AppenderTypes
<1>6. MemoryIsRight'
  BY <1>1, MemoryStays
<1>7. OrderOfOutput'
  <2>1. WithEvent' = WithEvent \cup {l} /\ l \notin WithEvent
    BY <1>1 DEF WithEvent, AppenderTypes
  <2>2. Cardinality(WithEvent \cup {l}) = Cardinality(WithEvent) + 1
    BY <2>1, WithEventFinite, FS_AddElement
  <2>3. next = Len(order) + Cardinality(WithEvent) /\ Len(order) \in Nat
    BY DEF OrderOfOutput, AppenderTypes
  <2>4. next' = Len(order) + Cardinality(WithEvent')
    BY <1>1, <2>1, <2>2, <2>3, WithEventFinite
  <2>5. order # <<>> => runAttribute = Appender!RunOf(order[1])
    BY DEF OrderOfOutput
  <2>6. QED
    BY <1>1, <1>2, <2>4, <2>5 DEF OrderOfOutput, Appender!RunOf
<1>8. FileIsCut'
  BY <1>1, FileStays
<1>9. QED
  BY <1>3, <1>4, <1>5, <1>6, <1>7, <1>8

\* The serializers of the lane are given its event, and the output is queued.
LEMMA OutputAsyncKeeps ==
  ASSUME AppenderParameters, AppenderInv, NEW l \in Appender!Lanes, Appender!OutputAsync(l)
  PROVE  AppenderInv'
<1> USE DEF AppenderInv
<1>1. /\ at[l] = "products" /\ at' = [at EXCEPT ![l] = "output"]
      /\ blobs' = [blobs EXCEPT ![l] = [p \in Appender!Products |-> Appender!Blob(lanesEvent[l], p)]]
      /\ tasks' = Append(tasks, l)
      /\ UNCHANGED <<method, size, next, lanesEvent, running, products_, events_, batch_,
                     offsets_, Appender!file, datasets, ends, ids, runAttribute, batches,
                     runEnd,
                     order, closed>>
  BY DEF Appender!OutputAsync, Appender!Goto, Appender!Queue!Submit, Appender!parameters,
         Appender!memory, Appender!file
<1>2. lanesEvent[l] \in Appender!Events
  BY <1>1 DEF LanesHoldBlobs, WithEvent
<1>3. AppenderTypes'
  <2>1. [p \in Appender!Products |-> Appender!Blob(lanesEvent[l], p)] \in
          [Appender!Products -> Seq(Octets)]
    BY <1>2, BlobIsBytes
  <2>2. blobs' \in [Appender!Lanes -> [Appender!Products -> Seq(Octets)]]
    BY <1>1, <2>1 DEF AppenderTypes
  <2>3. at' \in [Appender!Lanes -> {"next", "products", "output"}] /\
          tasks' \in Seq(Appender!Lanes)
    BY <1>1 DEF AppenderTypes
  <2>4. QED
    BY <1>1, <2>2, <2>3 DEF AppenderTypes
<1>4. LanesHoldBlobs'
  <2>1. \A k \in Appender!Lanes : k # l => blobs'[k] = blobs[k] /\ at'[k] = at[k]
    BY <1>1 DEF AppenderTypes
  <2>2. \A p \in Appender!Products : blobs'[l][p] = Appender!Blob(lanesEvent[l], p)
    BY <1>1 DEF AppenderTypes
  <2>3. at'[l] = "output"
    BY <1>1 DEF AppenderTypes
  <2>4. \A k \in WithEvent' : lanesEvent'[k] \in Appender!Events
    BY <1>1, <1>2, <2>1 DEF LanesHoldBlobs, WithEvent
  <2>5. ASSUME NEW k \in Appender!Lanes, at'[k] = "output", NEW p \in Appender!Products
        PROVE  blobs'[k][p] = Appender!Blob(lanesEvent[k], p)'
    <3>1. CASE k = l
      BY <1>1, <2>2, <3>1 DEF Appender!Blob
    <3>2. CASE k # l
      <4>1. blobs[k][p] = Appender!Blob(lanesEvent[k], p) /\ blobs'[k] = blobs[k]
        BY <2>1, <2>5, <3>2 DEF LanesHoldBlobs
      <4>2. QED
        BY <1>1, <4>1 DEF Appender!Blob
    <3>3. QED
      BY <3>1, <3>2
  <2>6. QED
    BY <2>4, <2>5 DEF LanesHoldBlobs
<1>5. OutputsWait'
  <2>1. PICK n \in Nat : n = Len(tasks)
    BY DEF AppenderTypes
  <2>2. /\ DOMAIN tasks = 1..n /\ DOMAIN tasks' = 1..(n + 1)
        /\ tasks'[n + 1] = l /\ \A i \in 1..n : tasks'[i] = tasks[i]
    BY <1>1, <2>1 DEF AppenderTypes
  <2>3. \A i \in 1..n : tasks[i] \in Appender!Lanes /\ at[tasks[i]] = "output" /\
          tasks[i] \notin running
    <3>1. tasks \in Seq(Appender!Lanes)
      BY DEF AppenderTypes
    <3>2. \A i \in 1..n : tasks[i] \in Appender!Lanes
      BY <2>1, <3>1
    <3>3. QED
      BY <2>2, <3>2 DEF OutputsWait
  <2>4. l \notin running /\ \A i \in 1..n : tasks[i] # l
    BY <1>1, <2>3 DEF OutputsWait
  <2>5. \A k \in Appender!Lanes : k # l => at'[k] = at[k]
    BY <1>1 DEF AppenderTypes
  <2>6. at'[l] = "output"
    BY <1>1 DEF AppenderTypes
  <2>7. \A i \in DOMAIN tasks' : i \in 1..n \/ i = n + 1
    BY <2>2
  <2>8. \A i \in DOMAIN tasks' : at'[tasks'[i]] = "output" /\ tasks'[i] \notin running
    BY <2>2, <2>3, <2>4, <2>5, <2>6, <2>7
  <2>9. \A i, j \in DOMAIN tasks' : tasks'[i] = tasks'[j] => i = j
    BY <2>2, <2>4, <2>7 DEF OutputsWait
  <2>10. \A k \in running : at'[k] = "output" /\ \A j \in running : j = k
    BY <2>4, <2>5 DEF OutputsWait, AppenderTypes
  <2>11. QED
    BY <1>1, <2>8, <2>9, <2>10 DEF OutputsWait
<1>6. MemoryIsRight'
  BY <1>1, MemoryStays
<1>7. OrderOfOutput'
  <2>1. WithEvent' = WithEvent
    BY <1>1 DEF WithEvent, AppenderTypes
  <2>2. QED
    BY <1>1, <2>1 DEF OrderOfOutput, Appender!RunOf
<1>8. FileIsCut'
  BY <1>1, FileStays
<1>9. QED
  BY <1>3, <1>4, <1>5, <1>6, <1>7, <1>8

\* The oldest output begins.
LEMMA StartOutputKeepsBatch ==
  ASSUME AppenderParameters, AppenderInv, Appender!StartOutput
  PROVE  AppenderInv'
<1> USE DEF AppenderInv
<1>1. /\ running = {} /\ tasks # <<>>
      /\ running' = {Head(tasks)} /\ tasks' = Tail(tasks)
      /\ UNCHANGED <<method, size, next, lanesEvent, at, blobs, products_, events_, batch_,
                     offsets_, Appender!file, datasets, ends, ids, runAttribute, batches,
                     runEnd,
                     order, closed>>
  BY DEF Appender!StartOutput, Appender!Queue!Begin, Appender!parameters, Appender!lanes,
         Appender!memory, Appender!file
<1>2. PICK n \in Nat : n = Len(tasks) /\ n > 0
  BY <1>1 DEF AppenderTypes
<1>3. /\ DOMAIN tasks = 1..n /\ DOMAIN tasks' = 1..(n - 1)
      /\ Head(tasks) = tasks[1] /\ \A i \in 1..(n - 1) : tasks'[i] = tasks[i + 1]
      /\ \A i \in 1..n : tasks[i] \in Appender!Lanes
  BY <1>1, <1>2 DEF AppenderTypes
<1>4. AppenderTypes'
  <2>1. tasks' \in Seq(Appender!Lanes) /\ running' \subseteq Appender!Lanes
    BY <1>1, <1>2, <1>3 DEF AppenderTypes
  <2>2. QED
    BY <1>1, <2>1 DEF AppenderTypes
<1>5. LanesHoldBlobs' /\ OrderOfOutput'
  BY <1>1 DEF LanesHoldBlobs, OrderOfOutput, WithEvent, Appender!Blob, Appender!RunOf
<1>6. OutputsWait'
  <2>1. \A i, j \in 1..n : tasks[i] = tasks[j] => i = j
    BY <1>3 DEF OutputsWait
  <2>2. \A i \in 1..n : at[tasks[i]] = "output"
    BY <1>3 DEF OutputsWait
  <2>3. \A i \in 1..(n - 1) : i + 1 \in 1..n /\ i + 1 # 1 /\ 1 \in 1..n
    BY <1>2
  <2>4. \A i \in 1..(n - 1) : at[tasks'[i]] = "output" /\ tasks'[i] # tasks[1]
    BY <1>3, <2>1, <2>2, <2>3
  <2>5. \A i, j \in 1..(n - 1) : tasks'[i] = tasks'[j] => i = j
    BY <1>3, <2>1, <2>3
  <2>6. at[tasks[1]] = "output"
    BY <1>2, <2>2
  <2>7. QED
    BY <1>1, <1>3, <2>4, <2>5, <2>6 DEF OutputsWait
<1>7. MemoryIsRight'
  BY <1>1, MemoryStays
<1>8. FileIsCut'
  BY <1>1, FileStays
<1>9. QED
  BY <1>4, <1>5, <1>6, <1>7, <1>8

\* The blobs of one more event are behind those of the others.
LEMMA MoreInMemory ==
  ASSUME AppenderParameters,
         NEW products \in Seq(Seq(Octets)), NEW events \in Seq(Appender!Events),
         BlobsInMemory(products, events), NEW e \in Appender!Events,
         NEW b \in Seq(Seq(Octets)), Len(b) = AppendedProducts,
         \A p \in Appender!Products : b[p + 1] = Appender!Blob(e, p)
  PROVE  BlobsInMemory(products \o b, Append(events, e))
<1>1. PICK n \in Nat, k \in Nat : n = Len(events) /\ k = AppendedProducts
  BY DEF AppenderParameters
<1>2. n * k \in Nat /\ (n + 1) * k = n * k + k /\ n + 1 - 1 = n
  OBVIOUS
<1>3. Len(products) = n * k /\ Len(b) = k
  BY <1>1 DEF BlobsInMemory
<1>4. Len(products \o b) = (n + 1) * k /\ Len(Append(events, e)) = n + 1
  <2>1. ASSUME NEW V, NEW s \in Seq(V), NEW t \in Seq(V) PROVE Len(s \o t) = Len(s) + Len(t)
    OBVIOUS
  <2>2. Len(products \o b) = Len(products) + Len(b)
    BY <2>1
  <2>3. QED
    BY <1>1, <1>2, <1>3, <2>2
<1>5. ASSUME NEW j \in 1..(n + 1), NEW p \in Appender!Products
      PROVE  (products \o b)[(j - 1) * k + p + 1] = Appender!Blob(Append(events, e)[j], p)
  <2>1. p \in 0..(k - 1) /\ p + 1 \in 1..k
    BY <1>1 DEF Appender!Products
  <2>2. CASE j \in 1..n
    <3>1. Append(events, e)[j] = events[j]
      BY <1>1, <2>2
    <3>2. (j - 1) * k + p + 1 \in 1..Len(products)
      BY <1>3, <2>1, <2>2, PlaceOfBlob
    <3>3. (products \o b)[(j - 1) * k + p + 1] = products[(j - 1) * k + p + 1]
      BY <3>2, FirstPart
    <3>4. QED
      BY <1>1, <2>2, <3>1, <3>3 DEF BlobsInMemory
  <2>3. CASE j = n + 1
    <3>1. Append(events, e)[j] = e
      BY <1>1, <2>3
    <3>2. (j - 1) * k + p + 1 = Len(products) + (p + 1)
      <4>1. (j - 1) * k = n * k
        BY <2>3
      <4>2. ASSUME NEW a \in Nat PROVE a + p + 1 = a + (p + 1)
        BY <2>1
      <4>3. QED
        BY <1>2, <1>3, <4>1, <4>2
    <3>3. (products \o b)[Len(products) + (p + 1)] = b[p + 1]
      BY <1>3, <2>1, SecondPart
    <3>4. QED
      BY <3>1, <3>2, <3>3
  <2>4. j \in 1..n \/ j = n + 1
    OBVIOUS
  <2>5. QED
    BY <2>2, <2>3, <2>4
<1>6. QED
  BY <1>1, <1>4, <1>5 DEF BlobsInMemory

LEMMA AppendBehind ==
  ASSUME NEW a \in Seq(Appender!Events), NEW b \in Seq(Appender!Events),
         NEW e \in Appender!Events
  PROVE  Append(a \o b, e) = a \o Append(b, e)
OBVIOUS

LEMMA PutTogether ==
  ASSUME NEW V, NEW a \in Seq(V), NEW b \in Seq(V), NEW e \in V
  PROVE  /\ (a \o b) \o <<>> = a \o b
         /\ Append(a, e) # <<>> /\ Len(Append(a, e)) = Len(a) + 1
         /\ (IF a = <<>> THEN e ELSE a[1]) = Append(a, e)[1]
         /\ Append(b, e) \in Seq(V)
OBVIOUS

\* output: the blobs of the lane are behind those in memory, or in the file with them.
LEMMA AccumulateKeeps ==
  ASSUME AppenderParameters, AppenderInv, ~closed, closed' = closed, NEW l \in Appender!Lanes,
         at[l] = "output", Appender!Accumulate(l), UNCHANGED <<method, size, runEnd>>,
         order' = Append(order, lanesEvent[l])
  PROVE  /\ MemoryIsRight' /\ FileIsCut'
         /\ order' = ids' \o events_' /\ order' \in Seq(Appender!Events)
         /\ Len(order') = Len(order) + 1
         /\ runAttribute' = Appender!RunOf(order[1])' /\ runAttribute' \in {1, 2}
         /\ products_' \in Seq(Seq(Octets)) /\ events_' \in Seq(Appender!Events)
         /\ batch_' = Len(events_') /\ Len(products_') = batch_' * AppendedProducts
         /\ offsets_' \in [Appender!Products -> Nat] /\ ids' \in Seq(Appender!Events)
         /\ batches' \in Nat
         /\ datasets' \in [Appender!Products -> Seq(Octets)]
         /\ ends' \in [Appender!Products -> Seq(Nat)]
<1> USE DEF AppenderInv
<1>1. PICK e \in Appender!Events : e = lanesEvent[l]
  BY DEF LanesHoldBlobs, WithEvent
<1>2. PICK b \in Seq(Seq(Octets)) :
        b = [i \in 1..AppendedProducts |-> blobs[l][i - 1]] /\ Len(b) = AppendedProducts
  <2>1. \A i \in 1..AppendedProducts : i - 1 \in Appender!Products
    BY DEF Appender!Products, AppenderParameters
  <2>2. \A i \in 1..AppendedProducts : blobs[l][i - 1] \in Seq(Octets)
    BY <2>1 DEF AppenderTypes
  <2>3. AppendedProducts \in Nat
    BY DEF AppenderParameters
  <2>4. [i \in 1..AppendedProducts |-> blobs[l][i - 1]] \in Seq(Seq(Octets))
    BY <2>2, <2>3
  <2>5. Len([i \in 1..AppendedProducts |-> blobs[l][i - 1]]) = AppendedProducts
    BY <2>3
  <2>6. QED
    BY <2>4, <2>5
<1>3. ASSUME NEW p \in Appender!Products PROVE b[p + 1] = Appender!Blob(e, p)
  <2>1. p \in Nat /\ p + 1 \in 1..AppendedProducts /\ p + 1 - 1 = p
    BY DEF Appender!Products, AppenderParameters
  <2>2. b[p + 1] = blobs[l][p]
    <3>1. PICK i \in 1..AppendedProducts : i = p + 1 /\ i - 1 = p
      BY <2>1
    <3>2. b[i] = blobs[l][i - 1]
      BY <1>2
    <3>3. QED
      BY <3>1, <3>2
  <2>3. QED
    BY <1>1, <2>2 DEF LanesHoldBlobs
<1>4. PICK products \in Seq(Seq(Octets)), events \in Seq(Appender!Events) :
        products = products_ \o b /\ events = Append(events_, e)
  <2>1. products_ \in Seq(Seq(Octets)) /\ events_ \in Seq(Appender!Events)
    BY DEF AppenderTypes
  <2>2. products_ \o b \in Seq(Seq(Octets))
    BY <2>1
  <2>3. Append(events_, e) \in Seq(Appender!Events)
    BY <2>1
  <2>4. QED
    BY <2>2, <2>3
<1>5. BlobsInMemory(products, events)
  BY <1>2, <1>3, <1>4, MoreInMemory DEF AppenderTypes, MemoryIsRight
<1>6. /\ Appender!WriteFileHeader(e)
      /\ IF batch_ + 1 = maxBatchSize_
           THEN Appender!WriteFullBatch(products, events)
           ELSE /\ batch_' = batch_ + 1 /\ products_' = products /\ events_' = events
                /\ UNCHANGED <<offsets_, datasets, ends, ids, batches>>
  BY <1>1, <1>2, <1>4 DEF Appender!Accumulate
<1>7. order = ids \o events_ /\ ids \in Seq(Appender!Events) /\ events_ \in Seq(Appender!Events)
  BY DEF OrderOfOutput, AppenderTypes
<1>8. /\ Append(order, e) = ids \o events /\ order' = ids \o events
      /\ order' \in Seq(Appender!Events) /\ Len(order') = Len(order) + 1
      /\ order'[1] = IF order = <<>> THEN e ELSE order[1]
      /\ events # <<>> /\ Len(events) = Len(events_) + 1
  <2>1. order' = Append(order, e) /\ order \in Seq(Appender!Events)
    BY <1>1, <1>7
  <2>2. /\ Append(ids \o events_, e) = ids \o Append(events_, e)
        /\ Append(events_, e) # <<>> /\ Len(Append(events_, e)) = Len(events_) + 1
    <3>1. Append(ids \o events_, e) = ids \o Append(events_, e)
      <4>1. ids \in Seq(Appender!Events) /\ events_ \in Seq(Appender!Events)
        BY <1>7
      <4>2. QED
        BY <4>1, AppendBehind
    <3>2. Append(events_, e) # <<>> /\ Len(Append(events_, e)) = Len(events_) + 1
      BY <1>7, PutTogether
    <3>3. QED
      BY <3>1, <3>2
  <2>3. /\ Append(order, e)[1] = IF order = <<>> THEN e ELSE order[1]
        /\ Len(Append(order, e)) = Len(order) + 1 /\ Append(order, e) \in Seq(Appender!Events)
    BY <2>1, PutTogether
  <2>4. QED
    BY <1>4, <1>7, <2>1, <2>2, <2>3
<1>9. runAttribute' = Appender!RunOf(order[1])' /\ runAttribute' \in {1, 2}
  <2>1. runAttribute' = IF order = <<>> THEN Appender!RunOf(e) ELSE runAttribute
    BY <1>6 DEF Appender!WriteFileHeader
  <2>2. order # <<>> => runAttribute = Appender!RunOf(order[1])
    BY DEF OrderOfOutput
  <2>3. runAttribute' = IF order'[1] < runEnd THEN 1 ELSE 2
    BY <1>8, <2>1, <2>2 DEF Appender!RunOf
  <2>4. runEnd' = runEnd
    OBVIOUS
  <2>5. QED
    BY <2>3, <2>4 DEF Appender!RunOf
<1>10. CASE batch_ + 1 = maxBatchSize_
  <2>1. Appender!WriteBatch(products, events) /\ batch_' = 0 /\ products_' = <<>> /\
          events_' = <<>>
    BY <1>6, <1>10 DEF Appender!WriteFullBatch
  <2>2. /\ FileIsCut'
        /\ ids' = ids \o events /\ ids' \in Seq(Appender!Events)
        /\ datasets' \in [Appender!Products -> Seq(Octets)]
        /\ ends' \in [Appender!Products -> Seq(Nat)]
        /\ offsets_' \in [Appender!Products -> Nat] /\ batches' \in Nat
    BY <1>5, <1>8, <2>1, WriteKeeps
  <2>3. order' = ids' \o events_'
    <3>1. (ids \o events) \o <<>> = ids \o events
      BY <1>7, PutTogether
    <3>2. QED
      BY <1>8, <2>1, <2>2, <3>1
  <2>4. Len(<<>>) = 0 /\ 0 * AppendedProducts = 0
    BY DEF AppenderParameters
  <2>5. MemoryIsRight'
    BY <2>1, <2>4 DEF MemoryIsRight, BlobsInMemory
  <2>6. products_' \in Seq(Seq(Octets)) /\ events_' \in Seq(Appender!Events)
    BY <2>1
  <2>7. batch_' = Len(events_') /\ Len(products_') = batch_' * AppendedProducts
    BY <2>1, <2>4
  <2>8. QED
    BY <1>8, <1>9, <2>2, <2>3, <2>5, <2>6, <2>7
<1>11. CASE batch_ + 1 # maxBatchSize_
  <2>1. /\ batch_' = batch_ + 1 /\ products_' = products /\ events_' = events
        /\ UNCHANGED <<offsets_, datasets, ends, ids, batches>>
    BY <1>6, <1>11
  <2>2. FileIsCut'
    <3>1. ASSUME NEW p \in Appender!Products, CutsOf(datasets[p], ends[p], offsets_[p], ids, p)
          PROVE  CutsOf(datasets[p], ends[p], offsets_[p], ids, p)'
      <4>1. CutsOf(datasets'[p], ends'[p], offsets_'[p], ids', p)
        BY <2>1, <3>1
      <4>2. size' = size
        OBVIOUS
      <4>3. QED
        BY ZenonT(30), <4>1, <4>2 DEF CutsOf, EndAt, Appender!Blob
    <3>2. Appender!AppendsBehind' = Appender!AppendsBehind
      BY <2>1 DEF Appender!AppendsBehind
    <3>3. QED
      BY <2>1, <3>1, <3>2 DEF FileIsCut
  <2>3. BlobsInMemory(products_, events_)'
    BY <1>5, <2>1 DEF BlobsInMemory, Appender!Blob
  <2>4. batch_' = Len(events_') /\ Len(products_') = batch_' * AppendedProducts
    BY <1>5, <1>8, <2>1 DEF BlobsInMemory, AppenderTypes
  <2>5. QED
    BY <1>8, <1>9, <2>1, <2>2, <2>3, <2>4 DEF MemoryIsRight, AppenderTypes
<1>12. QED
  BY <1>10, <1>11

\* An output ends: the event is the next in the order, and its lane goes on.
LEMMA FinishOutputKeepsBatch ==
  ASSUME AppenderParameters, AppenderInv, Appender!FinishOutput
  PROVE  AppenderInv'
<1> USE DEF AppenderInv
<1>1. /\ running' = {}
      /\ UNCHANGED <<method, size, runEnd, next, lanesEvent, blobs, tasks, closed>>
  BY DEF Appender!FinishOutput, Appender!Queue!Complete, Appender!parameters
<1>2. PICK l \in running : /\ Appender!Accumulate(l)
                           /\ order' = Append(order, lanesEvent[l])
                           /\ at' = [at EXCEPT ![l] = "next"]
  BY DEF Appender!FinishOutput
<1>3. l \in Appender!Lanes /\ at[l] = "output" /\ l \in WithEvent
  BY DEF AppenderTypes, OutputsWait, WithEvent
<1>4. ~closed
  BY <1>3 DEF OrderOfOutput
<1>5. /\ MemoryIsRight' /\ FileIsCut'
      /\ order' = ids' \o events_' /\ order' \in Seq(Appender!Events)
      /\ Len(order') = Len(order) + 1
      /\ runAttribute' = Appender!RunOf(order[1])' /\ runAttribute' \in {1, 2}
      /\ products_' \in Seq(Seq(Octets)) /\ events_' \in Seq(Appender!Events)
      /\ batch_' = Len(events_') /\ Len(products_') = batch_' * AppendedProducts
      /\ offsets_' \in [Appender!Products -> Nat] /\ ids' \in Seq(Appender!Events)
      /\ batches' \in Nat
      /\ datasets' \in [Appender!Products -> Seq(Octets)]
      /\ ends' \in [Appender!Products -> Seq(Nat)]
  BY <1>1, <1>2, <1>3, <1>4, AccumulateKeeps
<1>6. \A k \in Appender!Lanes : k # l => at'[k] = at[k]
  BY <1>2, <1>3 DEF AppenderTypes
<1>7. at'[l] = "next" /\ at' \in [Appender!Lanes -> {"next", "products", "output"}]
  BY <1>2, <1>3 DEF AppenderTypes
<1>8. AppenderTypes'
  BY <1>1, <1>5, <1>7 DEF AppenderTypes
<1>9. LanesHoldBlobs'
  <2>1. ASSUME NEW k \in Appender!Lanes, at'[k] = "output", NEW p \in Appender!Products
        PROVE  blobs'[k][p] = Appender!Blob(lanesEvent[k], p)'
    <3>1. blobs[k][p] = Appender!Blob(lanesEvent[k], p)
      BY <1>6, <1>7, <2>1 DEF LanesHoldBlobs
    <3>2. QED
      BY <1>1, <3>1 DEF Appender!Blob
  <2>2. \A k \in WithEvent' : lanesEvent'[k] \in Appender!Events
    BY <1>1, <1>6, <1>7 DEF LanesHoldBlobs, WithEvent
  <2>3. QED
    BY <2>1, <2>2 DEF LanesHoldBlobs
<1>10. OutputsWait'
  <2>1. \A i \in DOMAIN tasks : tasks[i] \in Appender!Lanes
    BY DEF AppenderTypes
  <2>2. \A i \in DOMAIN tasks : tasks[i] # l /\ at'[tasks[i]] = "output"
    BY <1>2, <1>6, <2>1 DEF OutputsWait
  <2>3. QED
    BY <1>1, <2>2 DEF OutputsWait
<1>11. OrderOfOutput'
  <2>1. WithEvent' = WithEvent \ {l}
    BY <1>3, <1>6, <1>7 DEF WithEvent
  <2>2. Cardinality(WithEvent \ {l}) = Cardinality(WithEvent) - 1
    BY <1>3, WithEventFinite, FS_RemoveElement
  <2>3. next = Len(order) + Cardinality(WithEvent) /\ Len(order) \in Nat
    BY DEF OrderOfOutput, AppenderTypes
  <2>4. next' = Len(order') + Cardinality(WithEvent')
    BY <1>1, <1>5, <2>1, <2>2, <2>3, WithEventFinite
  <2>5. closed' = FALSE
    BY <1>1, <1>4 DEF AppenderTypes
  <2>6. QED
    BY <1>5, <2>4, <2>5 DEF OrderOfOutput
<1>12. QED
  BY <1>5, <1>8, <1>9, <1>10, <1>11

\* printSummary: what is in memory is written too.
LEMMA PrintSummaryKeeps ==
  ASSUME AppenderParameters, AppenderInv, Appender!PrintSummary
  PROVE  AppenderInv'
<1> USE DEF AppenderInv
<1>1. /\ ~closed /\ closed' = TRUE
      /\ next = AppendedEvents /\ \A l \in Appender!Lanes : at[l] = "next"
      /\ IF batch_ # 0 THEN Appender!WriteBatch(products_, events_)
                       ELSE UNCHANGED <<offsets_, datasets, ends, ids, batches>>
      /\ UNCHANGED <<method, size, runEnd, next, lanesEvent, at, blobs, tasks, running,
                     products_, events_, batch_, runAttribute, order>>
  BY DEF Appender!PrintSummary, Appender!parameters, Appender!lanes, Appender!queue
<1>2. BlobsInMemory(products_, events_) /\ order = ids \o events_
  BY <1>1 DEF MemoryIsRight, OrderOfOutput
<1>3. /\ products_ \in Seq(Seq(Octets)) /\ events_ \in Seq(Appender!Events)
      /\ ids \in Seq(Appender!Events)
      /\ batch_ = Len(events_)
  BY DEF AppenderTypes
<1>4. /\ FileIsCut'
      /\ ids' = ids \o events_ /\ ids' \in Seq(Appender!Events)
      /\ datasets' \in [Appender!Products -> Seq(Octets)]
      /\ ends' \in [Appender!Products -> Seq(Nat)]
      /\ offsets_' \in [Appender!Products -> Nat] /\ batches' \in Nat
  <2>1. CASE batch_ # 0
    <3>1. events_ # <<>> /\ Appender!WriteBatch(products_, events_)
      BY <1>1, <1>3, <2>1
    <3>2. QED
      BY <1>1, <1>2, <1>3, <3>1, WriteKeeps
  <2>2. CASE batch_ = 0
    <3>1. UNCHANGED <<offsets_, datasets, ends, ids, batches>>
      BY <1>1, <2>2
    <3>2. events_ = <<>>
      <4>1. ASSUME NEW V, NEW s \in Seq(V), Len(s) = 0 PROVE s = <<>>
        BY <4>1
      <4>2. QED
        BY <1>3, <2>2, <4>1
    <3>3. ids \o <<>> = ids
      BY <1>3
    <3>4. FileIsCut'
      <4>1. UNCHANGED <<method, size, Appender!file, offsets_>>
        BY <1>1, <3>1 DEF Appender!file
      <4>2. QED
        BY <4>1, FileStays
    <3>5. QED
      BY <3>1, <3>2, <3>3, <3>4 DEF AppenderTypes
  <2>3. QED
    BY <2>1, <2>2
<1>5. WithEvent = {} /\ WithEvent' = WithEvent
  BY <1>1 DEF WithEvent
<1>6. AppenderTypes'
  BY <1>1, <1>4 DEF AppenderTypes
<1>7. LanesHoldBlobs' /\ OutputsWait'
  BY <1>1 DEF LanesHoldBlobs, OutputsWait, WithEvent, Appender!Blob
<1>8. MemoryIsRight'
  BY <1>1 DEF MemoryIsRight
<1>9. OrderOfOutput'
  <2>1. order' = ids'
    BY <1>1, <1>2, <1>4
  <2>2. QED
    BY <1>1, <1>5, <2>1 DEF OrderOfOutput, Appender!RunOf
<1>10. QED
  BY <1>4, <1>6, <1>7, <1>8, <1>9

LEMMA AppenderStutterKeeps ==
  ASSUME AppenderInv, UNCHANGED Appender!vars
  PROVE  AppenderInv'
<1> USE DEF AppenderInv
<1>1. UNCHANGED <<maxBatchSize_, method, size, runEnd, next, lanesEvent, at, blobs, tasks,
                  running,
                  products_, events_, batch_, offsets_, datasets, ends, ids, runAttribute,
                  batches, order, closed>>
  BY DEF Appender!vars, Appender!parameters, Appender!lanes, Appender!queue, Appender!memory,
         Appender!file
<1>2. AppenderTypes' /\ OutputsWait'
  BY <1>1 DEF AppenderTypes, OutputsWait
<1>3. LanesHoldBlobs' /\ OrderOfOutput'
  BY <1>1 DEF LanesHoldBlobs, OrderOfOutput, WithEvent, Appender!Blob, Appender!RunOf
<1>4. MemoryIsRight'
  BY <1>1, MemoryStays
<1>5. FileIsCut'
  BY <1>1, FileStays DEF Appender!file
<1>6. QED
  BY <1>2, <1>3, <1>4, <1>5

LEMMA AppenderNextKeeps ==
  ASSUME AppenderParameters, AppenderInv, Appender!Next \/ UNCHANGED Appender!vars
  PROVE  AppenderInv'
<1>1. ASSUME NEW l \in Appender!Lanes, Appender!LaneStep(l) PROVE AppenderInv'
  BY <1>1, TakeEventKeeps, OutputAsyncKeeps DEF Appender!LaneStep
<1>2. CASE Appender!StartOutput
  BY <1>2, StartOutputKeepsBatch
<1>3. CASE Appender!FinishOutput
  BY <1>3, FinishOutputKeepsBatch
<1>4. CASE Appender!PrintSummary
  BY <1>4, PrintSummaryKeeps
<1>5. CASE UNCHANGED Appender!vars
  BY <1>5, AppenderStutterKeeps
<1>6. CASE Appender!Finished
  BY <1>5, <1>6 DEF Appender!Finished
<1>7. CASE \E l \in Appender!Lanes : Appender!LaneStep(l)
  BY <1>1, <1>7
<1>8. QED
  BY <1>2, <1>3, <1>4, <1>5, <1>6, <1>7 DEF Appender!Next

\* The cuts of the file are what HDFSource reads.
LEMMA CutsAreRead ==
  ASSUME AppenderParameters, AppenderInv
  PROVE  Appender!SourceReadsWhatWasOutput
<1> USE DEF AppenderInv
<1>1. PICK n \in Nat : n = Len(ids)
  BY DEF AppenderTypes
<1>2. closed => n = AppendedEvents
  <2>1. SUFFICES ASSUME closed PROVE n = AppendedEvents
    OBVIOUS
  <2>2. order = ids /\ WithEvent = {} /\ AppendedEvents = Len(order) + Cardinality(WithEvent)
    BY <2>1 DEF OrderOfOutput
  <2>3. Cardinality(WithEvent) = 0
    BY <2>2, FS_EmptySet
  <2>4. QED
    BY <1>1, <2>2, <2>3
<1>3. \A i \in 1..n : order[i] = ids[i] /\ ids[i] \in Appender!Events
  <2>1. ids \in Seq(Appender!Events) /\ events_ \in Seq(Appender!Events)
    BY DEF AppenderTypes
  <2>2. \A i \in 1..n : (ids \o events_)[i] = ids[i]
    BY <1>1, <2>1, FirstPart
  <2>3. QED
    BY <1>1, <2>1, <2>2 DEF OrderOfOutput
<1>4. ASSUME Appender!AppendsBehind, NEW i \in 0..(n - 1)
      PROVE  /\ Appender!Readable(i)
             /\ Appender!ReadEvent(i).event = order[i + 1]
             /\ Appender!ReadEvent(i).products =
                  [p \in Appender!Products |-> Appender!Blob(order[i + 1], p)]
             /\ runEnd = AppendedEvents =>
                  Appender!ReadEvent(i).run = Appender!RunOf(order[i + 1])
  <2>1. i + 1 \in 1..n /\ 1 \in 1..n /\ i + 1 - 1 = i /\ i \in Nat
    BY <1>1
  <2>2. PICK e \in Appender!Events : e = ids[i + 1] /\ e = order[i + 1]
    BY <1>3, <2>1
  <2>3. ASSUME NEW p \in Appender!Products
        PROVE  /\ i + 1 \in DOMAIN ends[p]
               /\ Appender!GetEventOffsets(i, p).last <= Len(datasets[p])
               /\ SubSeq(datasets[p], Appender!GetEventOffsets(i, p).first + 1,
                         Appender!GetEventOffsets(i, p).last) = Appender!Blob(e, p)
    <3>1. CutsOf(datasets[p], ends[p], offsets_[p], ids, p)
      BY <1>4 DEF FileIsCut
    <3>2. PICK dataset \in Seq(Octets), table \in Seq(Nat) : dataset = datasets[p] /\
                 table = ends[p]
      BY DEF AppenderTypes
    <3>3. PICK b \in Seq(Octets) : b = Appender!Blob(e, p) /\ Len(b) \in Nat
      BY BlobIsBytes
    <3>4. PICK a : a = EndAt(table, i)
      OBVIOUS
    <3>5. PICK z : z = table[i + 1]
      OBVIOUS
    <3>6. /\ Len(table) = n
          /\ z = a + Len(b) /\ z <= Len(dataset)
          /\ \A q \in 1..Len(b) : dataset[a + q] = b[q]
      <4>1. CutsOf(dataset, table, offsets_[p], ids, p)
        BY <3>1, <3>2
      <4>2. i + 1 \in 1..Len(ids)
        BY <1>1, <2>1
      <4>3. /\ table[i + 1] = EndAt(table, i + 1 - 1) + Len(Appender!Blob(ids[i + 1], p))
            /\ table[i + 1] <= Len(dataset)
            /\ \A q \in 1..Len(Appender!Blob(ids[i + 1], p)) :
                 dataset[EndAt(table, i + 1 - 1) + q] = Appender!Blob(ids[i + 1], p)[q]
        BY <4>1, <4>2 DEF CutsOf
      <4>4. Len(table) = n
        BY <1>1, <4>1 DEF CutsOf
      <4>5. EndAt(table, i + 1 - 1) = a /\ Appender!Blob(ids[i + 1], p) = b
        BY <2>1, <2>2, <3>3, <3>4
      <4>6. QED
        BY <3>5, <4>3, <4>4, <4>5
    <3>7. i + 1 \in DOMAIN table /\ z \in Nat
      <4>1. i + 1 \in 1..Len(table)
        BY <2>1, <3>6
      <4>2. QED
        BY <3>5, <4>1
    <3>8. a \in Nat
      <4>1. CASE i = 0
        BY <3>4, <4>1 DEF EndAt
      <4>2. CASE i # 0
        <5>1. i \in 1..Len(table)
          BY <2>1, <3>6, <4>2
        <5>2. QED
          BY <3>4, <4>2, <5>1 DEF EndAt
      <4>3. QED
        BY <4>1, <4>2
    <3>9. SubSeq(dataset, a + 1, z) = b
      BY <3>3, <3>6, <3>7, <3>8, CutOut
    <3>10. Appender!GetEventOffsets(i, p).first = a /\ Appender!GetEventOffsets(i, p).last = z
      BY <3>2, <3>4, <3>5 DEF Appender!GetEventOffsets, EndAt
    <3>11. QED
      BY <3>2, <3>3, <3>6, <3>7, <3>9, <3>10
  <2>4. Appender!Readable(i)
    BY <1>1, <2>1, <2>3 DEF Appender!Readable, AppenderTypes
  <2>5. Appender!ReadEvent(i).event = order[i + 1] /\ Appender!ReadEvent(i).run = runAttribute
    BY <2>2 DEF Appender!ReadEvent
  <2>6. Appender!ReadEvent(i).products =
          [p \in Appender!Products |-> Appender!Blob(order[i + 1], p)]
    BY <2>2, <2>3 DEF Appender!ReadEvent
  <2>7. ASSUME runEnd = AppendedEvents PROVE runAttribute = Appender!RunOf(order[i + 1])
    <3>1. order # <<>> /\ order[1] \in Appender!Events
      <4>1. order[1] \in Appender!Events
        BY <1>3, <2>1
      <4>2. order # <<>>
        <5>1. order = ids \/ order = ids \o events_
          BY DEF OrderOfOutput
        <5>2. Len(ids) # 0 /\ ids \in Seq(Appender!Events) /\ events_ \in Seq(Appender!Events)
          BY <1>1, <2>1 DEF AppenderTypes
        <5>3. QED
          BY <5>1, <5>2
      <4>3. QED
        BY <4>1, <4>2
    <3>2. runAttribute = Appender!RunOf(order[1])
      BY <3>1 DEF OrderOfOutput
    <3>3. \A d \in Appender!Events : d < AppendedEvents
      BY DEF Appender!Events, AppenderParameters
    <3>4. QED
      BY <2>2, <2>7, <3>1, <3>2, <3>3 DEF Appender!RunOf
  <2>8. QED
    BY <2>4, <2>5, <2>6, <2>7
<1>5. QED
  BY <1>1, <1>2, <1>4 DEF Appender!SourceReadsWhatWasOutput
AppenderPart == kind = "HDFOutputer" => AppenderInv

LEMMA AppenderNumbers == AppenderParameters
BY AppendedAssumption, BatchAssumption DEF AppenderParameters

LEMMA AppenderInvariant == JobSpec => []AppenderPart
<1>1. JobInit => AppenderPart
  <2> SUFFICES ASSUME JobInit, kind = "HDFOutputer" PROVE AppenderInv
    BY DEF AppenderPart
  <2>1. /\ Clusters!Init => kind \in ClusterKinds
        /\ Records!Init => kind \in RecordKinds
    BY DEF Clusters!Init, ClusterKinds, Records!Init, RecordKinds, Records!Serializing,
           Records!Reading
  <2>2. Appender!Init
    BY <2>1, KindsApart DEF JobInit
  <2>3. QED
    BY <2>2, AppenderNumbers, AppenderInitHolds
<1>2. AppenderPart /\ [JobNext]_jobVars => AppenderPart'
  <2> SUFFICES ASSUME AppenderPart, [JobNext]_jobVars, kind' = "HDFOutputer"
               PROVE  AppenderInv'
    BY DEF AppenderPart
  <2>1. kind = "HDFOutputer"
    BY KindStays
  <2>2. Appender!Next \/ UNCHANGED jobVars
    BY <2>1, KindsApart DEF JobNext, BatchNext, RecordsNext, MergerNext, ClustersNext,
                            AppenderNext
  <2>3. UNCHANGED jobVars => UNCHANGED Appender!vars
    BY DEF jobVars, job, eventByEvent, ofAppender, Appender!vars, Appender!parameters,
           Appender!lanes, Appender!queue, Appender!memory, Appender!file
  <2>4. AppenderInv
    BY <2>1 DEF AppenderPart
  <2>5. QED
    BY <2>2, <2>3, <2>4, AppenderNumbers, AppenderNextKeeps
<1>3. QED
  BY <1>1, <1>2, PTL DEF JobSpec, jobVars

\* HDFOutputer in a job: HDFSource reads at every position of the file the event that
\* was output there, every byte of it and no other, after every batch, for any batch
\* size, any data products and any sizes, unless the multi-dataset plug-in has written
\* a second batch.
THEOREM SourceReads == JobSpec => []SourceReadsWhatWasOutput
<1>1. AppenderPart => SourceReadsWhatWasOutput
  BY AppenderNumbers, CutsAreRead DEF AppenderPart, SourceReadsWhatWasOutput
<1>2. QED
  BY <1>1, AppenderInvariant, PTL

\* The variables of the outputer of the job have their types.
THEOREM TypesInTheJob == JobSpec => []TypesOK
<1>1. RecordsInv => (kind \in RecordKinds => Records!TypeOK)
  <2>1. RecordsP!Complete /\ RecordsP!Narrow => RecordsP!TypeOK
    BY RecordsP!TypesImplied
  <2>2. RecordsP!TypeOK => Records!TypeOK
    BY DEF Records!TypeOK, Records!Events, Records!Lanes, Records!None, Records!Contents,
           Records!Closures, Records!Products, RecordsP!TypeOK, RecordsP!Events,
           RecordsP!Lanes, RecordsP!None, RecordsP!Contents, RecordsP!Closures,
           RecordsP!Products, Records!Cardinality, RecordsP!Cardinality
  <2>3. QED
    BY <2>1, <2>2 DEF RecordsInv
<1>2. MergerInv => (kind = "TBufferMergerRootOutputer" => Merger!TypeOK)
  <2>1. MergerP!TypeOK => Merger!TypeOK
    BY DEF Merger!TypeOK, Merger!Events, Merger!Lanes,
           MergerP!TypeOK, MergerP!Events, MergerP!Lanes
  <2>2. QED
    BY <2>1 DEF MergerInv, MergerP!IInv, MergerP!Types
<1>3. ClustersInv => (kind \in ClusterKinds => Clusters!TypeOK)
  <2>1. ClustersP!IInv /\ ClustersP!ClockInv => ClustersP!TypeOK
    BY ClustersP!TypesImplied
  <2>2. ClustersP!TypeOK => Clusters!TypeOK
    BY DEF Clusters!TypeOK, Clusters!Events, Clusters!Lanes, Clusters!NoLane,
           ClustersP!TypeOK, ClustersP!Events, ClustersP!Lanes, ClustersP!NoLane
  <2>3. QED
    BY <2>1, <2>2 DEF ClustersInv
<1>4. AppenderPart => (kind = "HDFOutputer" => Appender!TypeOK)
  BY DEF AppenderPart, AppenderInv, AppenderTypes, Appender!TypeOK
<1>5. TypeOK /\ RecordsInv /\ MergerInv /\ ClustersInv /\ AppenderPart => TypesOK
  BY <1>1, <1>2, <1>3, <1>4 DEF TypesOK
<1>6. QED
  BY <1>5, BatchesInTheJob, TypeCorrect, RecordsInvariant, MergerInvariant,
     ClustersInvariant, AppenderInvariant, PTL
=============================================================================
