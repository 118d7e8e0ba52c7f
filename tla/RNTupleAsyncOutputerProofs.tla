---------------------- MODULE RNTupleAsyncOutputerProofs ----------------------
(***************************************************************************)
(* TLAPS proofs about RNTupleAsyncOutputer, for any number of lanes, any   *)
(* events and both outputers: a cluster is flushed as it was sealed, and   *)
(* the closed file has every event once; and the clock shows the time in   *)
(* which at least one call was running.                                    *)
(***************************************************************************)
EXTENDS RNTupleAsyncOutputer, FiniteSetTheorems, TLAPS

Types == /\ next \in 0..NEvents
         /\ lane \in [Events -> Lanes \cup {NoLane}]
         /\ pc \in [Events -> {"none", "fill", "push", "stop", "add", "returned"}]
         /\ released \subseteq Events
         /\ context \in [Lanes -> SUBSET Events] /\ sealed \in [Lanes -> SUBSET Events]
         /\ queued \in Seq(Lanes) /\ running \subseteq Lanes
         /\ written \in [Events -> Nat]
         /\ closed \in BOOLEAN

\* A call is for a lane, and keeps its callback until it has filled and sealed.
CallsHaveLanes ==
  \A e \in Events : /\ pc[e] = "none" <=> e >= next
                    /\ pc[e] # "none" => lane[e] \in Lanes
                    /\ pc[e] = "none" => lane[e] = NoLane
                    /\ e \in released => pc[e] \in {"stop", "add", "returned"}

\* A lane goes on to its next event when its callback is released.
OneCallPerLane ==
  \A e, f \in Events : e \notin released /\ f \notin released /\ lane[e] = lane[f]
                         /\ lane[e] \in Lanes => e = f

Flushing == running \cup {queued[i] : i \in DOMAIN queued}

\* The flush of a lane has the callback of its call, which has filled its event.
FlushHasCallback ==
  \A l \in Flushing : \E e \in Events : /\ lane[e] = l /\ e \notin released
                                        /\ pc[e] \in {"stop", "add", "returned"}

OneFlushPerLane ==
  /\ \A i \in DOMAIN queued : queued[i] \notin running
  /\ \A i, j \in DOMAIN queued : queued[i] = queued[j] => i = j
  /\ \A l, k \in running : l = k

Sealed == /\ \A l \in Flushing : context[l] = sealed[l]
          /\ \A e \in Events : pc[e] = "push" => context[lane[e]] = sealed[lane[e]]

\* An event that was filled is in the file or in one context.
InFile(e) == written[e] = 1 /\ \A l \in Lanes : e \notin context[l]
InMemory(e) == /\ written[e] = 0
               /\ \E l \in Lanes : e \in context[l] /\ \A k \in Lanes \ {l} : e \notin context[k]
Nowhere(e) == written[e] = 0 /\ \A l \in Lanes : e \notin context[l]

OnePlace == \A e \in Events : IF pc[e] \in {"none", "fill"} THEN Nowhere(e)
                                                            ELSE InFile(e) \/ InMemory(e)

ClosedIsDone == closed => \A e \in Events : /\ pc[e] = "returned" /\ e \in released
                                            /\ written[e] = 1

IInv == /\ Types
        /\ CallsHaveLanes /\ OneCallPerLane
        /\ FlushHasCallback /\ OneFlushPerLane
        /\ Sealed
        /\ OnePlace /\ ClosedIsDone

LEMMA InitHolds == ASSUME NEvents \in Nat PROVE Init => IInv
<1> SUFFICES ASSUME Init PROVE IInv
  OBVIOUS
<1> USE DEF Init
<1>1. Types
  <2>1. next \in 0..NEvents
    OBVIOUS
  <2>6. closed \in BOOLEAN
    OBVIOUS
  <2>2. /\ lane \in [Events -> Lanes \cup {NoLane}]
        /\ pc \in [Events -> {"none", "fill", "push", "stop", "add", "returned"}]
        /\ written \in [Events -> Nat]
    OBVIOUS
  <2>3. context \in [Lanes -> SUBSET Events] /\ sealed \in [Lanes -> SUBSET Events]
    OBVIOUS
  <2>4. queued \in Seq(Lanes) /\ running \subseteq Lanes /\ released \subseteq Events
    OBVIOUS
  <2>5. QED
    BY <2>1, <2>2, <2>3, <2>4, <2>6 DEF Types
<1>2. CallsHaveLanes
  BY DEF CallsHaveLanes, Events
<1>3. OneCallPerLane
  BY DEF OneCallPerLane, Lanes, NoLane
<1>4. Flushing = {} /\ DOMAIN queued = {} /\ running = {}
  BY DEF Flushing
<1>5. FlushHasCallback /\ OneFlushPerLane /\ Sealed
  BY <1>4 DEF FlushHasCallback, OneFlushPerLane, Sealed
<1>6. OnePlace /\ ClosedIsDone
  BY DEF OnePlace, Nowhere, ClosedIsDone
<1>7. QED
  BY <1>1, <1>2, <1>3, <1>5, <1>6 DEF IInv

\* Lanes that the queue has are lanes.
LEMMA FlushingLanes == ASSUME Types PROVE Flushing \subseteq Lanes
BY DEF Types, Flushing

\* A free lane takes the next event: it has no callback, so nothing is being flushed.
LEMMA CallKeeps == ASSUME NEvents \in Nat, IInv, NEW l \in Lanes, Call(l) PROVE IInv'
<1> USE DEF IInv
<1> DEFINE e == next
<1>1. /\ e \in Events /\ pc[e] = "none" /\ pc' = [pc EXCEPT ![e] = "fill"]
      /\ lane' = [lane EXCEPT ![e] = l] /\ next' = next + 1
      /\ \A f \in Events : lane[f] = l => f \in released
      /\ UNCHANGED <<released, queued, running, context, sealed, written, closed>>
  BY DEF Call, Goto, Free, Types, Events, queue, ntuple
<1>2. e \notin released /\ ~closed
  BY <1>1 DEF CallsHaveLanes, ClosedIsDone
<1>3. Types'
  BY <1>1 DEF Types, Events
<1>4. CallsHaveLanes'
  <2> SUFFICES ASSUME NEW f \in Events
               PROVE  /\ pc'[f] = "none" <=> f >= next'
                      /\ pc'[f] # "none" => lane'[f] \in Lanes
                      /\ pc'[f] = "none" => lane'[f] = NoLane
                      /\ f \in released => pc'[f] \in {"stop", "add", "returned"}
    BY <1>1 DEF CallsHaveLanes, Events
  <2>1. CASE f = e
    BY <1>1, <1>2, <2>1 DEF Types
  <2>2. CASE f # e
    <3>1. pc'[f] = pc[f] /\ lane'[f] = lane[f] /\ (f >= next' <=> f >= next)
      BY <1>1, <2>2 DEF Types, Events
    <3>2. QED
      BY <3>1 DEF CallsHaveLanes
  <2>3. QED
    BY <2>1, <2>2
<1>5. OneCallPerLane'
  BY <1>1, <1>2 DEF OneCallPerLane, Types
<1>6. Flushing' = Flushing
  BY <1>1 DEF Flushing
<1>7. FlushHasCallback'
  <2> SUFFICES ASSUME NEW k \in Flushing
               PROVE  \E f \in Events : /\ lane'[f] = k /\ f \notin released
                                        /\ pc'[f] \in {"stop", "add", "returned"}
    BY <1>1, <1>6 DEF FlushHasCallback, Events
  <2>1. PICK f \in Events : /\ lane[f] = k /\ f \notin released
                            /\ pc[f] \in {"stop", "add", "returned"}
    BY DEF FlushHasCallback
  <2>2. f # e
    BY <1>1, <2>1
  <2>3. QED
    BY <1>1, <2>1, <2>2 DEF Types
<1>8. OneFlushPerLane'
  BY <1>1 DEF OneFlushPerLane
<1>9. Sealed'
  BY <1>1, <1>6 DEF Sealed, Types, Events
<1>10. OnePlace'
  BY <1>1 DEF OnePlace, InFile, InMemory, Nowhere, Types, Events
<1>11. ClosedIsDone'
  BY <1>1, <1>2 DEF ClosedIsDone
<1>12. QED
  BY <1>3, <1>4, <1>5, <1>7, <1>8, <1>9, <1>10, <1>11

\* What Commit makes of the places of events: those of the cluster, which leave the
\* context of its lane, are in the file and the others are where they were.
LEMMA CommitMoves ==
  ASSUME Types, NEW l \in Lanes, NEW e \in Events, NEW cluster, Commit(cluster),
         context' = [context EXCEPT ![l] = {}], context[l] \subseteq cluster,
         e \in cluster => e \in context[l] \/ Nowhere(e),
         InFile(e) \/ InMemory(e) \/ Nowhere(e)
  PROVE  /\ e \in cluster => InFile(e)'
         /\ e \notin cluster => /\ InFile(e) \/ InMemory(e) => (InFile(e) \/ InMemory(e))'
                                /\ Nowhere(e) => Nowhere(e)'
<1>1. context'[l] = {} /\ \A k \in Lanes \ {l} : context'[k] = context[k]
  BY DEF Types
<1>2. CASE e \in cluster
  <2>1. written[e] = 0 /\ \A k \in Lanes \ {l} : e \notin context[k]
    BY <1>2 DEF InFile, InMemory, Nowhere
  <2>2. written'[e] = written[e] + 1
    BY <1>2 DEF Commit
  <2>3. written'[e] = 1
    BY <2>1, <2>2
  <2>4. \A k \in Lanes : e \notin context'[k]
    BY <1>1, <2>1
  <2>5. QED
    BY <1>2, <2>3, <2>4 DEF InFile
<1>3. CASE e \notin cluster
  <2>1. written[e] \in Nat
    BY DEF Types
  <2>2. written'[e] = written[e]
    BY <1>3, <2>1 DEF Commit
  <2>3. \A k \in Lanes : e \in context'[k] <=> e \in context[k]
    BY <1>1, <1>3
  <2>4. QED
    BY <1>3, <2>2, <2>3 DEF InFile, InMemory, Nowhere
<1>4. QED
  BY <1>2, <1>3

\* Commit counts.
LEMMA CommitTypes == ASSUME Types, NEW cluster, Commit(cluster) PROVE written' \in [Events -> Nat]
BY DEF Types, Commit

\* A call that fills is the only one of its lane that has a callback: the lane's
\* flush, which would have another's, is done.
LEMMA FillingIsNotFlushing ==
  ASSUME IInv, NEW e \in Events, pc[e] \in {"fill", "push"} PROVE lane[e] \notin Flushing
<1>1. lane[e] \in Lanes /\ e \notin released
  BY DEF IInv, CallsHaveLanes
<1>2. SUFFICES ASSUME lane[e] \in Flushing PROVE FALSE
  OBVIOUS
<1>3. PICK f \in Events : /\ lane[f] = lane[e] /\ f \notin released
                          /\ pc[f] \in {"stop", "add", "returned"}
  BY <1>2 DEF IInv, FlushHasCallback
<1>4. f = e
  BY <1>1, <1>3 DEF IInv, OneCallPerLane
<1>5. QED
  BY <1>3, <1>4

\* Steps of a call that keep its callback: those of the queue's tasks stay.
LEMMA CallStays ==
  ASSUME IInv, NEW e \in Events, pc[e] \in {"fill", "push", "stop", "add"},
         NEW to \in {"push", "stop", "add", "returned"}, pc' = [pc EXCEPT ![e] = to],
         e \in released => to \in {"stop", "add", "returned"},
         pc[e] \in {"stop", "add"} => to \in {"stop", "add", "returned"},
         UNCHANGED <<next, lane, released>>
  PROVE  CallsHaveLanes' /\ OneCallPerLane'
<1>1. CallsHaveLanes'
  BY DEF IInv, Types, CallsHaveLanes, Events
<1>2. OneCallPerLane'
  BY DEF IInv, OneCallPerLane
<1>3. QED
  BY <1>1, <1>2

LEMMA FillProductsKeeps == ASSUME IInv, NEW e \in Events, FillProducts(e) PROVE IInv'
<1> USE DEF IInv
<1>1. /\ pc[e] = "fill" /\ e \notin released /\ ~closed
      /\ UNCHANGED <<next, lane, released, queued, running, closed>>
  BY DEF FillProducts, queue, CallsHaveLanes, ClosedIsDone
<1>2. PICK to \in {"push", "stop"} : pc' = [pc EXCEPT ![e] = to]
  BY DEF FillProducts, FillNoFlush, FillAndFlush, Goto
<1>3. PICK l \in Lanes : l = lane[e] /\ l \notin Flushing
  BY <1>1, FillingIsNotFlushing DEF CallsHaveLanes
<1>4. Flushing' = Flushing /\ Flushing \subseteq Lanes
  BY <1>1, FlushingLanes DEF Flushing
<1>5. CallsHaveLanes' /\ OneCallPerLane'
  BY <1>1, <1>2, CallStays
<1>6. FlushHasCallback'
  <2> SUFFICES ASSUME NEW k \in Flushing
               PROVE  \E f \in Events : /\ lane[f] = k /\ f \notin released
                                        /\ pc'[f] \in {"stop", "add", "returned"}
    BY <1>1, <1>4 DEF FlushHasCallback, Events
  <2>1. PICK f \in Events : /\ lane[f] = k /\ f \notin released
                            /\ pc[f] \in {"stop", "add", "returned"}
    BY DEF FlushHasCallback
  <2>2. QED
    BY <1>1, <1>2, <2>1 DEF Types
<1>7. OneFlushPerLane'
  BY <1>1 DEF OneFlushPerLane
<1>8. ClosedIsDone'
  BY <1>1 DEF ClosedIsDone
<1>9. Nowhere(e)
  BY <1>1 DEF OnePlace
\* no other call is about to push the flush of this lane
<1>10. \A f \in Events \ {e} : pc[f] = "push" => lane[f] # l
  BY <1>1, <1>3 DEF OneCallPerLane, CallsHaveLanes
<1>11. CASE FillNoFlush(e)
  <2>1. /\ context' = [context EXCEPT ![l] = @ \cup {e}] /\ written' = written
        /\ \/ sealed' = [sealed EXCEPT ![l] = context'[l]]
           \/ to = "stop" /\ sealed' = sealed
    <3>1. pc'[e] = to
      BY <1>2 DEF Types
    <3>2. QED
      BY <1>2, <1>3, <1>11, <3>1 DEF FillNoFlush, Goto, Types
  <2>2. Types'
    <3>1. pc' \in [Events -> {"none", "fill", "push", "stop", "add", "returned"}]
      BY <1>2 DEF Types
    <3>2. context' \in [Lanes -> SUBSET Events] /\ sealed' \in [Lanes -> SUBSET Events]
      <4>1. context[l] \cup {e} \subseteq Events
        BY <1>3 DEF Types
      <4>2. context' \in [Lanes -> SUBSET Events]
        BY <1>3, <2>1, <4>1 DEF Types
      <4>3. context'[l] \subseteq Events
        BY <1>3, <4>2
      <4>4. sealed' \in [Lanes -> SUBSET Events]
        BY <1>3, <2>1, <4>3 DEF Types
      <4>5. QED
        BY <4>2, <4>4
    <3>3. QED
      BY <1>1, <2>1, <3>1, <3>2 DEF Types, Events, Lanes
  <2>3. /\ \A k \in Lanes \ {l} : context'[k] = context[k] /\ sealed'[k] = sealed[k]
        /\ context'[l] = context[l] \cup {e}
        /\ to = "push" => sealed'[l] = context'[l]
    BY <1>3, <2>1 DEF Types
  <2>4. Sealed'
    <3>1. \A k \in Flushing : context'[k] = sealed'[k]
      BY <1>3, <1>4, <2>3 DEF Sealed
    <3>2. ASSUME NEW f \in Events, pc'[f] = "push" PROVE context'[lane[f]] = sealed'[lane[f]]
      <4>1. CASE f = e
        BY <1>2, <1>3, <2>3, <3>2, <4>1 DEF Types
      <4>2. CASE f # e
        <5>1. pc[f] = "push" /\ lane[f] \in Lanes \ {l}
          BY <1>2, <1>10, <3>2, <4>2 DEF Types, CallsHaveLanes
        <5>2. QED
          BY <2>3, <5>1 DEF Sealed
      <4>3. QED
        BY <4>1, <4>2
    <3>3. QED
      BY <1>1, <1>4, <3>1, <3>2 DEF Sealed, Events
  <2>5. OnePlace'
    <3> SUFFICES ASSUME NEW f \in Events
                 PROVE  IF pc'[f] \in {"none", "fill"} THEN Nowhere(f)'
                                                        ELSE (InFile(f) \/ InMemory(f))'
      BY DEF OnePlace, Events
    <3>1. CASE f = e
      <4>1. pc'[e] = to
        BY <1>2 DEF Types
      <4>2. InMemory(e)'
        BY <1>3, <1>9, <2>1, <2>3 DEF Nowhere, InMemory
      <4>3. QED
        BY <3>1, <4>1, <4>2
    <3>2. CASE f # e
      <4>1. pc'[f] = pc[f] /\ \A k \in Lanes : f \in context'[k] <=> f \in context[k]
        BY <1>2, <1>3, <2>3, <3>2 DEF Types
      <4>2. QED
        BY <2>1, <4>1 DEF OnePlace, InFile, InMemory, Nowhere
    <3>3. QED
      BY <3>1, <3>2
  <2>6. QED
    BY <1>5, <1>6, <1>7, <1>8, <2>2, <2>4, <2>5
<1>12. CASE FillAndFlush(e)
  <2>1. /\ to = "stop" /\ sealed' = sealed
        /\ \/ context' = [context EXCEPT ![l] = @ \cup {e}] /\ written' = written
           \/ context' = [context EXCEPT ![l] = {}] /\ Commit(context[l] \cup {e})
    <3>1. pc'[e] = to
      BY <1>2 DEF Types
    <3>2. QED
      BY <1>2, <1>3, <1>12, <3>1 DEF FillAndFlush, Goto, Types
  <2>2. Types'
    <3>1. written' \in [Events -> Nat]
      BY <2>1, CommitTypes DEF Types
    <3>2. pc' \in [Events -> {"none", "fill", "push", "stop", "add", "returned"}]
      BY <1>2 DEF Types
    <3>3. context' \in [Lanes -> SUBSET Events]
      <4>1. context[l] \cup {e} \subseteq Events
        BY <1>3 DEF Types
      <4>2. QED
        BY <1>3, <2>1, <4>1 DEF Types
    <3>5. sealed' \in [Lanes -> SUBSET Events]
      BY <2>1 DEF Types
    <3>4. QED
      BY <1>1, <2>1, <3>1, <3>2, <3>3, <3>5 DEF Types, Events, Lanes
  <2>3. \A k \in Lanes \ {l} : context'[k] = context[k]
    BY <1>3, <2>1 DEF Types
  <2>4. Sealed'
    <3>1. \A k \in Flushing : context'[k] = sealed'[k]
      BY <1>3, <1>4, <2>1, <2>3 DEF Sealed
    <3>2. ASSUME NEW f \in Events, pc'[f] = "push" PROVE context'[lane[f]] = sealed'[lane[f]]
      <4>1. pc[f] = "push" /\ f # e
        BY <1>2, <2>1, <3>2 DEF Types
      <4>2. lane[f] \in Lanes \ {l}
        BY <1>10, <4>1 DEF CallsHaveLanes
      <4>3. QED
        BY <2>1, <2>3, <4>1, <4>2 DEF Sealed
    <3>3. QED
      BY <1>1, <1>4, <3>1, <3>2 DEF Sealed, Events
  <2>5. OnePlace'
    <3> SUFFICES ASSUME NEW f \in Events
                 PROVE  IF pc'[f] \in {"none", "fill"} THEN Nowhere(f)'
                                                        ELSE (InFile(f) \/ InMemory(f))'
      BY DEF OnePlace, Events
    <3>1. pc'[f] = IF f = e THEN "stop" ELSE pc[f]
      BY <1>2, <2>1 DEF Types
    <3>2. CASE context' = [context EXCEPT ![l] = @ \cup {e}] /\ written' = written
      <4>1. CASE f = e
        <5>1. InMemory(e)'
          BY <1>3, <1>9, <2>3, <3>2 DEF Nowhere, InMemory, Types
        <5>2. QED
          BY <3>1, <4>1, <5>1
      <4>2. CASE f # e
        <5>1. \A k \in Lanes : f \in context'[k] <=> f \in context[k]
          BY <1>3, <3>2, <4>2 DEF Types
        <5>2. QED
          BY <3>1, <3>2, <4>2, <5>1 DEF OnePlace, InFile, InMemory, Nowhere
      <4>3. QED
        BY <4>1, <4>2
    <3>3. CASE context' = [context EXCEPT ![l] = {}] /\ Commit(context[l] \cup {e})
      <4>1. InFile(f) \/ InMemory(f) \/ Nowhere(f)
        BY DEF OnePlace
      <4>2. /\ f \in context[l] \cup {e} => InFile(f)'
            /\ f \notin context[l] \cup {e} =>
                 /\ InFile(f) \/ InMemory(f) => (InFile(f) \/ InMemory(f))'
                 /\ Nowhere(f) => Nowhere(f)'
        <5>1. PICK cluster : cluster = context[l] \cup {e}
          OBVIOUS
        <5>2. /\ Commit(cluster) /\ context[l] \subseteq cluster
              /\ f \in cluster => f \in context[l] \/ Nowhere(f)
          BY <1>9, <3>3, <5>1
        <5>3. /\ f \in cluster => InFile(f)'
              /\ f \notin cluster =>
                   /\ InFile(f) \/ InMemory(f) => (InFile(f) \/ InMemory(f))'
                   /\ Nowhere(f) => Nowhere(f)'
          BY <1>3, <3>3, <4>1, <5>2, CommitMoves DEF IInv
        <5>4. QED
          BY <5>1, <5>3
      <4>3. f \in context[l] /\ f # e => pc[f] \notin {"none", "fill"}
        BY <1>3 DEF OnePlace, Nowhere
      <4>4. QED
        BY <3>1, <4>2, <4>3 DEF OnePlace
    <3>4. QED
      BY <2>1, <3>2, <3>3
  <2>6. QED
    BY <1>5, <1>6, <1>7, <1>8, <2>2, <2>4, <2>5
<1>13. QED
  BY <1>11, <1>12 DEF FillProducts

\* The flush is pushed: the call keeps the callback until the task is done.
LEMMA PushFlushKeeps == ASSUME IInv, NEW e \in Events, PushFlush(e) PROVE IInv'
<1> USE DEF IInv
<1>1. /\ pc[e] = "push" /\ pc' = [pc EXCEPT ![e] = "stop"]
      /\ e \notin released /\ ~closed
      /\ UNCHANGED <<next, lane, released, context, sealed, written, closed>>
  BY DEF PushFlush, Goto, ntuple, CallsHaveLanes, ClosedIsDone
<1>2. PICK l \in Lanes : l = lane[e] /\ l \notin Flushing
  BY <1>1, FillingIsNotFlushing DEF CallsHaveLanes
<1>3. queued' = Append(queued, l) /\ running' = running
  BY <1>2 DEF PushFlush, Queue!Submit
<1>4. /\ DOMAIN queued = 1..Len(queued) /\ DOMAIN queued' = 1..(Len(queued) + 1)
      /\ Len(queued) \in Nat
      /\ \A i \in DOMAIN queued : queued'[i] = queued[i] /\ queued[i] \in Lanes
      /\ queued'[Len(queued) + 1] = l
      /\ queued' \in Seq(Lanes)
  BY <1>3 DEF Types
<1>5. Flushing' \subseteq Flushing \cup {l} /\ Flushing \subseteq Lanes
  <2>1. ASSUME NEW i \in DOMAIN queued' PROVE queued'[i] \in Flushing \cup {l}
    <3>1. i \in DOMAIN queued \/ i = Len(queued) + 1
      BY <1>4
    <3>2. QED
      BY <1>4, <3>1 DEF Flushing
  <2>2. QED
    BY <1>3, <2>1, FlushingLanes DEF Flushing
<1>6. Types'
  BY <1>1, <1>3, <1>4 DEF Types
<1>7. CallsHaveLanes' /\ OneCallPerLane'
  BY <1>1, CallStays
<1>8. FlushHasCallback'
  <2> SUFFICES ASSUME NEW k \in Flushing \cup {l}
               PROVE  \E f \in Events : /\ lane[f] = k /\ f \notin released
                                        /\ pc'[f] \in {"stop", "add", "returned"}
    BY <1>1, <1>5 DEF FlushHasCallback, Events
  <2>1. CASE k = l
    BY <1>1, <1>2, <2>1 DEF Types
  <2>2. CASE k \in Flushing
    <3>1. PICK f \in Events : /\ lane[f] = k /\ f \notin released
                              /\ pc[f] \in {"stop", "add", "returned"}
      BY <2>2 DEF FlushHasCallback
    <3>2. QED
      BY <1>1, <3>1 DEF Types
  <2>3. QED
    BY <2>1, <2>2
<1>9. OneFlushPerLane'
  <2>1. l \notin running /\ \A i \in DOMAIN queued : queued[i] # l
    BY <1>2 DEF Flushing
  <2>2. ASSUME NEW i \in DOMAIN queued'
        PROVE  (i \in DOMAIN queued \/ i = Len(queued) + 1) /\ queued'[i] \notin running
    BY <1>4, <2>1 DEF OneFlushPerLane
  <2>3. ASSUME NEW i \in DOMAIN queued', NEW j \in DOMAIN queued', queued'[i] = queued'[j]
        PROVE  i = j
    BY <1>4, <2>1, <2>2, <2>3 DEF OneFlushPerLane
  <2>4. QED
    BY <1>3, <2>2, <2>3 DEF OneFlushPerLane
<1>10. Sealed'
  <2>1. context[l] = sealed[l]
    BY <1>1, <1>2 DEF Sealed
  <2>2. \A k \in Flushing' : context[k] = sealed[k]
    BY <1>5, <2>1 DEF Sealed
  <2>3. \A f \in Events : pc'[f] = "push" => pc[f] = "push"
    BY <1>1 DEF Types
  <2>4. QED
    BY <1>1, <2>2, <2>3 DEF Sealed, Events
<1>11. OnePlace'
  <2>1. \A f \in Events : pc'[f] \in {"none", "fill"} <=> pc[f] \in {"none", "fill"}
    BY <1>1 DEF Types
  <2>2. QED
    BY <1>1, <2>1 DEF OnePlace, InFile, InMemory, Nowhere, Events
<1>12. ClosedIsDone'
  BY <1>1 DEF ClosedIsDone
<1>13. QED
  BY <1>6, <1>7, <1>8, <1>9, <1>10, <1>11, <1>12

\* A call that ends: its callback is released unless a task has it or had it.
LEMMA EndKeeps ==
  ASSUME IInv, NEW e \in Events, pc[e] \in {"stop", "add"},
         NEW to \in {"add", "returned"}, pc' = [pc EXCEPT ![e] = to],
         released' = released \/ Return(e),
         UNCHANGED <<next, lane, queue, ntuple>>
  PROVE  IInv'
<1> USE DEF IInv
<1>1. UNCHANGED <<queued, running, context, sealed, written, closed>> /\ ~closed
  BY DEF queue, ntuple, ClosedIsDone
<1>2. lane[e] \in Lanes /\ Flushing' = Flushing /\ Flushing \subseteq Lanes
  BY <1>1, FlushingLanes DEF CallsHaveLanes, Flushing
<1>3. \/ released' = released
      \/ released' = released \cup {e} /\ lane[e] \notin Flushing
  BY DEF Return, Moved, Flushing
<1>4. \A f \in Events : /\ pc'[f] = pc[f] \/ (f = e /\ pc'[f] = to)
                        /\ pc'[f] \in {"none", "fill"} <=> pc[f] \in {"none", "fill"}
                        /\ pc'[f] = "push" <=> pc[f] = "push"
                        /\ pc'[f] = "none" <=> pc[f] = "none"
                        /\ pc'[f] \in {"stop", "add", "returned"}
                             <=> pc[f] \in {"stop", "add", "returned"}
  BY DEF Types
<1>5. Types'
  BY <1>1, <1>3 DEF Types
<1>6. CallsHaveLanes'
  BY <1>3, <1>4 DEF CallsHaveLanes, Events
<1>7. OneCallPerLane'
  BY <1>3 DEF OneCallPerLane
<1>8. FlushHasCallback'
  <2> SUFFICES ASSUME NEW k \in Flushing
               PROVE  \E f \in Events : /\ lane[f] = k /\ f \notin released'
                                        /\ pc'[f] \in {"stop", "add", "returned"}
    BY <1>2 DEF FlushHasCallback, Events
  <2>1. PICK f \in Events : /\ lane[f] = k /\ f \notin released
                            /\ pc[f] \in {"stop", "add", "returned"}
    BY DEF FlushHasCallback
  <2>2. f \notin released'
    BY <1>3, <2>1
  <2>3. QED
    BY <1>4, <2>1, <2>2
<1>9. OneFlushPerLane' /\ ClosedIsDone'
  BY <1>1 DEF OneFlushPerLane, ClosedIsDone
<1>10. Sealed'
  BY <1>1, <1>2, <1>4 DEF Sealed, Events
<1>11. OnePlace'
  BY <1>1, <1>4 DEF OnePlace, InFile, InMemory, Nowhere, Events
<1>12. QED
  BY <1>5, <1>6, <1>7, <1>8, <1>9, <1>10, <1>11

LEMMA StopClockKeeps == ASSUME IInv, NEW e \in Events, StopClock(e) PROVE IInv'
<1>1. UNCHANGED <<next, lane, queue, ntuple>>
  BY DEF StopClock
<1>2. CASE Goto(e, "stop", "add") /\ released' = released
  BY <1>1, <1>2, EndKeeps DEF Goto
<1>3. CASE Goto(e, "stop", "returned") /\ Return(e)
  BY <1>1, <1>3, EndKeeps DEF Goto
<1>4. QED
  BY <1>2, <1>3 DEF StopClock

LEMMA AddTimeKeeps == ASSUME IInv, NEW e \in Events, AddTime(e) PROVE IInv'
BY EndKeeps DEF AddTime, Goto

LEMMA StartFlushKeeps == ASSUME IInv, StartFlush PROVE IInv'
<1> USE DEF IInv
<1>1. /\ running = {} /\ queued # <<>> /\ running' = {Head(queued)} /\ queued' = Tail(queued)
      /\ UNCHANGED <<next, lane, pc, released, context, sealed, written, closed>>
  BY DEF StartFlush, Queue!Begin, ntuple
<1>2. PICK l \in Lanes : l = Head(queued) /\ l = queued[1] /\ 1 \in DOMAIN queued
  BY <1>1 DEF Types
<1>3. /\ queued' \in Seq(Lanes)
      /\ \A i \in DOMAIN queued' : /\ i \in Nat \ {0} /\ i + 1 \in DOMAIN queued
                                   /\ queued'[i] = queued[i + 1]
  BY <1>1 DEF Types
<1>4. Flushing' \subseteq Flushing
  BY <1>1, <1>2, <1>3 DEF Flushing
<1>5. Types'
  BY <1>1, <1>2, <1>3 DEF Types
<1>6. OneFlushPerLane'
  <2>1. ASSUME NEW i \in DOMAIN queued' PROVE queued'[i] # l
    <3>1. i + 1 # 1 /\ i + 1 \in DOMAIN queued
      BY <1>3
    <3>2. QED
      BY <1>2, <1>3, <3>1 DEF OneFlushPerLane
  <2>2. ASSUME NEW i \in DOMAIN queued', NEW j \in DOMAIN queued', queued'[i] = queued'[j]
        PROVE  i = j
    <3>1. i + 1 = j + 1
      BY <1>3, <2>2 DEF OneFlushPerLane
    <3>2. QED
      BY <3>1, <1>3
  <2>3. QED
    BY <1>1, <1>2, <2>1, <2>2 DEF OneFlushPerLane
<1>7. CallsHaveLanes' /\ OneCallPerLane' /\ ClosedIsDone'
  BY <1>1 DEF CallsHaveLanes, OneCallPerLane, ClosedIsDone, Events
<1>8. FlushHasCallback' /\ Sealed'
  BY <1>1, <1>4 DEF FlushHasCallback, Sealed, Events
<1>9. OnePlace'
  BY <1>1 DEF OnePlace, InFile, InMemory, Nowhere, Events
<1>10. QED
  BY <1>5, <1>6, <1>7, <1>8, <1>9

\* The cluster is in the file, and only then the lane may go on.
LEMMA FinishFlushKeeps == ASSUME IInv, FinishFlush PROVE IInv'
<1> USE DEF IInv
<1>1. /\ running' = {} /\ queued' = queued
      /\ UNCHANGED <<next, lane, pc, sealed, closed>>
  BY DEF FinishFlush, Queue!Complete
<1>2. PICK l \in running : /\ Commit(context[l])
                           /\ context' = [context EXCEPT ![l] = {}]
                           /\ released' = released \cup {e \in Events : lane[e] = l}
  BY DEF FinishFlush
<1>3. l \in Lanes /\ l \in Flushing /\ running = {l}
  BY DEF Types, Flushing, OneFlushPerLane
\* the lane's only call is the one whose cluster this is, and it has filled
<1>4. PICK e \in Events : /\ lane[e] = l /\ e \notin released
                          /\ pc[e] \in {"stop", "add", "returned"}
  BY <1>3 DEF FlushHasCallback
<1>5. ~closed
  BY <1>4 DEF ClosedIsDone
<1>6. \A f \in Events : lane[f] = l /\ f \notin released => f = e
  BY <1>3, <1>4 DEF OneCallPerLane
<1>7. Flushing' \subseteq Flushing \ {l} /\ Flushing \subseteq Lanes
  BY <1>1, <1>3, FlushingLanes DEF Flushing, OneFlushPerLane
<1>8. \A k \in Lanes \ {l} : context'[k] = context[k]
  BY <1>2 DEF Types
<1>9. Types'
  <2>1. written' \in [Events -> Nat]
    BY <1>2, CommitTypes
  <2>2. QED
    BY <1>1, <1>2, <1>3, <2>1 DEF Types
<1>10. CallsHaveLanes'
  <2>1. \A f \in Events : f \in released' => f \in released \/ f = e
    BY <1>2, <1>6
  <2>2. QED
    BY <1>1, <1>4, <2>1 DEF CallsHaveLanes, Events
<1>11. OneCallPerLane'
  BY <1>1, <1>2 DEF OneCallPerLane
<1>12. FlushHasCallback'
  BY <1>1, <1>2, <1>7 DEF FlushHasCallback, Events
<1>13. OneFlushPerLane' /\ ClosedIsDone'
  BY <1>1, <1>3, <1>5 DEF OneFlushPerLane, ClosedIsDone
<1>14. Sealed'
  <2>1. \A f \in Events : pc[f] = "push" => lane[f] \in Lanes \ {l}
    BY <1>3, FillingIsNotFlushing DEF CallsHaveLanes
  <2>2. QED
    BY <1>1, <1>7, <1>8, <2>1 DEF Sealed, Events
<1>15. OnePlace'
  <2> SUFFICES ASSUME NEW f \in Events
               PROVE  IF pc[f] \in {"none", "fill"} THEN Nowhere(f)'
                                                    ELSE (InFile(f) \/ InMemory(f))'
    BY <1>1 DEF OnePlace, Events
  <2>1. InFile(f) \/ InMemory(f) \/ Nowhere(f)
    BY DEF OnePlace
  <2>2. PICK cluster : cluster = context[l]
    OBVIOUS
  <2>3. Commit(cluster) /\ context[l] \subseteq cluster /\ (f \in cluster => f \in context[l])
    BY <1>2, <2>2
  <2>4. /\ f \in cluster => InFile(f)'
        /\ f \notin cluster => /\ InFile(f) \/ InMemory(f) => (InFile(f) \/ InMemory(f))'
                               /\ Nowhere(f) => Nowhere(f)'
    BY <1>2, <1>3, <2>1, <2>3, CommitMoves DEF IInv
  <2>5. f \in cluster => ~Nowhere(f)
    BY <1>3, <2>2 DEF Nowhere
  <2>6. QED
    BY <2>4, <2>5 DEF OnePlace
<1>16. QED
  BY <1>9, <1>10, <1>11, <1>12, <1>13, <1>14, <1>15

\* All calls are done and have no callback, so that no flush is left: what the
\* contexts still have is written and the file is closed.
LEMMA PrintSummaryKeeps == ASSUME IInv, PrintSummary PROVE IInv'
<1> USE DEF IInv
<1> DEFINE left == UNION {context[l] : l \in Lanes}
<1>1. /\ \A e \in Events : pc[e] = "returned" /\ e \in released
      /\ context' = [l \in Lanes |-> {}] /\ closed' = TRUE
      /\ Commit(left)
      /\ UNCHANGED <<next, lane, pc, released, queued, running, sealed>>
  BY DEF PrintSummary, queue
<1>2. Flushing = {} /\ Flushing' = {}
  BY <1>1 DEF FlushHasCallback, Flushing
<1>3. Types'
  BY <1>1, CommitTypes DEF Types
<1>4. CallsHaveLanes' /\ OneCallPerLane' /\ OneFlushPerLane'
  BY <1>1 DEF CallsHaveLanes, OneCallPerLane, OneFlushPerLane, Events
<1>5. FlushHasCallback' /\ Sealed'
  BY <1>1, <1>2 DEF FlushHasCallback, Sealed, Events
<1>6. \A e \in Events : written'[e] = 1 /\ InFile(e)'
  <2> SUFFICES ASSUME NEW e \in Events PROVE written'[e] = 1 /\ InFile(e)'
    OBVIOUS
  <2>1. InFile(e) \/ InMemory(e)
    BY <1>1 DEF OnePlace
  <2>2. written'[e] = written[e] + IF e \in left THEN 1 ELSE 0
    BY <1>1 DEF Commit
  <2>3. CASE InFile(e)
    <3>1. e \notin left /\ written[e] = 1
      BY <2>3 DEF InFile
    <3>2. written'[e] = 1
      BY <2>2, <3>1
    <3>3. QED
      BY <1>1, <3>2 DEF InFile
  <2>4. CASE InMemory(e)
    <3>1. e \in left /\ written[e] = 0
      BY <2>4 DEF InMemory
    <3>2. written'[e] = 1
      BY <2>2, <3>1
    <3>3. QED
      BY <1>1, <3>2 DEF InFile
  <2>5. QED
    BY <2>1, <2>3, <2>4
<1>7. OnePlace' /\ ClosedIsDone'
  BY <1>1, <1>6 DEF OnePlace, ClosedIsDone, Events
<1>8. QED
  BY <1>3, <1>4, <1>5, <1>7

LEMMA OtherStepsKeep ==
  ASSUME IInv, UNCHANGED <<next, lane, pc, released, queue, ntuple>> PROVE IInv'
<1> USE DEF IInv, queue, ntuple
<1>1. Types' /\ CallsHaveLanes' /\ OneCallPerLane' /\ OneFlushPerLane' /\ ClosedIsDone'
  BY DEF Types, CallsHaveLanes, OneCallPerLane, OneFlushPerLane, ClosedIsDone, Events
<1>2. FlushHasCallback' /\ Sealed'
  BY DEF FlushHasCallback, Sealed, Flushing, Events
<1>3. OnePlace'
  BY DEF OnePlace, InFile, InMemory, Nowhere, Events
<1>4. QED
  BY <1>1, <1>2, <1>3

LEMMA NextKeeps == ASSUME NEvents \in Nat PROVE IInv /\ [Next]_vars => IInv'
<1> SUFFICES ASSUME IInv, [Next]_vars PROVE IInv'
  OBVIOUS
<1>1. CASE Tick
  BY <1>1, OtherStepsKeep DEF Tick
<1>2. ASSUME NEW l \in Lanes, Call(l) PROVE IInv'
  BY <1>2, CallKeeps
<1>3. ASSUME NEW e \in Events, CallStep(e) PROVE IInv'
  BY <1>3, FillProductsKeeps, PushFlushKeeps, StopClockKeeps, AddTimeKeeps DEF CallStep
<1>4. CASE StartFlush
  BY <1>4, StartFlushKeeps
<1>5. CASE FinishFlush
  BY <1>5, FinishFlushKeeps
<1>6. CASE PrintSummary
  BY <1>6, PrintSummaryKeeps
<1>7. CASE UNCHANGED vars
  BY <1>7, OtherStepsKeep DEF vars
<1>8. QED
  BY <1>1, <1>2, <1>3, <1>4, <1>5, <1>6, <1>7 DEF Next, Finished

\* A cluster is written as FlushColumns sealed it, since the lane has no event until
\* it is written; and the closed file has every event once, in both outputers.
THEOREM SealedClusters == ASSUME NEvents \in Nat PROVE Spec => []ClustersAsSealed
<1>1. IInv => ClustersAsSealed
  BY DEF IInv, Sealed, Flushing, ClosedIsDone, ClustersAsSealed
<1>2. QED
  BY <1>1, InitHolds, NextKeeps, PTL DEF Spec

----------------------------------------------------------------------------
\* The clock.  Its sum over calls is a fold, whose value is not found by expanding
\* it: TimesAdd shows that a function exists that adds up the times of any calls, in
\* whatever order they are taken, and TimeOfAdds that the fold is that function.  A
\* smallest set of calls for which that fails (SmallestSubset) takes the place of the
\* induction.

\* g adds up the times of the calls in S.
Adds(g, S, from, to) ==
  /\ g \in [SUBSET S -> Int]
  /\ g[{}] = 0
  /\ \A s \in SUBSET S : \A x \in s : g[s] = (to[x] - from[x]) + g[s \ {x}]
  /\ \A s \in SUBSET S : (\A x \in s : to[x] >= from[x]) => g[s] >= 0

\* Induction over the subsets of a finite set.
LEMMA SmallestSubset ==
  ASSUME NEW S, IsFiniteSet(S), NEW T, T \subseteq SUBSET S, T # {}
  PROVE  \E s \in T : \A r \in T : r \subseteq s => r = s
<1>1. IsWellFoundedOn(StrictSubsetOrdering(S), FiniteSubsetsOf(S))
  BY FS_StrictSubsetOrderingWellFounded
<1>2. T \subseteq FiniteSubsetsOf(S)
  BY FS_Subset DEF FiniteSubsetsOf
<1>3. \E s \in T : \A r \in T : ~ (<<r, s>> \in StrictSubsetOrdering(S))
  BY <1>1, <1>2, WFMin
<1>4. QED
  BY <1>3 DEF StrictSubsetOrdering

LEMMA TimesAdd ==
  ASSUME NEW S, IsFiniteSet(S), NEW from, NEW to, \A x \in S : to[x] \in Int /\ from[x] \in Int
  PROVE  \E g : Adds(g, S, from, to)
<1> DEFINE T == {s \in SUBSET S : ~ \E g : Adds(g, s, from, to)}
<1>1. SUFFICES ASSUME T # {} PROVE FALSE
  OBVIOUS
<1>2. PICK s \in T : \A r \in T : r \subseteq s => r = s
  <2>1. T \subseteq SUBSET S
    OBVIOUS
  <2> HIDE DEF T
  <2>2. QED
    BY <1>1, <2>1, SmallestSubset
<1>3. CASE s = {}
  <2> DEFINE g == [r \in SUBSET s |-> 0]
  <2>1. Adds(g, s, from, to)
    BY <1>3 DEF Adds
  <2>2. QED
    BY <1>2, <2>1
<1>4. CASE s # {}
  <2>1. PICK x \in s : TRUE
    BY <1>4
  <2>2. s \ {x} \in SUBSET S /\ s \ {x} \notin T
    BY <1>2, <2>1
  <2>3. PICK h : Adds(h, s \ {x}, from, to)
    BY <2>2
  <2>4. PICK d \in Int : d = to[x] - from[x]
    BY <1>2
  <2> DEFINE g == [r \in SUBSET s |-> IF x \in r THEN d + h[r \ {x}] ELSE h[r]]
  <2>5. /\ h \in [SUBSET (s \ {x}) -> Int] /\ h[{}] = 0
        /\ \A r \in SUBSET (s \ {x}) : \A y \in r : h[r] = (to[y] - from[y]) + h[r \ {y}]
        /\ \A r \in SUBSET (s \ {x}) : (\A y \in r : to[y] >= from[y]) => h[r] >= 0
    BY <2>3 DEF Adds
  <2>6. \A r \in SUBSET s : /\ r \ {x} \in SUBSET (s \ {x}) 
                            /\ x \notin r => r \in SUBSET (s \ {x})
    OBVIOUS
  <2>7. g \in [SUBSET s -> Int] /\ g[{}] = 0
    BY <2>5, <2>6
  <2>8. ASSUME NEW r \in SUBSET s, NEW y \in r PROVE g[r] = (to[y] - from[y]) + g[r \ {y}]
    <3>1. to[y] - from[y] \in Int /\ r \ {y} \in SUBSET s
      OBVIOUS
    <3>2. CASE x \notin r
      <4>1. g[r] = h[r] /\ g[r \ {y}] = h[r \ {y}]
        BY <3>1, <3>2
      <4>2. QED
        BY <4>1, <2>5, <2>6, <3>2
    <3>3. CASE x = y
      <4>1. g[r] = d + h[r \ {x}] /\ g[r \ {y}] = h[r \ {x}]
        BY <3>1, <3>3
      <4>2. QED
        BY <4>1, <2>4, <3>3
    <3>4. CASE x \in r /\ x # y
      <4>1. PICK q \in SUBSET (s \ {x}) : q = r \ {x}
        BY <2>6
      <4>2. y \in q /\ (r \ {y}) \ {x} = q \ {y} /\ q \ {y} \in SUBSET (s \ {x})
        BY <3>4, <4>1
      <4>3. g[r] = d + h[q] /\ g[r \ {y}] = d + h[q \ {y}]
        BY <3>1, <3>4, <4>1, <4>2
      <4>4. h[q] = (to[y] - from[y]) + h[q \ {y}] /\ h[q \ {y}] \in Int
        BY <2>5, <4>2
      <4>5. QED
        BY <3>1, <4>3, <4>4
    <3>5. QED
      BY <3>2, <3>3, <3>4
  <2>9. ASSUME NEW r \in SUBSET s, \A y \in r : to[y] >= from[y] PROVE g[r] >= 0
    <3>1. CASE x \in r
      <4>1. d >= 0 /\ h[r \ {x}] >= 0 /\ h[r \ {x}] \in Int
        BY <2>4, <2>5, <2>6, <2>9, <3>1
      <4>2. QED
        BY <3>1, <4>1
    <3>2. CASE x \notin r
      BY <2>5, <2>6, <2>9, <3>2
    <3>3. QED
      BY <3>1, <3>2
  <2>10. Adds(g, s, from, to)
    BY <2>7, <2>8, <2>9 DEF Adds
  <2>11. QED
    BY <1>2, <2>10
<1>5. QED
  BY <1>3, <1>4

LEMMA TimeOfAdds ==
  ASSUME NEW S, IsFiniteSet(S), NEW from, NEW to, NEW g, Adds(g, S, from, to),
         \A x \in S : to[x] \in Int /\ from[x] \in Int
  PROVE  TimeOf(S, from, to) = g[S]
<1> DEFINE pick(s) == CHOOSE x \in s : TRUE
           Step(iter) == [s \in SUBSET S |-> IF s = {} THEN 0
                            ELSE (to[pick(s)] - from[pick(s)]) + iter[s \ {pick(s)}]]
           it == CHOOSE iter : iter = Step(iter)
<1>1. TimeOf(S, from, to) = it[S]
  BY DEF TimeOf, MapThenSumSet, MapThenFoldSet
<1>2. \A s \in SUBSET S : s # {} => pick(s) \in s
  OBVIOUS
<1> HIDE DEF pick
<1>3. g = Step(g)
  BY <1>2 DEF Adds
<1>4. it = Step(it)
  BY <1>3
<1> HIDE DEF it
<1> DEFINE T == {s \in SUBSET S : it[s] # g[s]}
<1>5. SUFFICES ASSUME T # {} PROVE FALSE
  BY <1>1
<1>6. PICK s \in T : \A r \in T : r \subseteq s => r = s
  <2>1. T \subseteq SUBSET S
    OBVIOUS
  <2> HIDE DEF T
  <2>2. QED
    BY <1>5, <2>1, SmallestSubset
<1>7. CASE s = {}
  BY <1>3, <1>4, <1>6, <1>7
<1>8. CASE s # {}
  <2>1. PICK x \in s : x = pick(s)
    BY <1>2, <1>6, <1>8
  <2>2. s \ {x} \in SUBSET S /\ s \ {x} \notin T
    BY <1>6, <2>1
  <2>3. it[s] = (to[x] - from[x]) + it[s \ {x}]
    BY <1>4, <1>6, <1>8, <2>1
  <2>4. g[s] = (to[x] - from[x]) + g[s \ {x}]
    BY <1>3, <1>6, <1>8, <2>1
  <2>5. QED
    BY <1>6, <2>2, <2>3, <2>4
<1>9. QED
  BY <1>7, <1>8

\* What the proofs need of the sum: nothing takes no time, one call more adds its time,
\* and calls elsewhere do not count.
LEMMA TimeOfNone == ASSUME NEW from, NEW to PROVE TimeOf({}, from, to) = 0
<1>1. PICK g : Adds(g, {}, from, to)
  BY FS_EmptySet, TimesAdd
<1>2. TimeOf({}, from, to) = g[{}]
  BY <1>1, FS_EmptySet, TimeOfAdds
<1>3. QED
  BY <1>1, <1>2 DEF Adds

LEMMA TimeOfMore ==
  ASSUME NEW S, IsFiniteSet(S), NEW from, NEW to, NEW x \in S,
         \A y \in S : to[y] \in Int /\ from[y] \in Int
  PROVE  TimeOf(S, from, to) = (to[x] - from[x]) + TimeOf(S \ {x}, from, to)
<1>1. PICK g : Adds(g, S, from, to)
  BY TimesAdd
<1>2. IsFiniteSet(S \ {x})
  BY FS_Subset
<1> DEFINE h == [s \in SUBSET (S \ {x}) |-> g[s]]
<1>3. Adds(h, S \ {x}, from, to)
  <2>1. h \in [SUBSET (S \ {x}) -> Int] /\ h[{}] = 0
    BY <1>1 DEF Adds
  <2>2. \A s \in SUBSET (S \ {x}) : h[s] = g[s] /\ s \in SUBSET S
    OBVIOUS
  <2>3. ASSUME NEW s \in SUBSET (S \ {x}), NEW y \in s
        PROVE  h[s] = (to[y] - from[y]) + h[s \ {y}]
    <3>1. s \ {y} \in SUBSET (S \ {x})
      OBVIOUS
    <3>2. g[s] = (to[y] - from[y]) + g[s \ {y}]
      BY <1>1, <2>2 DEF Adds
    <3>3. QED
      BY <2>2, <3>1, <3>2
  <2>4. QED
    BY <1>1, <2>1, <2>2, <2>3 DEF Adds
<1>4. TimeOf(S, from, to) = g[S] /\ TimeOf(S \ {x}, from, to) = h[S \ {x}]
  <2>1. TimeOf(S, from, to) = g[S]
    BY <1>1, TimeOfAdds
  <2>2. TimeOf(S \ {x}, from, to) = h[S \ {x}]
    <3> HIDE DEF h
    <3> QED
      BY <1>2, <1>3, TimeOfAdds
  <2>3. QED
    BY <2>1, <2>2
<1>5. QED
  BY <1>1, <1>4 DEF Adds

LEMMA TimeOfSame ==
  ASSUME NEW S, IsFiniteSet(S), NEW from, NEW to, NEW from2, NEW to2,
         \A y \in S : /\ to[y] \in Int /\ from[y] \in Int
                      /\ to2[y] = to[y] /\ from2[y] = from[y]
  PROVE  TimeOf(S, from2, to2) = TimeOf(S, from, to)
<1>1. PICK g : Adds(g, S, from, to)
  BY TimesAdd
<1>2. Adds(g, S, from2, to2)
  BY <1>1 DEF Adds
<1>3. TimeOf(S, from, to) = g[S]
  BY <1>1, TimeOfAdds
<1>4. TimeOf(S, from2, to2) = g[S]
  BY <1>2, TimeOfAdds
<1>5. QED
  BY <1>3, <1>4

LEMMA TimeOfType ==
  ASSUME NEW S, IsFiniteSet(S), NEW from, NEW to,
         \A y \in S : to[y] \in Int /\ from[y] \in Int /\ to[y] >= from[y]
  PROVE  TimeOf(S, from, to) \in Nat
<1>1. PICK g : Adds(g, S, from, to)
  BY TimesAdd
<1>2. TimeOf(S, from, to) = g[S]
  BY <1>1, TimeOfAdds
<1>3. QED
  BY <1>1, <1>2 DEF Adds

\* The calls in progress are those that nConcurrentCalls_ counts; they all have the
\* time at which the first of them started, and the others that have yet to add their
\* time know when it ended.
InProgress == {e \in Events : pc[e] \in {"fill", "push", "stop"}}
Adding == {e \in Events : pc[e] = "add"}

ClockTypes == /\ now \in Nat /\ busy \in Nat /\ busy <= now /\ now <= MaxTime
              /\ start \in [Events -> Nat] /\ end \in [Events -> Nat]
              /\ \A e \in Events : start[e] <= now /\ end[e] <= now
              /\ wallclockStartTime_ \in Nat /\ wallclockStartTime_ <= now
              /\ wallclockTime_ \in Nat

ClockInv == /\ ClockTypes
            /\ nConcurrentCalls_ = Cardinality(InProgress)
            /\ \A e \in InProgress : start[e] = wallclockStartTime_
            /\ \A e \in Adding : start[e] <= end[e]
            /\ WallclockIsBusyTime

LEMMA Calls ==
  ASSUME NEvents \in Nat
  PROVE  /\ IsFiniteSet(Events) /\ Cardinality(Events) = NEvents
         /\ IsFiniteSet(InProgress) /\ IsFiniteSet(Adding)
         /\ Cardinality(InProgress) \in 0..NEvents
         /\ Cardinality(InProgress) = 0 <=> InProgress = {}
<1>1. IsFiniteSet(Events) /\ Cardinality(Events) = NEvents
  BY FS_Interval DEF Events
<1>2. InProgress \subseteq Events /\ Adding \subseteq Events
  BY DEF InProgress, Adding
<1>3. /\ IsFiniteSet(InProgress) /\ IsFiniteSet(Adding)
      /\ Cardinality(InProgress) <= NEvents
  BY <1>1, <1>2, FS_Subset
<1>4. Cardinality(InProgress) \in Nat /\ (Cardinality(InProgress) = 0 <=> InProgress = {})
  BY <1>3, FS_CardinalityType, FS_EmptySet
<1>5. QED
  BY <1>1, <1>3, <1>4

LEMMA ClockInit == ASSUME NEvents \in Nat, MaxTime \in Nat, Init PROVE ClockInv
<1> USE DEF Init
<1>1. InProgress = {} /\ Adding = {}
  BY DEF InProgress, Adding
<1>2. Cardinality(InProgress) = 0
  BY <1>1, FS_EmptySet
<1>3. ClockTypes
  BY DEF ClockTypes
<1>4. WallclockIsBusyTime
  <2>1. TimeOf(Adding, start, end) = 0
    BY <1>1, TimeOfNone
  <2>2. QED
    BY <2>1 DEF WallclockIsBusyTime, Adding
<1>5. QED
  BY <1>1, <1>2, <1>3, <1>4 DEF ClockInv

\* A tick passes for the calls in progress, once for all of them.
LEMMA TickCounts == ASSUME NEvents \in Nat, MaxTime \in Nat, ClockInv, Tick PROVE ClockInv'
<1> USE DEF Tick, clock
<1>1. InProgress' = InProgress /\ Adding' = Adding
  BY DEF InProgress, Adding, Events
<1>2. ClockTypes'
  BY DEF ClockInv, ClockTypes, Events
<1>3. /\ WallclockIsBusyTime /\ ClockTypes /\ nConcurrentCalls_ \in Nat
  BY Calls DEF ClockInv
<1>4. TimeOf(Adding, start, end) \in Nat
  BY Calls, TimeOfType DEF ClockInv, ClockTypes, Adding
<1>5. WallclockIsBusyTime'
  <2>1. wallclockTime_ + TimeOf(Adding, start, end)
           + (IF nConcurrentCalls_ > 0 THEN now - wallclockStartTime_ ELSE 0) = busy
    BY <1>3 DEF WallclockIsBusyTime, Adding
  <2>2. /\ now \in Int /\ busy \in Int /\ wallclockTime_ \in Int /\ wallclockStartTime_ \in Int
        /\ now' = now + 1 /\ busy' = busy + IF nConcurrentCalls_ > 0 THEN 1 ELSE 0
    BY <1>3 DEF ClockTypes
  <2>3. wallclockTime_ + TimeOf(Adding, start, end)
           + (IF nConcurrentCalls_ > 0 THEN now' - wallclockStartTime_ ELSE 0) = busy'
    BY <1>3, <1>4, <2>1, <2>2
  <2>4. UNCHANGED <<wallclockTime_, start, end, nConcurrentCalls_, wallclockStartTime_>>
    OBVIOUS
  <2>5. wallclockTime_' + TimeOf(Adding', start', end')
           + (IF nConcurrentCalls_' > 0 THEN now' - wallclockStartTime_' ELSE 0) = busy'
    BY <1>1, <2>3, <2>4
  <2>6. QED
    BY <2>5 DEF WallclockIsBusyTime, Adding
<1>6. QED
  BY <1>1, <1>2, <1>5 DEF ClockInv, Events

\* A call starts: the first one starts the clock, and no time is lost or gained.
LEMMA CallCounts ==
  ASSUME NEvents \in Nat, Types, ClockInv, NEW l \in Lanes, Call(l) PROVE ClockInv'
<1>1. PICK e \in Events : e = next
  BY DEF Call, Types, Events
<1>2. /\ pc[e] = "none" /\ pc' = [pc EXCEPT ![e] = "fill"]
      /\ StartClock(e) /\ UNCHANGED <<now, busy>>
      /\ pc \in [Events -> {"none", "fill", "push", "stop", "add", "returned"}]
  BY <1>1 DEF Call, Goto, Types
<1>3. InProgress' = InProgress \cup {e} /\ e \notin InProgress
  BY <1>2 DEF InProgress, Events
<1>4. Adding' = Adding /\ e \notin Adding
  BY <1>2 DEF Adding, Events
<1>5. Cardinality(InProgress') = Cardinality(InProgress) + 1
  BY <1>3, Calls, FS_AddElement
<1>6. /\ nConcurrentCalls_ = Cardinality(InProgress) /\ nConcurrentCalls_ \in Nat
      /\ nConcurrentCalls_ = 0 <=> InProgress = {}
      /\ ClockTypes
  BY Calls DEF ClockInv
<1>7. /\ start' = [start EXCEPT ![e] = wallclockStartTime_'] /\ end' = end
      /\ wallclockTime_' = wallclockTime_ /\ nConcurrentCalls_' = nConcurrentCalls_ + 1
      /\ wallclockStartTime_' = IF nConcurrentCalls_ = 0 THEN now ELSE wallclockStartTime_
  BY <1>2 DEF StartClock
<1>8. ClockTypes'
  <2>1. wallclockStartTime_' \in Nat /\ wallclockStartTime_' <= now
    BY <1>6, <1>7 DEF ClockTypes
  <2>2. start' \in [Events -> Nat] /\ \A f \in Events : start'[f] <= now
    BY <1>6, <1>7, <2>1 DEF ClockTypes
  <2>3. QED
    BY <1>2, <1>6, <1>7, <2>1, <2>2 DEF ClockTypes, Events
<1>9. \A f \in Adding : start'[f] = start[f] /\ start[f] <= end[f]
  BY <1>4, <1>6, <1>7 DEF ClockInv, ClockTypes, Adding
<1>10. TimeOf(Adding, start', end) = TimeOf(Adding, start, end)
  <2>1. \A f \in Adding : end[f] \in Int /\ start[f] \in Int
    BY <1>6 DEF ClockTypes, Adding
  <2>2. QED
    BY <1>9, <2>1, Calls, TimeOfSame
<1>11. WallclockIsBusyTime'
  <2>1. wallclockTime_ + TimeOf(Adding, start, end)
           + (IF nConcurrentCalls_ > 0 THEN now - wallclockStartTime_ ELSE 0) = busy
    BY DEF ClockInv, WallclockIsBusyTime, Adding
  <2>2. TimeOf(Adding, start, end) \in Nat
    BY <1>6, <1>9, Calls, TimeOfType DEF ClockTypes, Adding
  <2>3. wallclockTime_' + TimeOf(Adding, start', end)
           + (IF nConcurrentCalls_' > 0 THEN now' - wallclockStartTime_' ELSE 0) = busy'
    BY <1>2, <1>6, <1>7, <1>10, <2>1, <2>2 DEF ClockTypes
  <2>4. QED
    BY <1>4, <1>7, <2>3 DEF WallclockIsBusyTime, Adding
<1>12. \A f \in InProgress' : start'[f] = wallclockStartTime_'
  BY <1>3, <1>6, <1>7 DEF ClockInv, ClockTypes, InProgress
<1>13. QED
  BY <1>4, <1>5, <1>6, <1>7, <1>8, <1>9, <1>11, <1>12 DEF ClockInv

\* A call between its start and its end leaves the clock alone.
LEMMA QuietCounts ==
  ASSUME NEvents \in Nat, ClockInv, InProgress' = InProgress, Adding' = Adding,
         UNCHANGED <<now, busy, clock>>
  PROVE  ClockInv'
<1> USE DEF clock
<1>1. ClockTypes'
  BY DEF ClockInv, ClockTypes, Events
<1>2. WallclockIsBusyTime'
  BY DEF ClockInv, WallclockIsBusyTime, Adding
<1>3. QED
  BY <1>1, <1>2 DEF ClockInv

\* The last call in progress has the time since the first one started.
LEMMA StopCounts ==
  ASSUME NEvents \in Nat, Types, ClockInv, NEW e \in Events, StopClock(e) PROVE ClockInv'
<1>1. /\ pc[e] = "stop" /\ e \in InProgress /\ e \notin Adding
      /\ pc' = [pc EXCEPT ![e] = IF nConcurrentCalls_ = 1 THEN "add" ELSE "returned"]
      /\ nConcurrentCalls_' = nConcurrentCalls_ - 1
      /\ UNCHANGED <<now, busy, wallclockTime_, start>>
      /\ pc \in [Events -> {"none", "fill", "push", "stop", "add", "returned"}]
  BY DEF StopClock, Goto, Types, InProgress, Adding
<1>2. InProgress' = InProgress \ {e}
  BY <1>1 DEF InProgress, Events
<1>3. /\ nConcurrentCalls_ = Cardinality(InProgress) /\ nConcurrentCalls_ \in Nat
      /\ ClockTypes /\ start[e] = wallclockStartTime_
  BY <1>1, Calls DEF ClockInv
<1>4. Cardinality(InProgress') = Cardinality(InProgress) - 1 /\ nConcurrentCalls_ > 0
  <2>1. Cardinality(InProgress \ {e}) = Cardinality(InProgress) - 1
    BY <1>1, Calls, FS_RemoveElement
  <2>2. nConcurrentCalls_ # 0
    BY <1>1, <1>3, Calls
  <2>3. QED
    BY <1>2, <1>3, <2>1, <2>2
<1>5. wallclockTime_ + TimeOf(Adding, start, end) + (now - wallclockStartTime_) = busy
  BY <1>4, <1>3 DEF ClockInv, WallclockIsBusyTime, Adding
<1>6. \A f \in Adding : start[f] <= end[f] /\ start[f] \in Int /\ end[f] \in Int
  BY <1>3 DEF ClockInv, ClockTypes, Adding
<1>7. TimeOf(Adding, start, end) \in Nat
  BY <1>6, Calls, TimeOfType
<1>8. CASE nConcurrentCalls_ = 1
  <2>1. end' = [end EXCEPT ![e] = now] /\ wallclockStartTime_' = now
    BY <1>8 DEF StopClock
  <2>2. Adding' = Adding \cup {e}
    BY <1>1, <1>8 DEF Adding, Events
  <2>3. ClockTypes'
    BY <1>1, <1>3, <2>1 DEF ClockTypes, Events
  <2>4. InProgress' = {}
    <3>1. IsFiniteSet(InProgress')
      BY <1>2, Calls, FS_Subset
    <3>2. Cardinality(InProgress') = 0
      BY <1>3, <1>4, <1>8
    <3>3. QED
      BY <3>1, <3>2, FS_EmptySet
  <2>5. \A f \in Adding' : /\ start[f] <= end'[f] /\ start[f] \in Int /\ end'[f] \in Int
                           /\ f # e => end'[f] = end[f]
    BY <1>3, <1>6, <2>1, <2>2 DEF ClockTypes, Adding
  <2>6. TimeOf(Adding', start, end') = (now - start[e]) + TimeOf(Adding, start, end)
    <3>1. IsFiniteSet(Adding') /\ e \in Adding' /\ Adding' \ {e} = Adding
      BY <1>1, <2>2, Calls, FS_AddElement
    <3>2. TimeOf(Adding', start, end') = (end'[e] - start[e]) + TimeOf(Adding, start, end')
      BY <2>5, <3>1, TimeOfMore
    <3>3. TimeOf(Adding, start, end') = TimeOf(Adding, start, end)
      <4>1. \A f \in Adding : end'[f] = end[f]
        BY <1>1, <2>2, <2>5
      <4>2. QED
        BY <1>6, <4>1, Calls, TimeOfSame
    <3>4. end'[e] = now
      BY <1>3, <2>1 DEF ClockTypes
    <3>5. QED
      BY <3>2, <3>3, <3>4
  <2>7. wallclockTime_' + TimeOf(Adding', start', end')
           + (IF nConcurrentCalls_' > 0 THEN now' - wallclockStartTime_' ELSE 0) = busy'
    BY <1>1, <1>3, <1>5, <1>7, <1>8, <2>6 DEF ClockTypes
  <2>8. WallclockIsBusyTime'
    BY <2>7 DEF WallclockIsBusyTime, Adding
  <2>9. QED
    BY <1>1, <1>3, <1>4, <2>3, <2>4, <2>5, <2>8 DEF ClockInv
<1>9. CASE nConcurrentCalls_ # 1
  <2>1. end' = end /\ wallclockStartTime_' = wallclockStartTime_
    BY <1>9 DEF StopClock
  <2>2. Adding' = Adding
    BY <1>1, <1>9 DEF Adding, Events
  <2>3. ClockTypes'
    BY <1>1, <1>3, <2>1 DEF ClockTypes, Events
  <2>4. wallclockTime_' + TimeOf(Adding', start', end')
           + (IF nConcurrentCalls_' > 0 THEN now' - wallclockStartTime_' ELSE 0) = busy'
    BY <1>1, <1>3, <1>4, <1>5, <1>9, <2>1, <2>2
  <2>5. WallclockIsBusyTime'
    BY <2>4 DEF WallclockIsBusyTime, Adding
  <2>6. QED
    BY <1>1, <1>2, <1>3, <1>4, <1>6, <2>1, <2>2, <2>3, <2>5 DEF ClockInv
<1>10. QED
  BY <1>8, <1>9

\* The time of a call leaves the sum for wallclockTime_.
LEMMA AddTimeCounts ==
  ASSUME NEvents \in Nat, Types, ClockInv, NEW e \in Events, AddTime(e) PROVE ClockInv'
<1>1. /\ e \in Adding /\ pc' = [pc EXCEPT ![e] = "returned"]
      /\ wallclockTime_' = wallclockTime_ + (end[e] - start[e])
      /\ UNCHANGED <<now, busy, nConcurrentCalls_, wallclockStartTime_, start, end>>
      /\ pc \in [Events -> {"none", "fill", "push", "stop", "add", "returned"}]
  BY DEF AddTime, Goto, Types, Adding
<1>2. InProgress' = InProgress /\ Adding' = Adding \ {e}
  BY <1>1 DEF InProgress, Adding, Events
<1>3. ClockTypes /\ \A f \in Adding : start[f] <= end[f] /\ start[f] \in Int /\ end[f] \in Int
  BY DEF ClockInv, ClockTypes, Adding
<1>4. TimeOf(Adding, start, end) = (end[e] - start[e]) + TimeOf(Adding', start, end)
  BY <1>1, <1>2, <1>3, Calls, TimeOfMore
<1>5. TimeOf(Adding', start, end) \in Nat
  <2>1. IsFiniteSet(Adding')
    BY <1>2, Calls, FS_Subset
  <2>2. QED
    BY <1>2, <1>3, <2>1, TimeOfType
<1>6. ClockTypes'
  BY <1>1, <1>3 DEF ClockTypes, Events
<1>7. wallclockTime_' + TimeOf(Adding', start', end')
         + (IF nConcurrentCalls_' > 0 THEN now' - wallclockStartTime_' ELSE 0) = busy'
  <2>1. wallclockTime_ + TimeOf(Adding, start, end)
           + (IF nConcurrentCalls_ > 0 THEN now - wallclockStartTime_ ELSE 0) = busy
    BY DEF ClockInv, WallclockIsBusyTime, Adding
  <2>2. wallclockTime_ \in Nat /\ end[e] - start[e] \in Int
    BY <1>1, <1>3 DEF ClockTypes
  <2>3. QED
    BY <1>1, <1>4, <1>5, <2>1, <2>2
<1>8. WallclockIsBusyTime'
  BY <1>7 DEF WallclockIsBusyTime, Adding
<1>9. QED
  BY <1>1, <1>2, <1>3, <1>6, <1>8 DEF ClockInv

LEMMA ClockNext ==
  ASSUME NEvents \in Nat, MaxTime \in Nat, Types, ClockInv, [Next]_vars PROVE ClockInv'
<1>1. CASE Tick
  BY <1>1, TickCounts
<1>2. ASSUME NEW l \in Lanes, Call(l) PROVE ClockInv'
  BY <1>2, CallCounts
<1>3. ASSUME NEW e \in Events, CallStep(e) PROVE ClockInv'
  <2>1. CASE FillProducts(e) \/ PushFlush(e)
    <3>1. /\ pc[e] \in {"fill", "push"} /\ UNCHANGED <<now, busy, clock>>
          /\ \E to \in {"push", "stop"} : pc' = [pc EXCEPT ![e] = to]
      BY <2>1 DEF FillProducts, PushFlush, FillNoFlush, FillAndFlush, Goto
    <3>2. InProgress' = InProgress /\ Adding' = Adding
      BY <3>1 DEF InProgress, Adding, Events, Types
    <3>3. QED
      BY <3>1, <3>2, QuietCounts
  <2>2. QED
    BY <1>3, <2>1, StopCounts, AddTimeCounts DEF CallStep
<1>4. CASE StartFlush \/ FinishFlush \/ PrintSummary \/ UNCHANGED vars
  <2>1. UNCHANGED <<now, busy, pc, clock>>
    BY <1>4 DEF StartFlush, FinishFlush, PrintSummary, vars
  <2>2. InProgress' = InProgress /\ Adding' = Adding
    BY <2>1 DEF InProgress, Adding, Events
  <2>3. QED
    BY <2>1, <2>2, QuietCounts
<1>5. QED
  BY <1>1, <1>2, <1>3, <1>4 DEF Next, Finished

\* The clock shows the time in which a call was running, each moment once, whichever
\* calls overlap and however late the last of them adds its time.
THEOREM WallclockCounts ==
  ASSUME NEvents \in Nat, MaxTime \in Nat PROVE Spec => []WallclockIsBusyTime
<1>1. Init => IInv /\ ClockInv
  BY InitHolds, ClockInit
<1>2. IInv /\ ClockInv /\ [Next]_vars => (IInv /\ ClockInv)'
  BY NextKeeps, ClockNext DEF IInv
<1>3. IInv /\ ClockInv => WallclockIsBusyTime
  BY DEF ClockInv
<1>4. QED
  BY <1>1, <1>2, <1>3, PTL DEF Spec

\* The clock's count and times too are in their ranges: the time measured is never
\* more than the time that went by.
LEMMA TypesImplied ==
  ASSUME NEvents \in Nat, MaxTime \in Nat, IInv, ClockInv PROVE TypeOK
<1>1. ClockTypes /\ nConcurrentCalls_ \in 0..NEvents
  BY Calls DEF ClockInv
<1>2. TimeOf(Adding, start, end) \in Nat
  BY <1>1, Calls, TimeOfType DEF ClockInv, ClockTypes, Adding
<1>3. wallclockTime_ <= busy
  BY <1>1, <1>2 DEF ClockInv, ClockTypes, WallclockIsBusyTime, Adding
<1>4. /\ now \in 0..MaxTime /\ busy \in 0..MaxTime
      /\ wallclockStartTime_ \in 0..MaxTime /\ wallclockTime_ \in 0..MaxTime
  BY <1>1, <1>3 DEF ClockTypes
<1>5. start \in [Events -> 0..MaxTime] /\ end \in [Events -> 0..MaxTime]
  BY <1>1 DEF ClockTypes
<1>6. QED
  BY <1>1, <1>4, <1>5 DEF IInv, Types, TypeOK

\* The variables of the calls, the clock, the contexts and the file keep their types.
THEOREM TypeCorrect ==
  ASSUME NEvents \in Nat, MaxTime \in Nat PROVE Spec => []TypeOK
<1>1. Init => IInv /\ ClockInv
  BY InitHolds, ClockInit
<1>2. IInv /\ ClockInv /\ [Next]_vars => (IInv /\ ClockInv)'
  BY NextKeeps, ClockNext DEF IInv
<1>3. IInv /\ ClockInv => TypeOK
  BY TypesImplied
<1>4. QED
  BY <1>1, <1>2, <1>3, PTL DEF Spec
=============================================================================
