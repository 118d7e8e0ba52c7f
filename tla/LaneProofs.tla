----------------------------- MODULE LaneProofs -----------------------------
(***************************************************************************)
(* The proofs about Lane.  The TaskHolders of a lane always form a tree:   *)
(* every object that is alive owns exactly one holder, whose task is       *)
(* waiting, and following the holders leads to finalTask.  An event task   *)
(* that runs processEventAsync owns one more, to the task that outputs the *)
(* event.  Of the tasks that start an event only one waits at a time.      *)
(***************************************************************************)
EXTENDS Lane, FiniteSetTheorems, TLAPS

----------------------------------------------------------------------------
\* The tree of holders

AfterWait(e, p) == IF UsesProductReady THEN Ready(e, p) ELSE Out(e)
First(e, p) == IF UseWaiter THEN WaitTask(e, p) ELSE AfterWait(e, p)

\* The task that the holder of object o belongs to.
Succ(o) == CASE o[1] \in {"start", "read", "next"} -> Final
             [] o[1] \in {"out", "output"} -> NextTask(o[2])
             [] o[1] \in {"ready", "serialize"} -> Out(o[2])
             [] o[1] \in {"wait", "sleep"} -> AfterWait(o[2], o[3])
             [] o[1] = "fetch" -> First(o[2], o[3])
             [] OTHER -> Handle

Roots == {Final, Handle}
Held(l) == Targets(holds[l])
Local(e) == <<Read(e), Out(e)>>   \* the local variable of processEventAsync

Kinds(l) ==
  /\ pending[l] \subseteq Objects /\ active[l] \subseteq Objects
  /\ external[l] \subseteq Objects /\ holds[l] \subseteq Objects \X Objects
  /\ \A o \in pending[l] : o[1] \notin {"fetch", "serialize", "output"}
  /\ \A o \in active[l] : o[1] \in {"start", "read", "next", "out", "wait", "ready"}
  /\ \A o \in external[l] : o[1] \in {"read", "fetch", "serialize", "output"}
  /\ \A o \in Held(l) : o[1] \in {"final", "next", "out", "wait", "ready"}

Apart(l) ==
  /\ pending[l] \cap active[l] = {}
  /\ external[l] \cap (pending[l] \cup active[l]) = {}
  /\ Held(l) \cap (pending[l] \cup active[l] \cup external[l]) = {}

Tree(l) ==
  /\ \A h \in holds[l] : /\ h[1] \in Live(l) \ Roots
                         /\ \/ h[2] = Succ(h[1])
                            \/ \E e \in Events : h = Local(e) /\ Read(e) \in active[l]
  /\ \A o \in Live(l) \ Roots : <<o, Succ(o)>> \in holds[l]

----------------------------------------------------------------------------
\* What the lane is about to do

Waiting(l) == {o \in pending[l] \cup external[l] \cup Held(l) :
                 o[1] \in {"start", "read", "next"}}

NReadable == IF NEvents <= InSource THEN NEvents ELSE InSource

OneTurn(l) ==
  /\ \A a, b \in Waiting(l) : a = b
  /\ Start \in Waiting(l) => presentEventIndex[l] = -1
  /\ \A o \in Waiting(l) : o # Start => o[2] = presentEventIndex[l] /\ o[2] < NEvents
  /\ \A o \in pending[l] \cup Held(l) : o[1] \in {"read", "next"} => o[2] < NReadable
  /\ l < main /\ Waiting(l) = {} => presentEventIndex[l] >= NReadable

Past(l) ==
  /\ \A o \in Live(l) : o[1] \notin {"start", "final", "handle"} => o[2] <= presentEventIndex[l]
  /\ \A o \in active[l] : o[1] = "next" => o[2] < presentEventIndex[l]

Asked(l) ==
  /\ asked[l] \in 0..NProducts
  /\ \A o \in Live(l) : o[1] \in ProductKinds => o[3] <= asked[l]
  /\ \A e \in Events : Out(e) \in Live(l) /\ Local(e) \notin holds[l] => asked[l] = NProducts
  /\ \A e \in Events : Output(e) \in external[l] => Out(e) \notin Held(l) /\ asked[l] = NProducts

\* from the launch of the lane to the wait for its group
Ends(l) ==
  /\ deferred[l] \in BOOLEAN
  /\ l < main => (deferred[l] <=> Final \in Live(l))
  /\ main <= l => Live(l) = {} /\ presentEventIndex[l] = -1 /\ ~deferred[l]
  /\ NLanes + l < main => Live(l) = {} /\ ~deferred[l]
  /\ finals[l] = IF l < main /\ ~deferred[l] THEN 1 ELSE 0

LaneInv(l) == Kinds(l) /\ Apart(l) /\ Tree(l) /\ OneTurn(l) /\ Past(l) /\ Asked(l) /\ Ends(l)

----------------------------------------------------------------------------
\* The lanes together

Ended == {l \in Lanes : presentEventIndex[l] >= NReadable}

Indexes ==
  /\ index \in Nat
  /\ \A l \in Lanes : presentEventIndex[l] < index
  /\ \A k, l \in Lanes : k # l /\ presentEventIndex[k] = presentEventIndex[l]
                           => presentEventIndex[l] = -1
  /\ Cardinality(Ended) = IF index <= NReadable THEN 0 ELSE index - NReadable

\* event e has an index and has yet to be output by lane l
Before(l, e) == \/ Read(e) \in pending[l] \cup external[l]
                \/ Out(e) \in pending[l] \cup Held(l)

Outputs ==
  \A e \in Events : outputs[e] = IF e < index /\ e < NReadable /\ \A l \in Lanes : ~Before(l, e)
                                 THEN 1 ELSE 0

Types ==
  /\ presentEventIndex \in [Lanes -> Events \cup {-1}]
  /\ asked \in [Lanes -> 0..NProducts]
  /\ holds \in [Lanes -> SUBSET (Objects \X Objects)]
  /\ pending \in [Lanes -> SUBSET Objects]
  /\ active \in [Lanes -> SUBSET Objects]
  /\ external \in [Lanes -> SUBSET Objects]
  /\ nested \in [Lanes -> SUBSET (Objects \X Objects)]
  /\ deferred \in [Lanes -> BOOLEAN]
  /\ main \in 0..(2 * NLanes)
  /\ finals \in [Lanes -> Nat]
  /\ outputs \in [Events -> Nat]

IInv == Types /\ (\A l \in Lanes : LaneInv(l)) /\ Indexes /\ Outputs

----------------------------------------------------------------------------
\* Lemmas about objects

Constructed(o) == \/ o \in {Start, Final, Handle}
                  \/ \E e \in Events : o \in {Read(e), NextTask(e), Out(e), Output(e)}
                  \/ \E e \in Events, p \in Products :
                       o \in {Fetch(e, p), WaitTask(e, p), Sleep(e, p), Ready(e, p), Serialize(e, p)}

\* The parts of each kind of object.
LEMMA Parts ==
  /\ Start[1] = "start" /\ Final[1] = "final" /\ Handle[1] = "handle"
  /\ \A e : /\ Read(e)[1] = "read" /\ Read(e)[2] = e
            /\ NextTask(e)[1] = "next" /\ NextTask(e)[2] = e
            /\ Out(e)[1] = "out" /\ Out(e)[2] = e
            /\ Output(e)[1] = "output" /\ Output(e)[2] = e
  /\ \A e, p : /\ Fetch(e, p)[1] = "fetch" /\ Fetch(e, p)[2] = e /\ Fetch(e, p)[3] = p
               /\ WaitTask(e, p)[1] = "wait" /\ WaitTask(e, p)[2] = e /\ WaitTask(e, p)[3] = p
               /\ Sleep(e, p)[1] = "sleep" /\ Sleep(e, p)[2] = e /\ Sleep(e, p)[3] = p
               /\ Ready(e, p)[1] = "ready" /\ Ready(e, p)[2] = e /\ Ready(e, p)[3] = p
               /\ Serialize(e, p)[1] = "serialize" /\ Serialize(e, p)[2] = e /\ Serialize(e, p)[3] = p
<1>1. /\ Start[1] = "start" /\ Final[1] = "final" /\ Handle[1] = "handle"
  BY DEF Start, Final, Handle
<1>2. \A e : /\ Read(e)[1] = "read" /\ Read(e)[2] = e
            /\ NextTask(e)[1] = "next" /\ NextTask(e)[2] = e
            /\ Out(e)[1] = "out" /\ Out(e)[2] = e
            /\ Output(e)[1] = "output" /\ Output(e)[2] = e
  BY DEF Read, NextTask, Out, Output
<1>3. \A e, p : /\ Fetch(e, p)[1] = "fetch" /\ Fetch(e, p)[2] = e /\ Fetch(e, p)[3] = p
               /\ WaitTask(e, p)[1] = "wait" /\ WaitTask(e, p)[2] = e /\ WaitTask(e, p)[3] = p
               /\ Sleep(e, p)[1] = "sleep" /\ Sleep(e, p)[2] = e /\ Sleep(e, p)[3] = p
               /\ Ready(e, p)[1] = "ready" /\ Ready(e, p)[2] = e /\ Ready(e, p)[3] = p
               /\ Serialize(e, p)[1] = "serialize" /\ Serialize(e, p)[2] = e /\ Serialize(e, p)[3] = p
  BY DEF Fetch, WaitTask, Sleep, Ready, Serialize
<1>4. QED
  BY <1>1, <1>2, <1>3

\* Objects holds what the constructors give and nothing else.
LEMMA ObjectForm == \A o : o \in Objects <=> Constructed(o)
  BY DEF Objects, Constructed, ProductKinds, Start, Final, Handle, Read, NextTask, Out, Output,
         Fetch, WaitTask, Sleep, Ready, Serialize

\* An object is known by its kind, its event and its product.
LEMMA ObjectKinds ==
  \A o \in Objects :
    /\ o[1] \in {"start", "final", "handle", "read", "next", "out", "output"} \cup ProductKinds
    /\ o[1] = "start" => o = Start
    /\ o[1] = "final" => o = Final
    /\ o[1] = "handle" => o = Handle
    /\ o[1] = "read" => o = Read(o[2])
    /\ o[1] = "next" => o = NextTask(o[2])
    /\ o[1] = "out" => o = Out(o[2])
    /\ o[1] = "output" => o = Output(o[2])
    /\ o[1] \notin {"start", "final", "handle"} => o[2] \in Events
    /\ o[1] \in ProductKinds => o[3] \in Products
<1> SUFFICES ASSUME NEW o \in Objects
             PROVE  /\ o[1] \in {"start", "final", "handle", "read", "next", "out", "output"} \cup ProductKinds
                    /\ o[1] = "start" => o = Start
                    /\ o[1] = "final" => o = Final
                    /\ o[1] = "handle" => o = Handle
                    /\ o[1] = "read" => o = Read(o[2])
                    /\ o[1] = "next" => o = NextTask(o[2])
                    /\ o[1] = "out" => o = Out(o[2])
                    /\ o[1] = "output" => o = Output(o[2])
                    /\ o[1] \notin {"start", "final", "handle"} => o[2] \in Events
                    /\ o[1] \in ProductKinds => o[3] \in Products
  OBVIOUS
<1>1. Constructed(o)
  BY ObjectForm
<1>2. CASE o \in {Start, Final, Handle}
  BY <1>2, Parts DEF ProductKinds
<1>3. CASE \E e \in Events : o \in {Read(e), NextTask(e), Out(e), Output(e)}
  BY <1>3, Parts DEF ProductKinds
<1>4. CASE \E e \in Events, p \in Products :
             o \in {Fetch(e, p), WaitTask(e, p), Sleep(e, p), Ready(e, p), Serialize(e, p)}
  BY <1>4, Parts DEF ProductKinds
<1>5. QED
  BY <1>1, <1>2, <1>3, <1>4 DEF Constructed

\* The objects of an event and of a product.
LEMMA ObjectsMade ==
  /\ Start \in Objects /\ Final \in Objects /\ Handle \in Objects
  /\ \A e \in Events : /\ Read(e) \in Objects /\ NextTask(e) \in Objects
                       /\ Out(e) \in Objects /\ Output(e) \in Objects
  /\ \A e \in Events, p \in Products :
       /\ Fetch(e, p) \in Objects /\ WaitTask(e, p) \in Objects /\ Sleep(e, p) \in Objects
       /\ Ready(e, p) \in Objects /\ Serialize(e, p) \in Objects
  BY ObjectForm DEF Constructed

\* The task that each kind of object holds.
LEMMA SuccForms ==
  \A o \in Objects :
    /\ o[1] \in {"start", "read", "next"} => Succ(o) = Final
    /\ o[1] \in {"out", "output"} => Succ(o) = NextTask(o[2])
    /\ o[1] \in {"ready", "serialize"} => Succ(o) = Out(o[2])
    /\ o[1] \in {"wait", "sleep"} => Succ(o) = AfterWait(o[2], o[3])
    /\ o[1] = "fetch" => Succ(o) = First(o[2], o[3])
  BY DEF Succ

SuccOf(o, s) ==
  /\ s \in Objects /\ s[1] \in {"final", "next", "out", "wait", "ready"}
  /\ s[1] # "final" => s[2] = o[2]
  /\ s[1] \in {"wait", "ready"} => s[3] = o[3]
  /\ o[1] \in {"start", "read", "next"} => s[1] = "final"
  /\ o[1] \in {"out", "output"} => s[1] = "next"
  /\ o[1] \in {"ready", "serialize"} => s[1] = "out"
  /\ o[1] \in {"wait", "sleep"} => s[1] \in {"out", "ready"}
  /\ o[1] = "fetch" => s[1] \in {"out", "ready", "wait"}

\* A holder leads one level up, within the same event and product.
LEMMA SuccType == \A o \in Objects \ Roots : SuccOf(o, Succ(o))
<1> SUFFICES ASSUME NEW o \in Objects \ Roots PROVE SuccOf(o, Succ(o))
  OBVIOUS
<1>1. o[1] \in {"start", "read", "next", "out", "output"} \cup ProductKinds
  BY ObjectKinds DEF Roots
<1>2. CASE o[1] \in {"start", "read", "next"}
  <2>1. Succ(o) = Final /\ Final \in Objects /\ Final[1] = "final"
    BY <1>2, SuccForms, Parts, ObjectsMade
  <2>2. QED
    BY <1>2, <2>1 DEF SuccOf
<1>3. CASE o[1] \in {"out", "output"}
  <2>1. o[2] \in Events
    BY <1>3, ObjectKinds
  <2>2. Succ(o) = NextTask(o[2])
    BY <1>3, SuccForms
  <2>3. NextTask(o[2]) \in Objects /\ NextTask(o[2])[1] = "next" /\ NextTask(o[2])[2] = o[2]
    BY <2>1, Parts, ObjectsMade
  <2>4. QED
    BY <1>3, <2>2, <2>3 DEF SuccOf
<1>4. CASE o[1] \in ProductKinds
  <2>1. o[2] \in Events /\ o[3] \in Products
    BY <1>4, ObjectKinds DEF ProductKinds
  <2>2. Out(o[2]) \in Objects /\ Out(o[2])[1] = "out" /\ Out(o[2])[2] = o[2]
    BY <2>1, Parts, ObjectsMade
  <2>3. /\ Ready(o[2], o[3]) \in Objects /\ Ready(o[2], o[3])[1] = "ready"
        /\ Ready(o[2], o[3])[2] = o[2] /\ Ready(o[2], o[3])[3] = o[3]
    BY <2>1, Parts, ObjectsMade
  <2>4. /\ WaitTask(o[2], o[3]) \in Objects /\ WaitTask(o[2], o[3])[1] = "wait"
        /\ WaitTask(o[2], o[3])[2] = o[2] /\ WaitTask(o[2], o[3])[3] = o[3]
    BY <2>1, Parts, ObjectsMade
  <2>5. CASE o[1] \in {"ready", "serialize"}
    <3>1. Succ(o) = Out(o[2])
      BY <2>5, SuccForms
    <3>2. QED
      BY <2>5, <2>2, <3>1 DEF SuccOf
  <2>6. CASE o[1] \in {"wait", "sleep"}
    <3>1. Succ(o) \in {Out(o[2]), Ready(o[2], o[3])}
      BY <2>6, SuccForms DEF AfterWait
    <3>2. QED
      BY <2>6, <2>2, <2>3, <3>1 DEF SuccOf
  <2>7. CASE o[1] = "fetch"
    <3>1. Succ(o) \in {Out(o[2]), Ready(o[2], o[3]), WaitTask(o[2], o[3])}
      BY <2>7, SuccForms DEF AfterWait, First
    <3>2. QED
      BY <2>7, <2>2, <2>3, <2>4, <3>1 DEF SuccOf
  <2>8. QED
    BY <1>4, <2>5, <2>6, <2>7 DEF ProductKinds
<1>5. QED
  BY <1>1, <1>2, <1>3, <1>4

\* Whatever is alive has finalTask waiting for it, an event's output and products
\* the lane's next task, and its products the task that outputs the event.
LEMMA Chain ==
  ASSUME NEW l, Kinds(l), Tree(l)
  PROVE  /\ Live(l) \subseteq Objects
         /\ \A o \in Live(l) \ Roots : Succ(o) \in Held(l) /\ Final \in Held(l)
         /\ \A o \in Live(l) : o[1] \in ProductKinds \cup {"out", "output"}
                                 => NextTask(o[2]) \in Held(l)
         /\ \A o \in Live(l) : o[1] \in ProductKinds => Out(o[2]) \in Held(l)
<1>1. Live(l) \subseteq Objects
  BY DEF Kinds, Live, Targets
<1>2. \A o \in Live(l) \ Roots : Succ(o) \in Held(l)
  <2> SUFFICES ASSUME NEW o \in Live(l) \ Roots PROVE Succ(o) \in Held(l)
    OBVIOUS
  <2>1. <<o, Succ(o)>> \in holds[l]
    BY DEF Tree
  <2>2. QED
    BY <2>1 DEF Held, Targets
<1>3. Held(l) \subseteq Live(l)
  BY DEF Held, Live
<1>4. \A o \in Live(l) \ Roots : Succ(o)[1] # "final" => Succ(o) \in Live(l) \ Roots
  BY <1>1, <1>2, <1>3, SuccType, Parts DEF SuccOf, Roots
<1>5. \A o \in Live(l) : o[1] \in {"start", "read", "next"} => Final \in Held(l)
  BY <1>1, <1>2, SuccForms, Parts DEF Roots
<1>6. \A o \in Live(l) : o[1] \in {"out", "output"} => NextTask(o[2]) \in Held(l)
  BY <1>1, <1>2, SuccForms, Parts DEF Roots
<1>7. \A o \in Live(l) : o[1] \in {"out", "output"} => Final \in Held(l)
  BY <1>3, <1>5, <1>6, Parts
<1>8. \A o \in Live(l) : o[1] \in {"ready", "serialize"} => Out(o[2]) \in Held(l)
  BY <1>1, <1>2, SuccForms, Parts DEF Roots
<1>9. \A o \in Live(l) : o[1] \in ProductKinds => Out(o[2]) \in Held(l)
  <2> SUFFICES ASSUME NEW o \in Live(l), o[1] \in ProductKinds PROVE Out(o[2]) \in Held(l)
    OBVIOUS
  <2>1. o \in Live(l) \ Roots
    BY Parts DEF Roots, ProductKinds
  <2>2. Succ(o) \in Live(l) /\ Succ(o) \in Held(l) /\ Succ(o) \in Objects /\ SuccOf(o, Succ(o))
    BY <1>1, <1>2, <1>3, <2>1, SuccType
  <2>3. Succ(o)[2] = o[2] /\ Succ(o)[1] \in {"out", "ready", "wait"}
    BY <2>2 DEF SuccOf, ProductKinds
  <2>4. CASE Succ(o)[1] = "out"
    BY <2>2, <2>3, <2>4, ObjectKinds
  <2>5. CASE Succ(o)[1] = "ready"
    BY <1>8, <2>2, <2>3, <2>5
  <2>6. CASE Succ(o)[1] = "wait"
    <3>1. Succ(o) \in Live(l) \ Roots
      BY <2>2, <2>6, Parts DEF Roots
    <3> DEFINE s == Succ(Succ(o))
    <3>2. s \in Live(l) /\ s \in Held(l) /\ s \in Objects /\ SuccOf(Succ(o), s)
      BY <1>1, <1>2, <1>3, <3>1, SuccType
    <3>3. s[2] = o[2] /\ s[1] \in {"out", "ready"}
      BY <2>3, <2>6, <3>2 DEF SuccOf
    <3> HIDE DEF s
    <3>4. CASE s[1] = "out"
      BY <3>2, <3>3, <3>4, ObjectKinds
    <3>5. CASE s[1] = "ready"
      BY <1>8, <3>2, <3>3, <3>5
    <3>6. QED
      BY <3>3, <3>4, <3>5
  <2>7. QED
    BY <2>3, <2>4, <2>5, <2>6
<1>10. \A o \in Live(l) : o[1] \in ProductKinds => NextTask(o[2]) \in Held(l) /\ Final \in Held(l)
  BY <1>3, <1>6, <1>7, <1>9, Parts
<1>11. \A o \in Live(l) \ Roots : Final \in Held(l)
  BY <1>1, <1>5, <1>7, <1>10, ObjectKinds DEF Roots
<1>12. QED
  BY <1>1, <1>2, <1>6, <1>9, <1>10, <1>11

\* A held task is held by its lane only once it is not running, and the locals of
\* processEventAsync belong to the event the lane has.
LEMMA LocalHolder ==
  ASSUME NEW l, Kinds(l), Tree(l), OneTurn(l), NEW e, Local(e) \in holds[l]
  PROVE  /\ Read(e) \in active[l] /\ Out(e) \in Held(l) /\ NextTask(e) \in Held(l)
         /\ e \in Events /\ e = presentEventIndex[l] /\ e < NReadable
<1>1. Out(e) \in Held(l)
  BY DEF Local, Held, Targets
<1> Out(e) \in Live(l)
  BY <1>1 DEF Live, Held
<1>2. e \in Events
  <2>1. Out(e) \in Objects
    BY Chain
  <2>2. QED
    BY <2>1, ObjectKinds, Parts
<1>3. Local(e)[1] = Read(e) /\ Local(e)[2] = Out(e)
  BY DEF Local
<1>4. Read(e)[1] = "read" /\ Out(e)[1] = "out" /\ Read(e)[2] = e /\ Final[1] = "final"
  BY Parts
<1>5. Read(e) \in Objects
  BY <1>2, ObjectsMade
<1>6. Succ(Read(e)) = Final
  BY <1>4, <1>5, SuccForms
<1>7. \E d \in Events : Local(e) = Local(d) /\ Read(d) \in active[l]
  BY <1>3, <1>4, <1>6 DEF Tree
<1>8. Read(e) \in active[l]
  BY <1>3, <1>7, <1>4, Parts DEF Local
<1>9. NextTask(e) \in Held(l)
  BY Chain, Parts
<1>10. NextTask(e) \in Waiting(l) /\ NextTask(e) # Start
  BY <1>9, Parts DEF Waiting
<1>11. e = presentEventIndex[l] /\ e < NReadable
  BY <1>9, <1>10, Parts DEF OneTurn
<1>12. QED
  BY <1>1, <1>2, <1>8, <1>9, <1>11

----------------------------------------------------------------------------
\* What a step leaves alone

OnlyLane(l) ==
  /\ UNCHANGED main
  /\ \A k \in Lanes \ {l} :
       /\ pending'[k] = pending[k] /\ active'[k] = active[k] /\ external'[k] = external[k]
       /\ holds'[k] = holds[k] /\ asked'[k] = asked[k] /\ deferred'[k] = deferred[k]
       /\ finals'[k] = finals[k] /\ presentEventIndex'[k] = presentEventIndex[k]

\* The parts of a lane that a step does not touch.
LEMMA SameSets ==
  ASSUME NEW k, pending'[k] = pending[k], active'[k] = active[k], external'[k] = external[k],
         holds'[k] = holds[k]
  PROVE  Live(k)' = Live(k) /\ Held(k)' = Held(k) /\ Waiting(k)' = Waiting(k)
  BY DEF Live, Held, Targets, Waiting

\* A step of one lane keeps the invariant of the others.
LEMMA OthersStay ==
  ASSUME NEW l, OnlyLane(l), \A k \in Lanes : LaneInv(k)
  PROVE  \A k \in Lanes \ {l} : LaneInv(k)'
<1> SUFFICES ASSUME NEW k \in Lanes \ {l} PROVE LaneInv(k)'
  OBVIOUS
<1>1. Live(k)' = Live(k) /\ Held(k)' = Held(k) /\ Waiting(k)' = Waiting(k)
  BY SameSets DEF OnlyLane
<1>2. Kinds(k)' /\ Apart(k)'
  BY <1>1 DEF LaneInv, Kinds, Apart, OnlyLane
<1>3. Tree(k)'
  BY <1>1 DEF LaneInv, Tree, OnlyLane
<1>4. OneTurn(k)'
  BY <1>1 DEF LaneInv, OneTurn, OnlyLane
<1>5. Past(k)' /\ Asked(k)'
  BY <1>1 DEF LaneInv, Past, Asked, OnlyLane
<1>6. Ends(k)'
  BY <1>1 DEF LaneInv, Ends, OnlyLane
<1>7. QED
  BY <1>2, <1>3, <1>4, <1>5, <1>6 DEF LaneInv

\* A step that gives out no index keeps what is known of the indexes.
LEMMA IndexesStay == ASSUME Indexes, UNCHANGED <<index, presentEventIndex>> PROVE Indexes'
  BY DEF Indexes, Ended

\* A step that takes no event beyond its output, or back, keeps the count of outputs.
LEMMA OutputsStay ==
  ASSUME Outputs, UNCHANGED <<index, outputs>>,
         \A k \in Lanes, e \in Events : e < NReadable => (Before(k, e)' <=> Before(k, e))
  PROVE  Outputs'
<1>1. \A e \in Events : e < NReadable =>
        ((\A k \in Lanes : ~Before(k, e)') <=> (\A k \in Lanes : ~Before(k, e)))
  OBVIOUS
<1>2. QED
  BY <1>1 DEF Outputs

LEMMA OthersBefore ==
  ASSUME NEW l, OnlyLane(l), NEW k \in Lanes \ {l}, NEW e PROVE Before(k, e)' <=> Before(k, e)
<1>1. Held(k)' = Held(k)
  BY SameSets DEF OnlyLane
<1>2. QED
  BY <1>1 DEF Before, OnlyLane

----------------------------------------------------------------------------
\* An object is deleted

Deleted(l, o, run) ==
  /\ Delete(l, o, run)
  /\ \/ o \in pending[l] /\ run = {o} /\ UNCHANGED <<active, external>>
     \/ o \in active[l] /\ run = {} /\ active' = Remove(active, l, {o}) /\ UNCHANGED external
     \/ o \in external[l] /\ run = {} /\ external' = Remove(external, l, {o}) /\ UNCHANGED active

\* The task its holder belonged to is run if no other object holds it; nothing
\* else is lost.
LEMMA DeletedTree ==
  ASSUME NEW l \in Lanes, Types, Kinds(l), Apart(l), Tree(l), NEW o, NEW run, Deleted(l, o, run)
  PROVE  /\ Live(l)' = Live(l) \ {o}
         /\ Held(l)' \subseteq Held(l)
         /\ pending'[l] \cup Held(l)' = (pending[l] \cup Held(l)) \ {o}
         /\ holds'[l] = {h \in holds[l] : h[1] # o}
         /\ Kinds(l)' /\ Apart(l)' /\ Tree(l)'
<1>1. holds'[l] = {h \in holds[l] : h[1] # o}
  BY DEF Deleted, Delete, DropHolders, Remove, Types
<1>2. Held(l)' = {h[2] : h \in holds'[l]}
  BY DEF Held, Targets
<1>3. pending'[l] = (pending[l] \ run) \cup (Held(l) \ Held(l)')
  <2>1. holds[l] \ {h \in holds[l] : h[1] = o} = holds'[l]
    BY <1>1
  <2>2. pending'[l] = (pending[l] \ run)
                      \cup (Targets({h \in holds[l] : h[1] = o}) \ Targets(holds'[l]))
    BY <2>1 DEF Deleted, Delete, DropHolders, Types
  <2>3. Targets({h \in holds[l] : h[1] = o}) \ Targets(holds'[l]) = Held(l) \ Targets(holds'[l])
    BY <1>1 DEF Held, Targets
  <2>4. Held(l)' = Targets(holds'[l])
    BY DEF Held, Targets
  <2>5. QED
    BY <2>2, <2>3, <2>4
<1>4. Held(l)' \subseteq Held(l)
  BY <1>1 DEF Held, Targets
<1>5. o \in pending[l] \cup active[l] \cup external[l] /\ o \notin Held(l)
  BY DEF Deleted, Apart
<1>6. /\ active'[l] = active[l] \ {o} /\ external'[l] = external[l] \ {o}
      /\ pending[l] \ run = pending[l] \ {o}
  BY DEF Deleted, Apart, Remove, Types
<1>7. pending'[l] \cup Held(l)' = (pending[l] \cup Held(l)) \ {o}
  BY <1>3, <1>4, <1>5, <1>6
<1>8. Live(l)' = Live(l) \ {o}
  <2>1. Live(l)' = active'[l] \cup external'[l] \cup (pending'[l] \cup Held(l)')
    BY DEF Live, Held
  <2>2. Live(l) = active[l] \cup external[l] \cup (pending[l] \cup Held(l))
    BY DEF Live, Held
  <2>3. QED
    BY <1>6, <1>7, <2>1, <2>2
<1>9. Kinds(l)'
  <2>1. pending'[l] \subseteq pending[l] \cup Held(l)
    BY <1>7
  <2>2. Held(l) \subseteq Objects
    BY DEF Kinds, Held, Targets
  <2>3. QED
    BY <1>1, <1>4, <1>6, <2>1, <2>2 DEF Kinds
<1>10. Apart(l)'
  BY <1>3, <1>4, <1>6 DEF Apart
<1>11. Tree(l)'
  <2>1. \A h \in holds'[l] : /\ h[1] \in Live(l)' \ Roots
                             /\ \/ h[2] = Succ(h[1])
                                \/ \E e \in Events : h = Local(e) /\ Read(e) \in active'[l]
    <3> SUFFICES ASSUME NEW h \in holds'[l]
                 PROVE  /\ h[1] \in Live(l)' \ Roots
                        /\ \/ h[2] = Succ(h[1])
                           \/ \E e \in Events : h = Local(e) /\ Read(e) \in active'[l]
      OBVIOUS
    <3>1. h \in holds[l] /\ h[1] # o
      BY <1>1
    <3>2. \A e : h = Local(e) => h[1] = Read(e)
      BY DEF Local
    <3>3. QED
      BY <1>6, <1>8, <3>1, <3>2 DEF Tree
  <2>2. \A x \in Live(l)' \ Roots : <<x, Succ(x)>> \in holds'[l]
    BY <1>1, <1>8 DEF Tree
  <2>3. QED
    BY <2>1, <2>2 DEF Tree
<1>12. QED
  BY <1>1, <1>4, <1>7, <1>8, <1>9, <1>10, <1>11

LEMMA DeletedKeeps ==
  ASSUME NEW l \in Lanes, Types, LaneInv(l), NEW o, NEW run, Deleted(l, o, run), o \notin Roots,
         UNCHANGED <<presentEventIndex, asked, deferred, main, finals>>,
         o[1] = "read" => Local(o[2]) \notin holds[l],
         o \in Waiting(l) => presentEventIndex[l] >= NReadable
  PROVE  LaneInv(l)'
<1>1. /\ Live(l)' = Live(l) \ {o}
      /\ Held(l)' \subseteq Held(l)
      /\ pending'[l] \cup Held(l)' = (pending[l] \cup Held(l)) \ {o}
      /\ holds'[l] = {h \in holds[l] : h[1] # o}
      /\ Kinds(l)' /\ Apart(l)' /\ Tree(l)'
  BY DeletedTree DEF LaneInv
<1>2. active'[l] = active[l] \ {o} /\ external'[l] = external[l] \ {o}
  BY DEF Deleted, LaneInv, Apart, Remove, Types
<1>3. OneTurn(l)'
  <2>1. Waiting(l)' = Waiting(l) \ {o}
    BY <1>1, <1>2 DEF Waiting
  <2>2. \A a, b \in Waiting(l)' : a = b
    BY <2>1 DEF LaneInv, OneTurn
  <2>3. Start \in Waiting(l)' => presentEventIndex'[l] = -1
    BY <2>1 DEF LaneInv, OneTurn
  <2>4. \A x \in Waiting(l)' : x # Start => x[2] = presentEventIndex'[l] /\ x[2] < NEvents
    BY <2>1 DEF LaneInv, OneTurn
  <2>5. \A x \in pending'[l] \cup Held(l)' : x[1] \in {"read", "next"} => x[2] < NReadable
    BY <1>1 DEF LaneInv, OneTurn
  <2>6. l < main' /\ Waiting(l)' = {} => presentEventIndex'[l] >= NReadable
    <3>1. CASE o \in Waiting(l)
      BY <3>1
    <3>2. CASE o \notin Waiting(l)
      BY <2>1, <3>2 DEF LaneInv, OneTurn
    <3>3. QED
      BY <3>1, <3>2
  <2>7. QED
    BY <2>2, <2>3, <2>4, <2>5, <2>6 DEF OneTurn
<1>4. Past(l)'
  BY <1>1, <1>2 DEF LaneInv, Past
<1>5. Asked(l)'
  <2>1. \A e \in Events : Out(e) \in Live(l)' /\ Local(e) \notin holds'[l] => asked'[l] = NProducts
    <3> SUFFICES ASSUME NEW e \in Events, Out(e) \in Live(l)', Local(e) \notin holds'[l]
                 PROVE  asked'[l] = NProducts
      OBVIOUS
    <3>1. Local(e) \in holds[l] => Read(e) = o
      BY <1>1 DEF Local
    <3>2. Local(e) \notin holds[l]
      BY <3>1, Parts
    <3>3. QED
      BY <1>1, <3>2 DEF LaneInv, Asked
  <2>2. \A e \in Events : Output(e) \in external'[l] => Out(e) \notin Held(l)' /\ asked'[l] = NProducts
    BY <1>1, <1>2 DEF LaneInv, Asked
  <2>3. QED
    BY <1>1, <2>1, <2>2 DEF LaneInv, Asked
<1>6. Ends(l)'
  BY <1>1 DEF LaneInv, Ends, Roots
<1>7. QED
  BY <1>1, <1>3, <1>4, <1>5, <1>6 DEF LaneInv

----------------------------------------------------------------------------
\* A task runs and hands a copy of its holder to an operation

Copied(l, o, op) ==
  /\ RunWithCopy(l, o, op)
  /\ \/ /\ o[1] = "wait" /\ op[1] = "sleep"
        /\ pending' = [pending EXCEPT ![l] = (@ \ {o}) \cup {op}]
        /\ UNCHANGED external
     \/ /\ o[1] = "ready" /\ op[1] = "serialize"
        /\ pending' = Remove(pending, l, {o})
        /\ external' = Add(external, l, {op})
     \/ /\ o[1] = "out" /\ op[1] = "output"
        /\ pending' = Remove(pending, l, {o})
        /\ external' = Add(external, l, {op})
  /\ op \in Objects /\ op[2] = o[2] /\ (o[1] # "out" => op[3] = o[3])
  /\ Succ(op) = Succ(o)

LEMMA CopiedTree ==
  ASSUME NEW l \in Lanes, Types, Kinds(l), Apart(l), Tree(l), NEW o, NEW op, Copied(l, o, op)
  PROVE  /\ Live(l)' = Live(l) \cup {op}
         /\ Held(l)' = Held(l)
         /\ holds'[l] = holds[l] \cup {<<op, Succ(o)>>}
         /\ Kinds(l)' /\ Apart(l)' /\ Tree(l)'
<1>1. o \in pending[l] /\ o[1] \in {"wait", "ready", "out"} /\ op[1] \in {"sleep", "serialize", "output"}
  BY DEF Copied, RunWithCopy
<1>2. o \in Live(l) \ Roots /\ op \notin Roots
  BY <1>1, Parts DEF Live, Roots
<1>3. HeldBy(l, o) = {Succ(o)}
  <2>1. <<o, Succ(o)>> \in holds[l]
    BY <1>2 DEF Tree
  <2>2. \A h \in holds[l] : h[1] = o => h[2] = Succ(o)
    BY <1>1, Parts DEF Tree, Local
  <2>3. QED
    BY <2>1, <2>2 DEF HeldBy
<1>4. holds'[l] = holds[l] \cup {<<op, Succ(o)>>}
  BY <1>3 DEF Copied, RunWithCopy, Add, Types
<1>5. Held(l)' = Held(l)
  <2>1. <<o, Succ(o)>> \in holds[l]
    BY <1>2 DEF Tree
  <2>2. QED
    BY <1>4, <2>1 DEF Held, Targets
<1>6. /\ active'[l] = active[l] \cup {o}
      /\ \/ /\ op[1] = "sleep" /\ pending'[l] = (pending[l] \ {o}) \cup {op}
            /\ external'[l] = external[l]
         \/ /\ op[1] \in {"serialize", "output"} /\ pending'[l] = pending[l] \ {o}
            /\ external'[l] = external[l] \cup {op}
  BY DEF Copied, RunWithCopy, Add, Remove, Types
<1>7. Live(l)' = Live(l) \cup {op}
  <2>1. Live(l)' = pending'[l] \cup active'[l] \cup external'[l] \cup Held(l)'
    BY DEF Live, Held
  <2>2. QED
    BY <1>1, <1>5, <1>6, <2>1 DEF Live, Held
<1>8. Kinds(l)'
  <2>1. Succ(o) \in Objects /\ op \in Objects
    BY <1>2, SuccType, Chain DEF SuccOf, Copied
  <2>2. o \in Objects
    BY <1>1 DEF Kinds
  <2>3. QED
    BY <1>1, <1>4, <1>5, <1>6, <2>1, <2>2 DEF Kinds
<1>9. Apart(l)'
  BY <1>1, <1>5, <1>6 DEF Apart, Kinds
<1>10. Tree(l)'
  <2>1. <<op, Succ(o)>>[1] = op /\ <<op, Succ(o)>>[2] = Succ(op)
    BY DEF Copied
  <2>2. QED
    BY <1>2, <1>4, <1>6, <1>7, <2>1 DEF Tree
<1>11. QED
  BY <1>4, <1>5, <1>7, <1>8, <1>9, <1>10

LEMMA CopiedKeeps ==
  ASSUME NEW l \in Lanes, Types, LaneInv(l), NEW o, NEW op, Copied(l, o, op),
         UNCHANGED <<presentEventIndex, asked, deferred, main, finals>>
  PROVE  LaneInv(l)'
<1>1. /\ Live(l)' = Live(l) \cup {op} /\ Held(l)' = Held(l)
      /\ holds'[l] = holds[l] \cup {<<op, Succ(o)>>}
      /\ Kinds(l)' /\ Apart(l)' /\ Tree(l)'
  BY CopiedTree DEF LaneInv
<1>2. /\ o \in pending[l] /\ o[1] \in {"wait", "ready", "out"}
      /\ op[1] \in {"sleep", "serialize", "output"} /\ op[2] = o[2]
  BY DEF Copied, RunWithCopy
<1>3. /\ o \in Live(l) /\ o \in Objects
      /\ active'[l] = active[l] \cup {o}
      /\ \A x : x[1] \in {"start", "read", "next"} => (x \in pending'[l] <=> x \in pending[l])
      /\ \A x : x[1] \in {"start", "read", "next"} => (x \in external'[l] <=> x \in external[l])
      /\ external'[l] \subseteq external[l] \cup {op}
  BY <1>2 DEF Copied, RunWithCopy, Add, Remove, Types, Live
<1>4. OneTurn(l)'
  <2>1. Waiting(l)' = Waiting(l)
    BY <1>1, <1>3 DEF Waiting
  <2>2. QED
    BY <1>1, <1>3, <2>1 DEF LaneInv, OneTurn
<1>5. Past(l)'
  BY <1>1, <1>2, <1>3 DEF LaneInv, Past
<1>6. Asked(l)'
  <2>1. \A x \in Live(l)' : x[1] \in ProductKinds => x[3] <= asked'[l]
    BY <1>1, <1>2, <1>3 DEF LaneInv, Asked, Copied, ProductKinds
  <2>2. \A e \in Events : Out(e) \in Live(l)' /\ Local(e) \notin holds'[l] => asked'[l] = NProducts
    BY <1>1, <1>2, Parts DEF LaneInv, Asked
  <2>3. \A e \in Events : Output(e) \in external'[l] => Out(e) \notin Held(l)' /\ asked'[l] = NProducts
    <3> SUFFICES ASSUME NEW e \in Events, Output(e) \in external'[l]
                 PROVE  Out(e) \notin Held(l) /\ asked[l] = NProducts
      BY <1>1
    <3>1. CASE Output(e) \in external[l]
      BY <3>1 DEF LaneInv, Asked
    <3>2. CASE Output(e) = op
      <4>1. o[1] = "out" /\ o[2] = e
        BY <1>2, <3>2, Parts DEF Copied
      <4>2. o = Out(e)
        BY <1>3, <4>1, ObjectKinds
      <4>3. Out(e) \notin Held(l)
        BY <1>2, <4>2 DEF LaneInv, Apart
      <4>4. Local(e) \notin holds[l]
        BY <4>3 DEF Local, Held, Targets
      <4>5. QED
        BY <1>3, <4>2, <4>3, <4>4 DEF LaneInv, Asked
    <3>3. QED
      BY <1>3, <3>1, <3>2
  <2>4. QED
    BY <2>1, <2>2, <2>3 DEF LaneInv, Asked
<1>7. Ends(l)'
  <2>1. op # Final
    BY <1>2, Parts
  <2>2. QED
    BY <1>1, <1>3, <2>1 DEF LaneInv, Ends
<1>8. QED
  BY <1>1, <1>4, <1>5, <1>6, <1>7 DEF LaneInv

----------------------------------------------------------------------------
\* The steps that read an event

LEMMA SourceReadsKeeps ==
  ASSUME NEW l \in Lanes, NEW e \in Events, Types, LaneInv(l), SourceReads(l, e)
  PROVE  LaneInv(l)'
<1>1. /\ Read(e) \in external[l] /\ e < InSource /\ Read(e)[1] = "read" /\ Read(e)[2] = e
      /\ pending'[l] = pending[l] \cup {Read(e)} /\ external'[l] = external[l] \ {Read(e)}
      /\ UNCHANGED <<active, holds, presentEventIndex, asked, deferred, main, finals>>
  BY Parts DEF SourceReads, Add, Remove, Types
<1>2. Held(l)' = Held(l)
  BY <1>1 DEF Held
<1>3. Live(l)' = Live(l)
  <2>1. Live(l)' = (pending'[l] \cup external'[l]) \cup active'[l] \cup Held(l)'
    BY DEF Live, Held
  <2>2. pending'[l] \cup external'[l] = pending[l] \cup external[l]
    BY <1>1
  <2>3. QED
    BY <1>1, <1>2, <2>1, <2>2 DEF Live, Held
<1>4. Kinds(l)'
  BY <1>1, <1>2, ObjectsMade DEF LaneInv, Kinds
<1>5. Apart(l)'
  BY <1>1, <1>2 DEF LaneInv, Apart
<1>6. Tree(l)'
  BY <1>1, <1>3 DEF LaneInv, Tree
<1>7. OneTurn(l)'
  <2>1. Waiting(l)' = Waiting(l)
    <3>1. pending'[l] \cup external'[l] = pending[l] \cup external[l]
      BY <1>1
    <3>2. QED
      BY <1>2, <3>1 DEF Waiting
  <2>2. e < NReadable
    <3>1. Read(e) \in Waiting(l) /\ Read(e) # Start
      BY <1>1, Parts DEF Waiting
    <3>2. e < NEvents
      BY <1>1, <3>1 DEF LaneInv, OneTurn
    <3>3. QED
      BY <1>1, <3>2 DEF NReadable
  <2>3. QED
    BY <1>1, <1>2, <2>1, <2>2 DEF LaneInv, OneTurn
<1>8. Past(l)' /\ Asked(l)'
  BY <1>1, <1>2, <1>3, Parts DEF LaneInv, Past, Asked
<1>9. Ends(l)'
  BY <1>1, <1>3 DEF LaneInv, Ends
<1>10. QED
  BY <1>4, <1>5, <1>6, <1>7, <1>8, <1>9 DEF LaneInv

\* An index not given out yet is below the last one unless every lane has ended.
LEMMA RoomForIndex ==
  ASSUME Types, Indexes, NEW l \in Lanes, presentEventIndex[l] < NReadable
  PROVE  index \in Events /\ NReadable \in Nat /\ NReadable <= NEvents /\ NReadable <= InSource
         /\ IsFiniteSet(Ended) /\ Cardinality(Ended) \in Nat
<1>1. NEvents \in Nat /\ InSource \in Nat /\ NLanes \in Nat \ {0}
  BY LaneAssumption
<1>2. NReadable \in Nat /\ NReadable <= NEvents /\ NReadable <= InSource
  BY <1>1 DEF NReadable
<1>3. IsFiniteSet(Lanes) /\ Cardinality(Lanes) = NLanes
  BY <1>1, FS_Interval DEF Lanes
<1>4. Ended \subseteq Lanes \ {l}
  <2>1. l \notin Ended
    <3>1. presentEventIndex[l] \in Int
      BY <1>1 DEF Types, Events
    <3>2. ~(presentEventIndex[l] >= NReadable)
      BY <1>2, <3>1
    <3>3. QED
      BY <3>2 DEF Ended
  <2>2. QED
    BY <2>1 DEF Ended
<1>5. IsFiniteSet(Lanes \ {l}) /\ Cardinality(Lanes \ {l}) = NLanes - 1
  BY <1>3, FS_RemoveElement
<1>6. IsFiniteSet(Ended) /\ Cardinality(Ended) <= NLanes - 1
  BY <1>4, <1>5, FS_Subset
<1>7. Cardinality(Ended) \in Nat
  BY <1>6, FS_CardinalityType
<1>8. index <= NEvents + NLanes - 1
  BY <1>1, <1>2, <1>6, <1>7 DEF Indexes
<1>9. QED
  BY <1>1, <1>2, <1>6, <1>7, <1>8 DEF Indexes, Events

\* The task that takes an index was the one task of its lane that waited, and the
\* lane's event is done with.
LEMMA NextEventTask ==
  ASSUME NEW l \in Lanes, Types, LaneInv(l), NEW o \in pending[l], o[1] \in {"start", "next"}
  PROVE  /\ o \in Objects \ Roots /\ o \in Live(l) \ Roots /\ o \notin active[l]
         /\ o \notin external[l] /\ o \notin Held(l) /\ Final \in Held(l)
         /\ Waiting(l) = {o}
         /\ presentEventIndex[l] \in Int /\ presentEventIndex[l] < NReadable
         /\ o[1] = "next" => o[2] = presentEventIndex[l]
         /\ l < main /\ main <= NLanes + l
<1>1. o \in Objects /\ o \in Live(l) \ Roots /\ o \notin active[l] /\ o \notin external[l] /\ o \notin Held(l)
  BY Parts DEF LaneInv, Kinds, Apart, Live, Roots
<1>2. Final \in Held(l)
  BY <1>1, Chain DEF LaneInv
<1>3. o \in Waiting(l)
  BY DEF Waiting
<1>4. Waiting(l) = {o}
  BY <1>3 DEF LaneInv, OneTurn
<1>5. NEvents \in Nat /\ NReadable \in Nat /\ NLanes \in Nat
  BY LaneAssumption DEF NReadable
<1>6. presentEventIndex[l] \in Int /\ main \in Int /\ l \in Int
  BY <1>5 DEF Types, Events, Lanes
<1>7. o[1] = "start" => presentEventIndex[l] < NReadable
  <2> SUFFICES ASSUME o[1] = "start" PROVE presentEventIndex[l] < NReadable
    OBVIOUS
  <2>1. o = Start
    BY <1>1, ObjectKinds
  <2>2. presentEventIndex[l] = -1
    BY <1>3, <2>1 DEF LaneInv, OneTurn
  <2>3. QED
    BY <1>5, <2>2
<1>8. o[1] = "next" => o[2] = presentEventIndex[l] /\ presentEventIndex[l] < NReadable
  <2> SUFFICES ASSUME o[1] = "next" PROVE o[2] = presentEventIndex[l] /\ presentEventIndex[l] < NReadable
    OBVIOUS
  <2>1. o # Start
    BY Parts
  <2>2. o[2] = presentEventIndex[l] /\ o[2] < NReadable
    BY <1>3, <2>1 DEF LaneInv, OneTurn
  <2>3. QED
    BY <2>2
<1>9. l < main /\ main <= NLanes + l
  <2>1. Live(l) # {}
    BY <1>1
  <2>2. ~(main <= l) /\ ~(NLanes + l < main)
    BY <2>1 DEF LaneInv, Ends
  <2>3. QED
    BY <1>5, <1>6, <2>2
<1>10. QED
  BY <1>1, <1>2, <1>4, <1>6, <1>7, <1>8, <1>9 DEF Roots

LEMMA DoNextEventKeeps ==
  ASSUME NEW l \in Lanes, Types, LaneInv(l), Indexes, NEW o \in pending[l], DoNextEvent(l, o)
  PROVE  LaneInv(l)'
<1>1. /\ o[1] \in {"start", "next"}
      /\ presentEventIndex'[l] = index
      /\ pending'[l] = pending[l] \ {o} /\ active'[l] = active[l] \cup {o}
      /\ UNCHANGED <<asked, deferred, main, finals>>
  BY DEF DoNextEvent, TakeIndex, Add, Remove, Types
<1>2. /\ o \in Live(l) \ Roots /\ o \notin active[l] /\ o \in Objects
      /\ o \notin external[l] /\ o \notin Held(l) /\ Final \in Held(l)
      /\ Waiting(l) = {o}
      /\ presentEventIndex[l] \in Int /\ presentEventIndex[l] < NReadable
      /\ o[1] = "next" => o[2] = presentEventIndex[l]
      /\ l < main /\ main <= NLanes + l
  BY <1>1, NextEventTask
<1>3. index \in Events /\ NReadable \in Nat /\ NReadable <= NEvents /\ presentEventIndex[l] < index
  BY <1>2, RoomForIndex DEF Indexes
<1>4. index \in Int /\ NEvents \in Nat /\ \A d \in Events : d \in Int
  BY <1>3, LaneAssumption DEF Events
<1>5. Live(l) \subseteq Objects
  BY Chain DEF LaneInv
<1>6. \A x \in Live(l) : x[1] \notin {"start", "final", "handle"} => x[2] \in Int /\ x[2] < index
  <2> SUFFICES ASSUME NEW x \in Live(l), x[1] \notin {"start", "final", "handle"}
               PROVE  x[2] \in Int /\ x[2] < index
    OBVIOUS
  <2>1. x[2] \in Int
    BY <1>4, <1>5, ObjectKinds
  <2>2. x[2] <= presentEventIndex[l]
    BY DEF LaneInv, Past
  <2>3. QED
    BY <1>2, <1>3, <1>4, <2>1, <2>2
<1>7. CASE /\ index < NEvents
           /\ holds' = Add(holds, l, {<<Read(index), Final>>})
           /\ external' = Add(external, l, {Read(index)})
  <2>1. /\ holds'[l] = holds[l] \cup {<<Read(index), Final>>}
        /\ external'[l] = external[l] \cup {Read(index)}
    BY <1>7 DEF Add, Types
  <2>2. /\ Read(index) \in Objects \ Roots /\ Read(index)[1] = "read" /\ Read(index)[2] = index
        /\ Succ(Read(index)) = Final /\ Read(index) \notin Live(l)
    BY <1>3, <1>4, <1>6, ObjectsMade, Parts, SuccForms DEF Roots
  <2>3. Held(l)' = Held(l)
    BY <1>2, <2>1 DEF Held, Targets
  <2>4. Live(l)' = Live(l) \cup {Read(index)}
    BY <1>1, <1>2, <2>1, <2>3 DEF Live, Held
  <2>5. Kinds(l)'
    BY <1>1, <1>2, <2>1, <2>2, <2>3, ObjectsMade DEF LaneInv, Kinds
  <2>6. Apart(l)'
    BY <1>1, <1>2, <2>1, <2>2, <2>3 DEF LaneInv, Apart, Live, Held
  <2>7. Tree(l)'
    BY <1>1, <2>1, <2>2, <2>4 DEF LaneInv, Tree
  <2>8. Waiting(l)' = {Read(index)}
    BY <1>1, <1>2, <2>1, <2>2, <2>3 DEF Waiting
  <2>9. OneTurn(l)'
    <3>1. \A x \in pending'[l] \cup Held(l)' : x[1] \notin {"read", "next"}
      <4> SUFFICES ASSUME NEW x \in pending'[l] \cup Held(l)', x[1] \in {"read", "next"} PROVE FALSE
        OBVIOUS
      <4>1. x \in Waiting(l)'
        BY DEF Waiting
      <4>2. x = Read(index) /\ x \in Live(l)
        BY <1>1, <2>3, <2>8, <4>1 DEF Live, Held
      <4>3. QED
        BY <2>2, <4>2
    <3>2. QED
      BY <1>1, <1>7, <2>2, <2>8, <3>1, Parts DEF OneTurn
  <2>10. Past(l)'
    <3>1. \A x \in active'[l] : x \in Live(l)
      BY <1>1, <1>2 DEF Live
    <3>2. \A x \in Live(l)' : x[1] \notin {"start", "final", "handle"} => x[2] <= index
      BY <1>4, <1>6, <2>2, <2>4
    <3>3. \A x \in active'[l] : x[1] = "next" => x[2] < index
      BY <1>6, <3>1
    <3>4. QED
      BY <1>1, <3>2, <3>3 DEF Past
  <2>11. Asked(l)'
    BY <1>1, <2>1, <2>2, <2>3, <2>4, Parts DEF LaneInv, Asked, ProductKinds
  <2>12. Ends(l)'
    BY <1>1, <1>2, <2>2, <2>4, LaneAssumption DEF LaneInv, Ends, Types, Lanes, Roots
  <2>13. QED
    BY <2>5, <2>6, <2>7, <2>9, <2>10, <2>11, <2>12 DEF LaneInv
<1>8. CASE index >= NEvents /\ UNCHANGED <<holds, external>>
  <2>1. Held(l)' = Held(l)
    BY <1>8 DEF Held
  <2>2. Live(l)' = Live(l)
    BY <1>1, <1>8, <2>1 DEF Live, Held
  <2>3. Kinds(l)' /\ Apart(l)'
    BY <1>1, <1>2, <1>8, <2>1 DEF LaneInv, Kinds, Apart
  <2>4. Tree(l)'
    BY <1>1, <1>8, <2>2 DEF LaneInv, Tree
  <2>5. Waiting(l)' = {}
    BY <1>1, <1>2, <1>8, <2>1 DEF Waiting
  <2>6. OneTurn(l)'
    <3>1. \A x \in pending'[l] \cup Held(l)' : x[1] \notin {"read", "next"}
      BY <2>5 DEF Waiting
    <3>2. index >= NReadable
      BY <1>3, <1>4, <1>8
    <3>3. QED
      BY <1>1, <2>5, <3>1, <3>2 DEF OneTurn
  <2>7. Past(l)'
    <3>1. \A x \in active'[l] : x \in Live(l)
      BY <1>1, <1>2 DEF Live
    <3>2. QED
      BY <1>1, <1>4, <1>6, <2>2, <3>1 DEF Past
  <2>8. Asked(l)' /\ Ends(l)'
    <3>1. Asked(l)'
      BY <1>1, <1>8, <2>1, <2>2 DEF LaneInv, Asked
    <3>2. Ends(l)'
      BY <1>1, <1>2, <2>2, LaneAssumption DEF LaneInv, Ends, Types, Lanes
    <3>3. QED
      BY <3>1, <3>2
  <2>9. QED
    BY <2>3, <2>4, <2>6, <2>7, <2>8 DEF LaneInv
<1>9. QED
  BY <1>7, <1>8 DEF DoNextEvent, TakeIndex

----------------------------------------------------------------------------
\* processEventAsync

\* While an event task waits its lane has nothing of any event.
LEMMA NothingOfAnEvent ==
  ASSUME NEW l, LaneInv(l), NEW e \in Events, Read(e) \in Waiting(l)
  PROVE  /\ \A x \in Live(l) : x[1] \notin ProductKinds \cup {"out", "output"}
         /\ NextTask(e) \notin Live(l) /\ Out(e) \notin Live(l) /\ Waiting(l) = {Read(e)}
         /\ e = presentEventIndex[l]
<1>1. Waiting(l) = {Read(e)}
  BY DEF LaneInv, OneTurn
<1>2. e = presentEventIndex[l]
  <2>1. Read(e) # Start /\ Read(e)[2] = e
    BY Parts
  <2>2. QED
    BY <2>1 DEF LaneInv, OneTurn
<1>3. \A d : NextTask(d) \notin Waiting(l)
  BY <1>1, Parts
<1>4. \A d : NextTask(d) \notin pending[l] \cup external[l] \cup Held(l)
  BY <1>3, Parts DEF Waiting
<1>5. \A x \in Live(l) : x[1] \notin ProductKinds \cup {"out", "output"}
  BY <1>4, Chain DEF LaneInv
<1>6. NextTask(e) \notin active[l]
  <2> SUFFICES ASSUME NextTask(e) \in active[l] PROVE FALSE
    OBVIOUS
  <2>1. e < presentEventIndex[l]
    BY Parts DEF LaneInv, Past
  <2>2. e \in Int
    BY LaneAssumption DEF Events
  <2>3. QED
    BY <1>2, <2>1, <2>2
<1>7. NextTask(e) \notin Live(l)
  BY <1>4, <1>6 DEF Live, Held
<1>8. Out(e) \notin Live(l)
  BY <1>5, Parts
<1>9. QED
  BY <1>1, <1>2, <1>5, <1>7, <1>8

LEMMA BeginProcessKeeps ==
  ASSUME NEW l \in Lanes, NEW e \in Events, Types, LaneInv(l), BeginProcess(l, e)
  PROVE  LaneInv(l)'
<1> DEFINE N == {NextTask(e), Out(e)}
<1>1. /\ Read(e) \in pending[l]
      /\ pending'[l] = pending[l] \ {Read(e)} /\ active'[l] = active[l] \cup {Read(e)}
      /\ asked'[l] = 0
      /\ holds'[l] = holds[l] \cup {<<NextTask(e), Final>>, <<Out(e), NextTask(e)>>, Local(e)}
      /\ UNCHANGED <<external, presentEventIndex, deferred, main, finals>>
  BY DEF BeginProcess, Add, Remove, Types, Local
<1>2. /\ Read(e) \in Objects /\ NextTask(e) \in Objects /\ Out(e) \in Objects /\ Final \in Objects
      /\ Read(e)[1] = "read" /\ Read(e)[2] = e /\ NextTask(e)[1] = "next" /\ NextTask(e)[2] = e
      /\ Out(e)[1] = "out" /\ Out(e)[2] = e /\ Final[1] = "final" /\ Handle[1] = "handle"
      /\ Start[1] = "start"
  BY ObjectsMade, Parts
<1>3. /\ Read(e) \in Live(l) \ Roots /\ Read(e) \notin active[l] /\ Read(e) \notin external[l]
      /\ Read(e) \notin Held(l) /\ Final \in Held(l)
  <2>1. Read(e) \in Live(l) \ Roots
    BY <1>1, <1>2 DEF Live, Roots
  <2>2. QED
    BY <1>1, <1>2, <2>1, Chain DEF LaneInv, Apart
<1>4. /\ \A x \in Live(l) : x[1] \notin ProductKinds \cup {"out", "output"}
      /\ N \cap Live(l) = {} /\ Waiting(l) = {Read(e)} /\ e = presentEventIndex[l]
  <2>1. Read(e) \in Waiting(l)
    BY <1>1, <1>2 DEF Waiting
  <2>2. QED
    BY <2>1, NothingOfAnEvent
<1>5. e < NReadable
  BY <1>1, <1>2 DEF LaneInv, OneTurn
<1>6. Held(l)' = Held(l) \cup N
  <2> DEFINE H == {<<NextTask(e), Final>>, <<Out(e), NextTask(e)>>, Local(e)}
  <2>1. Targets(H) = N \cup {Final}
    <3>1. Targets(H) \subseteq N \cup {Final}
      BY DEF Targets, Local
    <3>2. \A a, b : <<a, b>> \in H => b \in Targets(H)
      BY DEF Targets
    <3>3. QED
      BY <3>1, <3>2 DEF Local
  <2>2. Targets(holds[l] \cup H) = Targets(holds[l]) \cup Targets(H)
    BY DEF Targets
  <2>3. Held(l)' = Targets(holds[l] \cup H)
    BY <1>1 DEF Held
  <2>4. QED
    BY <1>3, <2>1, <2>2, <2>3 DEF Held
<1>7. Live(l)' = Live(l) \cup N
  BY <1>1, <1>6 DEF Live, Held
<1>8. Kinds(l)'
  <2>1. {<<NextTask(e), Final>>, <<Out(e), NextTask(e)>>, Local(e)} \subseteq Objects \X Objects
    BY <1>2 DEF Local
  <2>2. QED
    BY <1>1, <1>2, <1>6, <2>1 DEF LaneInv, Kinds
<1>9. Apart(l)'
  <2>1. N \cap (pending[l] \cup active[l] \cup external[l]) = {} /\ Read(e) \notin N
    BY <1>2, <1>4 DEF Live
  <2>2. QED
    BY <1>1, <1>3, <1>6, <2>1 DEF LaneInv, Apart
<1>10. Tree(l)'
  <2>1. Succ(NextTask(e)) = Final /\ Succ(Out(e)) = NextTask(e) /\ Succ(Read(e)) = Final
    BY <1>2, SuccForms
  <2>2. N \cap Roots = {}
    BY <1>2 DEF Roots
  <2>3. \A h \in holds'[l] : /\ h[1] \in Live(l)' \ Roots
                             /\ \/ h[2] = Succ(h[1])
                                \/ \E d \in Events : h = Local(d) /\ Read(d) \in active'[l]
    <3> SUFFICES ASSUME NEW h \in holds'[l]
                 PROVE  /\ h[1] \in Live(l)' \ Roots
                        /\ \/ h[2] = Succ(h[1])
                           \/ \E d \in Events : h = Local(d) /\ Read(d) \in active'[l]
      OBVIOUS
    <3>1. CASE h \in holds[l]
      BY <1>1, <1>7, <3>1 DEF LaneInv, Tree
    <3>2. CASE h \in {<<NextTask(e), Final>>, <<Out(e), NextTask(e)>>}
      BY <1>7, <2>1, <2>2, <3>2
    <3>3. CASE h = Local(e)
      <4>1. h[1] = Read(e)
        BY <3>3 DEF Local
      <4>2. QED
        BY <1>1, <1>3, <1>7, <3>3, <4>1
    <3>4. QED
      BY <1>1, <3>1, <3>2, <3>3
  <2>4. \A x \in Live(l)' \ Roots : <<x, Succ(x)>> \in holds'[l]
    BY <1>1, <1>7, <2>1 DEF LaneInv, Tree
  <2>5. QED
    BY <2>3, <2>4 DEF Tree
<1>11. OneTurn(l)'
  <2>1. Waiting(l)' = {NextTask(e)}
    <3>1. pending'[l] \cup external'[l] \cup Held(l)'
            = ((pending[l] \cup external[l] \cup Held(l)) \ {Read(e)}) \cup N
      BY <1>1, <1>2, <1>3, <1>6
    <3>2. \A x \in pending[l] \cup external[l] \cup Held(l) :
            x[1] \in {"start", "read", "next"} => x = Read(e)
      BY <1>4 DEF Waiting
    <3>3. QED
      BY <1>2, <3>1, <3>2 DEF Waiting
  <2>2. \A x \in pending'[l] \cup Held(l)' : x[1] \in {"read", "next"} => x = NextTask(e)
    BY <2>1 DEF Waiting
  <2>3. NextTask(e) # Start
    BY <1>2
  <2>4. e < NEvents
    BY <1>5, LaneAssumption DEF NReadable, Events
  <2>5. QED
    BY <1>1, <1>2, <1>4, <1>5, <2>1, <2>2, <2>3, <2>4 DEF OneTurn
<1>12. Past(l)'
  <2>1. e <= e
    BY LaneAssumption DEF Events
  <2>2. QED
    BY <1>1, <1>2, <1>4, <1>7, <2>1 DEF LaneInv, Past
<1>13. Asked(l)'
  <2>1. 0 \in 0..NProducts
    BY LaneAssumption
  <2>2. \A x \in Live(l)' : x[1] \notin ProductKinds
    BY <1>2, <1>4, <1>7 DEF ProductKinds
  <2>3. \A d \in Events : Out(d) \in Live(l)' => d = e
    BY <1>2, <1>4, <1>7, Parts
  <2>4. \A d \in Events : Output(d) \notin external'[l]
    BY <1>1, <1>4, Parts DEF Live
  <2>5. QED
    BY <1>1, <2>1, <2>2, <2>3, <2>4 DEF Asked
<1>14. Ends(l)'
  BY <1>1, <1>2, <1>3, <1>7 DEF LaneInv, Ends
<1>15. QED
  BY <1>8, <1>9, <1>10, <1>11, <1>12, <1>13, <1>14 DEF LaneInv

LEMMA EndProcessKeeps ==
  ASSUME NEW l \in Lanes, NEW e \in Events, Types, LaneInv(l), EndProcess(l, e)
  PROVE  LaneInv(l)'
<1>1. /\ Local(e) \in holds[l] /\ asked[l] = NProducts
      /\ holds'[l] = holds[l] \ {Local(e)}
      /\ UNCHANGED <<active, external, presentEventIndex, asked, deferred, main, finals>>
  BY DEF EndProcess, DropHolders, Remove, Types, Local
<1>2. Held(l)' \subseteq Held(l)
  BY <1>1 DEF Held, Targets
<1>3. pending'[l] = pending[l] \cup (Held(l) \ Held(l)')
  <2>1. pending'[l] = pending[l] \cup (Targets({Local(e)}) \ Targets(holds[l] \ {Local(e)}))
    BY DEF EndProcess, DropHolders, Types, Local
  <2>2. Targets({Local(e)}) \ Targets(holds[l] \ {Local(e)}) = Held(l) \ Targets(holds[l] \ {Local(e)})
    BY <1>1 DEF Held, Targets
  <2>3. Held(l)' = Targets(holds[l] \ {Local(e)})
    BY <1>1 DEF Held
  <2>4. QED
    BY <2>1, <2>2, <2>3
<1>4. pending'[l] \cup Held(l)' = pending[l] \cup Held(l)
  BY <1>2, <1>3
<1>5. Live(l)' = Live(l)
  <2>1. Live(l)' = active'[l] \cup external'[l] \cup (pending'[l] \cup Held(l)')
    BY DEF Live, Held
  <2>2. Live(l) = active[l] \cup external[l] \cup (pending[l] \cup Held(l))
    BY DEF Live, Held
  <2>3. QED
    BY <1>1, <1>4, <2>1, <2>2
<1>6. Kinds(l)'
  <2>1. Held(l) \subseteq Objects
    BY DEF LaneInv, Kinds, Held, Targets
  <2>2. QED
    BY <1>1, <1>2, <1>3, <2>1 DEF LaneInv, Kinds
<1>7. Apart(l)'
  BY <1>1, <1>2, <1>3 DEF LaneInv, Apart
<1>8. Tree(l)'
  <2>1. \A x : <<x, Succ(x)>> # Local(e)
    <3>1. Succ(Read(e)) = Final /\ Final # Out(e)
      BY SuccForms, Parts, ObjectsMade
    <3>2. QED
      BY <3>1 DEF Local
  <2>2. QED
    BY <1>1, <1>5, <2>1 DEF LaneInv, Tree
<1>9. OneTurn(l)'
  <2>1. Waiting(l)' = Waiting(l)
    BY <1>1, <1>4 DEF Waiting
  <2>2. QED
    BY <1>1, <1>4, <2>1 DEF LaneInv, OneTurn
<1>10. Past(l)' /\ Asked(l)'
  BY <1>1, <1>2, <1>5 DEF LaneInv, Past, Asked
<1>11. Ends(l)'
  BY <1>1, <1>5 DEF LaneInv, Ends
<1>12. QED
  BY <1>6, <1>7, <1>8, <1>9, <1>10, <1>11 DEF LaneInv

\* The objects that ask for a product are new, and lead to one another.
LEMMA AskForProductKeeps ==
  ASSUME NEW l \in Lanes, NEW e \in Events, Types, LaneInv(l), AskForProduct(l, e)
  PROVE  LaneInv(l)'
<1> DEFINE p == asked[l] + 1
           N == (IF UseWaiter THEN {WaitTask(e, p)} ELSE {})
                \cup (IF UsesProductReady THEN {Ready(e, p)} ELSE {})
           M == N \cup {Fetch(e, p)}
<1>1. /\ asked[l] \in 0..NProducts /\ p \in Products /\ asked[l] < p /\ p \in 0..NProducts
  BY LaneAssumption DEF AskForProduct, LaneInv, Asked, Products
<1>2. /\ Local(e) \in holds[l]
      /\ asked' = [asked EXCEPT ![l] = p]
      /\ external' = Add(external, l, {Fetch(e, p)})
      /\ holds' = Add(holds, l, {<<Fetch(e, p), First(e, p)>>}
                      \cup (IF UseWaiter THEN {<<First(e, p), AfterWait(e, p)>>} ELSE {})
                      \cup (IF UsesProductReady THEN {<<AfterWait(e, p), Out(e)>>} ELSE {}))
      /\ UNCHANGED <<active, pending, presentEventIndex, deferred, main, finals>>
  BY DEF AskForProduct, AskFor, Local, First, AfterWait
<1>3. /\ Read(e) \in active[l] /\ Out(e) \in Held(l) /\ NextTask(e) \in Held(l)
      /\ e = presentEventIndex[l] /\ e < NReadable
  BY <1>2, LocalHolder DEF LaneInv
<1>4. /\ \A x \in M : /\ x \in Objects /\ x[2] = e /\ x[3] = p
                      /\ x[1] \in {"fetch", "wait", "ready"} /\ x \notin Roots
      /\ \A x \in N : x[1] \in {"wait", "ready"} /\ x # Fetch(e, p)
      /\ Fetch(e, p)[1] = "fetch"
  BY <1>1, ObjectsMade, Parts DEF Roots
<1>5. M \cap Live(l) = {}
  <2> SUFFICES ASSUME NEW x \in M, x \in Live(l) PROVE FALSE
    OBVIOUS
  <2>1. x[1] \in ProductKinds /\ x[3] = p
    BY <1>4 DEF ProductKinds
  <2>2. p <= asked[l]
    BY <2>1 DEF LaneInv, Asked
  <2>3. QED
    BY <1>1, <2>2
<1>6. \A x \in M : Succ(x) \in N \cup {Out(e)}
  <2>1. Succ(Fetch(e, p)) = First(e, p) /\ (UseWaiter => Succ(WaitTask(e, p)) = AfterWait(e, p))
        /\ (UsesProductReady => Succ(Ready(e, p)) = Out(e))
    BY <1>1, SuccForms, ObjectsMade, Parts
  <2>2. QED
    BY <2>1 DEF First, AfterWait
<1>7. holds'[l] = holds[l] \cup {<<x, Succ(x)>> : x \in M}
  <2>1. Succ(Fetch(e, p)) = First(e, p) /\ (UseWaiter => Succ(WaitTask(e, p)) = AfterWait(e, p))
        /\ (UsesProductReady => Succ(Ready(e, p)) = Out(e))
    BY <1>1, SuccForms, ObjectsMade, Parts
  <2> DEFINE H == {<<Fetch(e, p), First(e, p)>>}
                  \cup (IF UseWaiter THEN {<<First(e, p), AfterWait(e, p)>>} ELSE {})
                  \cup (IF UsesProductReady THEN {<<AfterWait(e, p), Out(e)>>} ELSE {})
  <2>2. (UseWaiter => First(e, p) = WaitTask(e, p)) /\ (UsesProductReady => AfterWait(e, p) = Ready(e, p))
    BY DEF First, AfterWait
  <2>3. {<<x, Succ(x)>> : x \in M} = H
    BY <2>1, <2>2
  <2>4. QED
    BY <1>2, <2>3 DEF Add, Types
<1> HIDE DEF p
<1>8. Held(l)' = Held(l) \cup N
  <2>1. Held(l)' \subseteq Held(l) \cup N
    BY <1>3, <1>6, <1>7 DEF Held, Targets
  <2>2. N \subseteq {Succ(x) : x \in M}
    <3>1. Succ(Fetch(e, p)) = First(e, p) /\ (UseWaiter => Succ(WaitTask(e, p)) = AfterWait(e, p))
      BY <1>1, SuccForms, ObjectsMade, Parts
    <3>2. QED
      BY <3>1 DEF First, AfterWait
  <2>3. {Succ(x) : x \in M} \subseteq Held(l)'
    <3>1. \A x \in M : <<x, Succ(x)>> \in holds'[l]
      BY <1>7
    <3>2. \A a, b : <<a, b>> \in holds'[l] => b \in Held(l)'
      BY DEF Held, Targets
    <3>3. QED
      BY <3>1, <3>2
  <2>4. Held(l) \subseteq Held(l)'
    BY <1>7 DEF Held, Targets
  <2>5. QED
    BY <2>1, <2>2, <2>3, <2>4
<1>9. external'[l] = external[l] \cup {Fetch(e, p)} /\ asked'[l] = p
  BY <1>2 DEF Add, Types
<1>10. Live(l)' = Live(l) \cup M
  BY <1>2, <1>8, <1>9 DEF Live, Held
<1>11. Kinds(l)'
  <2>1. \A x \in M : <<x, Succ(x)>> \in Objects \X Objects
    BY <1>4, SuccType DEF SuccOf
  <2>2. holds'[l] \subseteq Objects \X Objects
    BY <1>7, <2>1 DEF LaneInv, Kinds
  <2>3. \A x \in external'[l] : x \in Objects /\ x[1] \in {"read", "fetch", "serialize", "output"}
    BY <1>4, <1>9 DEF LaneInv, Kinds
  <2>4. \A x \in Held(l)' : x[1] \in {"final", "next", "out", "wait", "ready"}
    BY <1>4, <1>8 DEF LaneInv, Kinds
  <2>5. QED
    BY <1>2, <2>2, <2>3, <2>4 DEF LaneInv, Kinds
<1>12. Apart(l)'
  <2>1. M \cap (pending[l] \cup active[l] \cup external[l] \cup Held(l)) = {}
    BY <1>5 DEF Live, Held
  <2>2. QED
    BY <1>2, <1>4, <1>8, <1>9, <2>1 DEF LaneInv, Apart
<1>13. Tree(l)'
  <2> HIDE DEF M
  <2>1. \A h \in holds'[l] : /\ h[1] \in Live(l)' \ Roots
                             /\ \/ h[2] = Succ(h[1])
                                \/ \E d \in Events : h = Local(d) /\ Read(d) \in active'[l]
    <3> SUFFICES ASSUME NEW h \in holds'[l]
                 PROVE  /\ h[1] \in Live(l)' \ Roots
                        /\ \/ h[2] = Succ(h[1])
                           \/ \E d \in Events : h = Local(d) /\ Read(d) \in active'[l]
      OBVIOUS
    <3>1. CASE h \in holds[l]
      BY <1>2, <1>10, <3>1 DEF LaneInv, Tree
    <3>2. CASE h \in {<<x, Succ(x)>> : x \in M}
      BY <1>4, <1>10, <3>2
    <3>3. QED
      BY <1>7, <3>1, <3>2
  <2>2. \A x \in Live(l)' \ Roots : <<x, Succ(x)>> \in holds'[l]
    BY <1>7, <1>10 DEF LaneInv, Tree
  <2>3. QED
    BY <2>1, <2>2 DEF Tree
<1>14. OneTurn(l)'
  <2>1. Waiting(l)' = Waiting(l)
    BY <1>2, <1>4, <1>8, <1>9 DEF Waiting
  <2>2. QED
    BY <1>2, <1>4, <1>8, <2>1 DEF LaneInv, OneTurn
<1>15. Past(l)'
  <2>1. e <= e
    BY LaneAssumption DEF Events
  <2>2. QED
    BY <1>2, <1>3, <1>4, <1>10, <2>1 DEF LaneInv, Past
<1>16. Asked(l)'
  <2>1. \A d \in Events : Out(d) \in Live(l) \/ Output(d) \in Live(l) => d = e
    <3> SUFFICES ASSUME NEW d \in Events, Out(d) \in Live(l) \/ Output(d) \in Live(l) PROVE d = e
      OBVIOUS
    <3>1. NextTask(d) \in Held(l)
      BY Chain, Parts DEF LaneInv
    <3>2. NextTask(d) \in Waiting(l) /\ NextTask(e) \in Waiting(l)
      BY <1>3, <3>1, Parts DEF Waiting
    <3>3. NextTask(d) = NextTask(e)
      BY <3>2 DEF LaneInv, OneTurn
    <3>4. QED
      BY <3>3, Parts
  <2>2. \A x \in Live(l)' : x[1] \in ProductKinds => x[3] <= p
    <3>1. \A x \in Live(l) : x[1] \in ProductKinds => x[3] \in Int /\ x[3] <= asked[l]
      BY Chain, ObjectKinds DEF LaneInv, Asked, Products
    <3>2. p \in Int /\ asked[l] \in Int
      BY <1>1
    <3>3. QED
      BY <1>1, <1>4, <1>10, <3>1, <3>2
  <2>3. \A d \in Events : Out(d) \in Live(l)' /\ Local(d) \notin holds'[l] => FALSE
    <3>1. \A d \in Events : Out(d) \in Live(l)' => Out(d) \in Live(l)
      BY <1>4, <1>10, Parts
    <3>2. QED
      BY <1>2, <1>7, <2>1, <3>1
  <2>4. \A d \in Events : Output(d) \notin external'[l]
    <3>1. \A d \in Events : Output(d) \in external'[l] => Output(d) \in external[l]
      BY <1>4, <1>9, Parts
    <3>2. \A d \in Events : Output(d) \in external[l] => d = e /\ Out(d) \notin Held(l)
      BY <2>1 DEF LaneInv, Asked, Live
    <3>3. QED
      BY <1>3, <3>1, <3>2
  <2>5. QED
    BY <1>1, <1>9, <2>2, <2>3, <2>4 DEF Asked
<1>17. Ends(l)'
  <2>1. Final \notin M /\ Live(l) # {}
    BY <1>3, <1>4 DEF Roots, Live
  <2>2. QED
    BY <1>2, <1>10, <2>1 DEF LaneInv, Ends
<1>18. QED
  BY <1>11, <1>12, <1>13, <1>14, <1>15, <1>16, <1>17 DEF LaneInv

----------------------------------------------------------------------------
\* The end of a lane

LEMMA RunFinalKeeps ==
  ASSUME NEW l \in Lanes, Types, LaneInv(l), RunFinal(l)
  PROVE  LaneInv(l)'
<1>1. /\ Final \in pending[l]
      /\ pending'[l] = (pending[l] \ {Final}) \cup {Handle}
      /\ deferred'[l] = FALSE /\ finals'[l] = finals[l] + 1
      /\ UNCHANGED <<active, external, holds, asked, presentEventIndex, main>>
  BY DEF RunFinal, Types
<1>2. Final \notin Held(l) /\ Final \in Live(l)
  BY <1>1 DEF LaneInv, Apart, Live
<1>3. Live(l) \subseteq Roots
  BY <1>2, Chain DEF LaneInv
<1>4. /\ Final[1] = "final" /\ Handle[1] = "handle" /\ Start[1] = "start"
      /\ Final \in Objects /\ Handle \in Objects
  BY Parts, ObjectsMade
<1>5. active[l] = {} /\ external[l] = {} /\ Held(l) = {}
  BY <1>1, <1>2, <1>3, <1>4 DEF LaneInv, Kinds, Live, Held, Roots
<1>6. holds[l] = {}
  BY <1>3 DEF LaneInv, Tree
<1>7. pending'[l] = {Handle}
  BY <1>1, <1>3 DEF Live, Roots
<1>8. Live(l)' = {Handle} /\ Held(l)' = {}
  BY <1>1, <1>5, <1>6, <1>7 DEF Live, Held, Targets
<1>9. Kinds(l)' /\ Apart(l)' /\ Tree(l)'
  BY <1>1, <1>4, <1>5, <1>6, <1>7, <1>8 DEF Kinds, Apart, Tree, Roots
<1>10. Waiting(l) = {} /\ Waiting(l)' = {}
  BY <1>1, <1>3, <1>4, <1>5, <1>7, <1>8 DEF Waiting, Live, Roots
<1>11. OneTurn(l)'
  BY <1>1, <1>4, <1>7, <1>8, <1>10 DEF LaneInv, OneTurn
<1>12. Past(l)' /\ Asked(l)'
  BY <1>1, <1>4, <1>5, <1>8, Parts DEF LaneInv, Past, Asked, ProductKinds
<1>13. Ends(l)'
  <2>1. l < main /\ ~(main <= l) /\ ~(NLanes + l < main)
    BY <1>2, LaneAssumption DEF LaneInv, Ends, Types, Lanes
  <2>2. finals[l] = 0
    BY <1>2, <2>1 DEF LaneInv, Ends
  <2>3. Final \notin Live(l)' /\ ~deferred'[l] /\ deferred'[l] \in BOOLEAN
    BY <1>1, <1>4, <1>8
  <2>4. finals'[l] = 1 /\ l < main' /\ ~(main' <= l) /\ ~(NLanes + l < main')
    BY <1>1, <2>1, <2>2
  <2>5. QED
    BY <2>3, <2>4 DEF Ends
<1>14. QED
  BY <1>9, <1>11, <1>12, <1>13 DEF LaneInv

LEMMA RunHandleKeeps ==
  ASSUME NEW l \in Lanes, Types, LaneInv(l), RunHandle(l)
  PROVE  LaneInv(l)'
<1>1. /\ Handle \in pending[l] /\ pending'[l] = pending[l] \ {Handle}
      /\ UNCHANGED <<active, external, holds, asked, presentEventIndex, main, deferred, finals>>
  BY DEF RunHandle, Remove, Types
<1>2. Handle \notin active[l] \cup external[l] \cup Held(l) /\ Handle # Final /\ Handle[1] = "handle"
      /\ Handle \in Roots /\ Handle \in Live(l)
  BY <1>1, Parts DEF LaneInv, Apart, Roots, Live
<1>3. Held(l)' = Held(l)
  BY <1>1 DEF Held
<1>4. Live(l)' = Live(l) \ {Handle}
  BY <1>1, <1>2, <1>3 DEF Live, Held
<1>5. Kinds(l)' /\ Apart(l)' /\ Tree(l)'
  BY <1>1, <1>2, <1>3, <1>4 DEF LaneInv, Kinds, Apart, Tree
<1>6. Waiting(l)' = Waiting(l)
  BY <1>1, <1>2, <1>3 DEF Waiting
<1>7. OneTurn(l)' /\ Past(l)' /\ Asked(l)'
  BY <1>1, <1>3, <1>4, <1>6 DEF LaneInv, OneTurn, Past, Asked
<1>8. Ends(l)'
  BY <1>1, <1>2, <1>4 DEF LaneInv, Ends
<1>9. QED
  BY <1>5, <1>7, <1>8 DEF LaneInv

\* The launch of a lane that has nothing yet.
LEMMA LaunchKeeps ==
  ASSUME Types, \A l \in Lanes : LaneInv(l), Launch PROVE \A l \in Lanes : LaneInv(l)'
<1>1. /\ NLanes \in Nat /\ main \in Nat /\ main < NLanes /\ main' = main + 1 /\ main \in Lanes
  BY LaneAssumption DEF Launch, Types, Lanes
<1> SUFFICES ASSUME NEW l \in Lanes PROVE LaneInv(l)'
  OBVIOUS
<1>2. LaneInv(l) /\ l \in Int /\ l >= 0
  BY <1>1 DEF Lanes
<1>3. /\ asked'[l] = asked[l] /\ active'[l] = active[l] /\ external'[l] = external[l]
      /\ presentEventIndex'[l] = presentEventIndex[l] /\ finals'[l] = finals[l]
  BY DEF Launch
<1>4. CASE l # main
  <2>1. pending'[l] = pending[l] /\ holds'[l] = holds[l] /\ deferred'[l] = deferred[l]
    BY <1>1, <1>4 DEF Launch, Add, Types
  <2>2. Live(l)' = Live(l) /\ Held(l)' = Held(l) /\ Waiting(l)' = Waiting(l)
    BY <1>3, <2>1, SameSets
  <2>3. (l < main' <=> l < main) /\ (main' <= l <=> main <= l) /\ ~(NLanes + l < main')
    BY <1>1, <1>2, <1>4
  <2>4. Kinds(l)' /\ Apart(l)' /\ Tree(l)'
    BY <1>2, <1>3, <2>1, <2>2 DEF LaneInv, Kinds, Apart, Tree
  <2>5. OneTurn(l)' /\ Past(l)' /\ Asked(l)'
    BY <1>2, <1>3, <2>1, <2>2, <2>3 DEF LaneInv, OneTurn, Past, Asked
  <2>6. Ends(l)'
    BY <1>2, <1>3, <2>1, <2>2, <2>3 DEF LaneInv, Ends
  <2>7. QED
    BY <2>4, <2>5, <2>6 DEF LaneInv
<1>5. CASE l = main
  <2>1. Live(l) = {} /\ presentEventIndex[l] = -1 /\ finals[l] = 0
    BY <1>1, <1>2, <1>5 DEF LaneInv, Ends
  <2>2. pending[l] = {} /\ active[l] = {} /\ external[l] = {} /\ holds[l] = {}
    BY <1>2, <2>1 DEF LaneInv, Tree, Live
  <2>3. pending'[l] = {Start} /\ holds'[l] = {<<Start, Final>>} /\ deferred'[l] = TRUE
    BY <1>1, <1>5, <2>2 DEF Launch, Add, Types
  <2>4. Held(l)' = {Final}
    BY <2>3 DEF Held, Targets
  <2>5. Live(l)' = {Start, Final}
    BY <1>3, <2>2, <2>3, <2>4 DEF Live, Held
  <2>6. /\ Start[1] = "start" /\ Final[1] = "final" /\ Handle[1] = "handle" /\ Start \in Objects
        /\ Final \in Objects /\ Succ(Start) = Final
    BY Parts, ObjectsMade, SuccForms
  <2>7. Kinds(l)' /\ Apart(l)'
    BY <1>3, <2>2, <2>3, <2>4, <2>6 DEF Kinds, Apart
  <2>8. Tree(l)'
    BY <2>3, <2>5, <2>6 DEF Tree, Roots
  <2>9. Waiting(l)' = {Start}
    BY <1>3, <2>2, <2>3, <2>4, <2>6 DEF Waiting
  <2>10. OneTurn(l)'
    BY <1>3, <2>1, <2>3, <2>4, <2>6, <2>9 DEF OneTurn
  <2>11. Past(l)' /\ Asked(l)'
    BY <1>2, <1>3, <2>2, <2>5, <2>6, Parts DEF LaneInv, Past, Asked, ProductKinds
  <2>12. Ends(l)'
    <3>1. l < main' /\ ~(main' <= l) /\ ~(NLanes + l < main')
      BY <1>1, <1>2, <1>5
    <3>2. QED
      BY <1>3, <2>1, <2>3, <2>5, <3>1 DEF Ends
  <2>13. QED
    BY <2>7, <2>8, <2>10, <2>11, <2>12 DEF LaneInv
<1>6. QED
  BY <1>4, <1>5

\* When a group has nothing to run and no deferred task, nothing of its lane is left.
LEMMA NothingLeft ==
  ASSUME NEW l, LaneInv(l), GroupDone(l), l < main
  PROVE  Live(l) = {}
<1>1. Final \notin Live(l)
  BY DEF GroupDone, LaneInv, Ends
<1>2. Live(l) \subseteq {Handle}
  BY <1>1, Chain DEF LaneInv, Roots, Live, Held
<1>3. holds[l] = {}
  BY <1>2 DEF LaneInv, Tree, Roots
<1>4. external[l] = {}
  BY <1>2, Parts DEF LaneInv, Kinds, Live
<1>5. QED
  BY <1>3, <1>4 DEF GroupDone, Live, Targets

LEMMA WaitReturnsKeeps ==
  ASSUME Types, \A l \in Lanes : LaneInv(l), WaitReturns PROVE \A l \in Lanes : LaneInv(l)'
<1> DEFINE w == main - NLanes
<1>1. /\ NLanes \in Nat /\ main \in Nat /\ NLanes <= main /\ main' = main + 1 /\ w \in Lanes
  BY LaneAssumption DEF WaitReturns, Types, Lanes
<1>2. GroupDone(w)
  BY DEF WaitReturns
<1> SUFFICES ASSUME NEW l \in Lanes PROVE LaneInv(l)'
  OBVIOUS
<1>3. LaneInv(l) /\ l \in Int /\ l >= 0 /\ l < NLanes
  BY <1>1 DEF Lanes
<1>4. UNCHANGED <<pending, active, external, holds, asked, presentEventIndex, finals, deferred>>
  BY DEF WaitReturns
<1>5. Live(l)' = Live(l) /\ Held(l)' = Held(l) /\ Waiting(l)' = Waiting(l)
  BY <1>4, SameSets
<1>6. l < main' /\ l < main /\ ~(main' <= l)
  BY <1>1, <1>3
<1>7. Kinds(l)' /\ Apart(l)' /\ Tree(l)'
  BY <1>3, <1>4, <1>5 DEF LaneInv, Kinds, Apart, Tree
<1>8. OneTurn(l)' /\ Past(l)' /\ Asked(l)'
  BY <1>3, <1>4, <1>5, <1>6 DEF LaneInv, OneTurn, Past, Asked
<1>9. NLanes + l < main' => Live(l) = {} /\ ~deferred[l]
  <2>1. CASE l = w
    <3>1. Live(l) = {}
      BY <1>2, <1>3, <1>6, <2>1, NothingLeft
    <3>2. QED
      BY <1>2, <2>1, <3>1 DEF GroupDone
  <2>2. CASE l # w
    <3>1. NLanes + l < main' => NLanes + l < main
      BY <1>1, <1>3, <2>2
    <3>2. QED
      BY <1>3, <3>1 DEF LaneInv, Ends
  <2>3. QED
    BY <2>1, <2>2
<1>10. Ends(l)'
  BY <1>3, <1>4, <1>5, <1>6, <1>9 DEF LaneInv, Ends
<1>11. QED
  BY <1>7, <1>8, <1>10 DEF LaneInv

----------------------------------------------------------------------------
\* Every step of a lane

\* The types of what a lane's holders and tasks become.
LEMMA DroppedTypes ==
  ASSUME NEW l \in Lanes, Types, NEW H, NEW run, DropHolders(l, H, run), H \subseteq holds[l]
  PROVE  holds' \in [Lanes -> SUBSET (Objects \X Objects)] /\ pending' \in [Lanes -> SUBSET Objects]
<1>1. holds[l] \subseteq Objects \X Objects /\ pending[l] \subseteq Objects
  BY DEF Types
<1>2. Targets(H) \subseteq Objects
  BY <1>1 DEF Targets
<1>3. QED
  BY <1>1, <1>2 DEF DropHolders, Remove, Types

LEMMA DeletedTypes ==
  ASSUME NEW l \in Lanes, Types, NEW o, NEW run, Delete(l, o, run)
  PROVE  holds' \in [Lanes -> SUBSET (Objects \X Objects)] /\ pending' \in [Lanes -> SUBSET Objects]
  BY DroppedTypes DEF Delete

LEMMA CopiedTypes ==
  ASSUME NEW l \in Lanes, Types, NEW o, NEW op \in Objects, RunWithCopy(l, o, op)
  PROVE  active' \in [Lanes -> SUBSET Objects] /\ holds' \in [Lanes -> SUBSET (Objects \X Objects)]
<1>1. holds[l] \subseteq Objects \X Objects /\ pending[l] \subseteq Objects /\ active[l] \subseteq Objects
  BY DEF Types
<1>2. {op} \X HeldBy(l, o) \subseteq Objects \X Objects
  BY <1>1 DEF HeldBy
<1>3. QED
  BY <1>1, <1>2 DEF RunWithCopy, Add, Types

LEMMA LaneTypes ==
  ASSUME NEW l \in Lanes, Types, LaneInv(l), Indexes, LaneStep(l) PROVE Types'
<1>1. /\ holds[l] \subseteq Objects \X Objects /\ pending[l] \subseteq Objects
      /\ active[l] \subseteq Objects /\ external[l] \subseteq Objects
      /\ nested[l] \subseteq Objects \X Objects
  BY DEF Types
<1>2. ASSUME NEW o \in pending[l], DoNextEvent(l, o) PROVE Types'
  <2>1. o[1] \in {"start", "next"} /\ o \in Objects
    BY <1>1, <1>2 DEF DoNextEvent, TakeIndex
  <2>2. index \in Events
    BY <2>1, NextEventTask, RoomForIndex
  <2>3. Read(index) \in Objects /\ Final \in Objects
    BY <2>2, ObjectsMade
  <2>4. presentEventIndex' \in [Lanes -> Events \cup {-1}]
    BY <1>2, <2>2 DEF DoNextEvent, TakeIndex, Types
  <2>5. /\ holds' \in [Lanes -> SUBSET (Objects \X Objects)]
        /\ external' \in [Lanes -> SUBSET Objects]
        /\ nested' \in [Lanes -> SUBSET (Objects \X Objects)]
    BY <1>1, <1>2, <2>1, <2>3 DEF DoNextEvent, TakeIndex, Add, Types
  <2>6. pending' \in [Lanes -> SUBSET Objects] /\ active' \in [Lanes -> SUBSET Objects]
    BY <1>1, <1>2, <2>1 DEF DoNextEvent, TakeIndex, Add, Remove, Types
  <2>7. QED
    BY <1>2, <2>4, <2>5, <2>6 DEF DoNextEvent, TakeIndex, Types
<1>3. ASSUME NEW e \in Events, SourceReads(l, e) PROVE Types'
  <2>1. Read(e) \in Objects
    BY ObjectsMade
  <2>2. QED
    BY <1>1, <1>3, <2>1 DEF SourceReads, Add, Remove, Types
<1>4. ASSUME NEW e \in Events, SourceEnds(l, e) PROVE Types'
  <2>1. holds' \in [Lanes -> SUBSET (Objects \X Objects)] /\ pending' \in [Lanes -> SUBSET Objects]
    BY <1>4, DeletedTypes DEF SourceEnds
  <2>2. QED
    BY <1>1, <1>4, <2>1 DEF SourceEnds, Remove, Types
<1>5. ASSUME NEW e \in Events, BeginProcess(l, e) PROVE Types'
  <2>1. {<<NextTask(e), Final>>, <<Out(e), NextTask(e)>>, <<Read(e), Out(e)>>} \subseteq Objects \X Objects
    BY ObjectsMade
  <2>2. 0 \in 0..NProducts
    BY LaneAssumption
  <2>3. holds' \in [Lanes -> SUBSET (Objects \X Objects)]
    BY <1>1, <1>5, <2>1 DEF BeginProcess, Add, Types
  <2>4. pending' \in [Lanes -> SUBSET Objects] /\ active' \in [Lanes -> SUBSET Objects]
    BY <1>1, <1>5, ObjectsMade DEF BeginProcess, Add, Remove, Types
  <2>5. QED
    BY <1>5, <2>2, <2>3, <2>4 DEF BeginProcess, Types
<1>6. ASSUME NEW e \in Events, AskForProduct(l, e) PROVE Types'
  <2> DEFINE p == asked[l] + 1
  <2>1. p \in Products /\ p \in 0..NProducts
    BY <1>6, LaneAssumption DEF AskForProduct, Types, Products
  <2>2. /\ Fetch(e, p) \in Objects /\ First(e, p) \in Objects /\ AfterWait(e, p) \in Objects
        /\ Out(e) \in Objects
    BY <2>1, ObjectsMade DEF First, AfterWait
  <2> HIDE DEF p
  <2>3. {<<Fetch(e, p), First(e, p)>>}
          \cup (IF UseWaiter THEN {<<First(e, p), AfterWait(e, p)>>} ELSE {})
          \cup (IF UsesProductReady THEN {<<AfterWait(e, p), Out(e)>>} ELSE {}) \subseteq Objects \X Objects
    BY <2>2
  <2>4. /\ asked' = [asked EXCEPT ![l] = p] /\ external' = Add(external, l, {Fetch(e, p)})
        /\ holds' = Add(holds, l, {<<Fetch(e, p), First(e, p)>>}
                      \cup (IF UseWaiter THEN {<<First(e, p), AfterWait(e, p)>>} ELSE {})
                      \cup (IF UsesProductReady THEN {<<AfterWait(e, p), Out(e)>>} ELSE {}))
        /\ UNCHANGED <<index, presentEventIndex, pending, active, nested, deferred, main, finals, outputs>>
    BY <1>6 DEF AskForProduct, AskFor, First, AfterWait, p
  <2>5. holds' \in [Lanes -> SUBSET (Objects \X Objects)]
    BY <1>1, <2>3, <2>4 DEF Add, Types
  <2>6. QED
    BY <1>1, <2>1, <2>2, <2>4, <2>5 DEF Add, Types
<1>7. ASSUME NEW e \in Events, EndProcess(l, e) PROVE Types'
  <2>1. holds' \in [Lanes -> SUBSET (Objects \X Objects)] /\ pending' \in [Lanes -> SUBSET Objects]
    BY <1>7, DroppedTypes DEF EndProcess
  <2>2. QED
    BY <1>7, <2>1 DEF EndProcess, Types
<1>8. ASSUME NEW e \in Events, RunOut(l, e) PROVE Types'
  <2>1. active' \in [Lanes -> SUBSET Objects] /\ holds' \in [Lanes -> SUBSET (Objects \X Objects)]
    BY <1>8, CopiedTypes, ObjectsMade DEF RunOut
  <2>2. outputs' \in [Events -> Nat]
    <3> DEFINE d == presentEventIndex[l]
    <3>1. outputs' = [outputs EXCEPT ![d] = outputs[d] + 1] /\ outputs \in [Events -> Nat]
      BY <1>8 DEF RunOut, Types
    <3> HIDE DEF d
    <3>2. CASE d \in Events
      BY <3>1, <3>2
    <3>3. CASE d \notin Events
      BY <3>1, <3>3
    <3>4. QED
      BY <3>2, <3>3
  <2>3. pending' \in [Lanes -> SUBSET Objects] /\ external' \in [Lanes -> SUBSET Objects]
    BY <1>1, <1>8, ObjectsMade DEF RunOut, Add, Remove, Types
  <2>4. QED
    BY <1>8, <2>1, <2>2, <2>3 DEF RunOut, Types
<1>9. ASSUME NEW e \in Events, NEW p \in Products, RunWait(l, e, p) \/ RunReady(l, e, p) PROVE Types'
  <2>1. Sleep(e, p) \in Objects /\ Serialize(e, p) \in Objects
    BY ObjectsMade
  <2>2. active' \in [Lanes -> SUBSET Objects] /\ holds' \in [Lanes -> SUBSET (Objects \X Objects)]
    BY <1>9, <2>1, CopiedTypes DEF RunWait, RunReady
  <2>3. pending' \in [Lanes -> SUBSET Objects] /\ external' \in [Lanes -> SUBSET Objects]
    BY <1>1, <1>9, <2>1 DEF RunWait, RunReady, Add, Remove, Types
  <2>4. QED
    BY <1>9, <2>2, <2>3 DEF RunWait, RunReady, Types
<1>10. ASSUME NEW e \in Events, NEW p \in Products, SleepDone(l, e, p) PROVE Types'
  <2>1. holds' \in [Lanes -> SUBSET (Objects \X Objects)] /\ pending' \in [Lanes -> SUBSET Objects]
    BY <1>10, DeletedTypes DEF SleepDone
  <2>2. QED
    BY <1>10, <2>1 DEF SleepDone, Types
<1>11. ASSUME NEW o \in external[l], OperationDone(l, o) PROVE Types'
  <2>1. holds' \in [Lanes -> SUBSET (Objects \X Objects)] /\ pending' \in [Lanes -> SUBSET Objects]
    BY <1>11, DeletedTypes DEF OperationDone
  <2>2. QED
    BY <1>1, <1>11, <2>1 DEF OperationDone, Remove, Types
<1>12. ASSUME NEW o \in active[l], DeleteTask(l, o) PROVE Types'
  <2>1. holds' \in [Lanes -> SUBSET (Objects \X Objects)] /\ pending' \in [Lanes -> SUBSET Objects]
    BY <1>12, DeletedTypes DEF DeleteTask
  <2>2. QED
    BY <1>1, <1>12, <2>1 DEF DeleteTask, Remove, Types
<1>13. CASE RunFinal(l)
  <2>1. pending' \in [Lanes -> SUBSET Objects]
    BY <1>1, <1>13, ObjectsMade DEF RunFinal, Types
  <2>2. finals' \in [Lanes -> Nat] /\ deferred' \in [Lanes -> BOOLEAN]
    BY <1>13 DEF RunFinal, Types
  <2>3. QED
    BY <1>13, <2>1, <2>2 DEF RunFinal, Types
<1>14. CASE RunHandle(l)
  BY <1>1, <1>14 DEF RunHandle, Remove, Types
<1>15. QED
  BY <1>2, <1>3, <1>4, <1>5, <1>6, <1>7, <1>8, <1>9, <1>10, <1>11, <1>12, <1>13, <1>14
     DEF LaneStep, EventStep, ProductStep

LEMMA OneLane == ASSUME NEW l \in Lanes, Types, LaneStep(l) PROVE OnlyLane(l)
<1>1. ASSUME NEW o, DoNextEvent(l, o) PROVE OnlyLane(l)
  BY <1>1 DEF DoNextEvent, TakeIndex, Add, Remove, Types, OnlyLane
<1>2. ASSUME NEW e, SourceReads(l, e) \/ SourceEnds(l, e) PROVE OnlyLane(l)
  BY <1>2 DEF SourceReads, SourceEnds, Delete, DropHolders, Add, Remove, Types, OnlyLane
<1>3. ASSUME NEW e, BeginProcess(l, e) \/ AskForProduct(l, e) PROVE OnlyLane(l)
  BY <1>3 DEF BeginProcess, AskForProduct, AskFor, Add, Remove, Types, OnlyLane
<1>4. ASSUME NEW e, EndProcess(l, e) \/ RunOut(l, e) PROVE OnlyLane(l)
  BY <1>4 DEF EndProcess, RunOut, RunWithCopy, DropHolders, Add, Remove, Types, OnlyLane
<1>5. ASSUME NEW e, NEW p, RunWait(l, e, p) \/ SleepDone(l, e, p) \/ RunReady(l, e, p) PROVE OnlyLane(l)
  BY <1>5 DEF RunWait, RunReady, SleepDone, RunWithCopy, Delete, DropHolders, Add, Remove, Types, OnlyLane
<1>6. ASSUME NEW o, OperationDone(l, o) \/ DeleteTask(l, o) PROVE OnlyLane(l)
  BY <1>6 DEF OperationDone, DeleteTask, Delete, DropHolders, Add, Remove, Types, OnlyLane
<1>7. CASE RunFinal(l) \/ RunHandle(l)
  BY <1>7 DEF RunFinal, RunHandle, Remove, Types, OnlyLane
<1>8. QED
  BY <1>1, <1>2, <1>3, <1>4, <1>5, <1>6, <1>7 DEF LaneStep, EventStep, ProductStep

\* The steps that delete an object, and what each deletes.
LEMMA DeletingSteps ==
  ASSUME NEW l \in Lanes, Types, LaneInv(l)
  PROVE  /\ \A e \in Events : SourceEnds(l, e) => Deleted(l, Read(e), {})
         /\ \A e, p : SleepDone(l, e, p) => Deleted(l, Sleep(e, p), {Sleep(e, p)})
         /\ \A o : OperationDone(l, o) => Deleted(l, o, {}) /\ o[1] \in {"fetch", "serialize", "output"}
         /\ \A o : DeleteTask(l, o) => Deleted(l, o, {}) /\ o \in active[l]
  BY DEF SourceEnds, SleepDone, OperationDone, DeleteTask, Deleted

LEMMA SourceEndsKeeps ==
  ASSUME NEW l \in Lanes, Types, LaneInv(l), NEW e \in Events, SourceEnds(l, e)
  PROVE  LaneInv(l)'
<1>1. Deleted(l, Read(e), {}) /\ Read(e) \in external[l] /\ e >= InSource
      /\ UNCHANGED <<presentEventIndex, asked, deferred, main, finals>>
  BY DeletingSteps DEF SourceEnds
<1>2. Read(e)[1] = "read" /\ Read(e)[2] = e /\ Read(e) \notin Roots /\ Read(e) # Start
  BY Parts DEF Roots
<1>3. Local(e) \notin holds[l]
  <2>1. Read(e) \notin active[l]
    BY <1>1 DEF LaneInv, Apart
  <2>2. QED
    BY <2>1, LocalHolder DEF LaneInv
<1>4. presentEventIndex[l] >= NReadable
  <2>1. Read(e) \in Waiting(l)
    BY <1>1, <1>2 DEF Waiting
  <2>2. e = presentEventIndex[l]
    BY <1>2, <2>1 DEF LaneInv, OneTurn
  <2>3. QED
    BY <1>1, <2>2, LaneAssumption DEF NReadable, Events
<1>5. QED
  BY <1>1, <1>2, <1>3, <1>4, DeletedKeeps

LEMMA DeletingKeeps ==
  ASSUME NEW l \in Lanes, Types, LaneInv(l), NEW o, NEW run, Deleted(l, o, run),
         o[1] \in {"sleep", "fetch", "serialize", "output"} \/ (o \in active[l] /\ DeleteTask(l, o)),
         UNCHANGED <<presentEventIndex, asked, deferred, main, finals>>
  PROVE  LaneInv(l)'
<1>1. o \notin Roots
  BY Parts DEF LaneInv, Kinds, Roots
<1>2. o \notin Waiting(l)
  <2>1. CASE o[1] \in {"sleep", "fetch", "serialize", "output"}
    BY <2>1 DEF Waiting
  <2>2. CASE o \in active[l]
    BY <2>2 DEF LaneInv, Apart, Waiting
  <2>3. QED
    BY <2>1, <2>2
<1>3. o[1] = "read" => Local(o[2]) \notin holds[l]
  <2> SUFFICES ASSUME o[1] = "read" PROVE Local(o[2]) \notin holds[l]
    OBVIOUS
  <2>1. o \in active[l] /\ <<o, Out(o[2])>> \notin holds[l]
    BY DEF DeleteTask
  <2>2. o = Read(o[2])
    BY <2>1, ObjectKinds DEF LaneInv, Kinds
  <2>3. QED
    BY <2>1, <2>2 DEF Local
<1>4. QED
  BY <1>1, <1>2, <1>3, DeletedKeeps

\* The steps that copy a holder to an operation.
LEMMA CopyingSteps ==
  ASSUME NEW l \in Lanes, NEW e \in Events
  PROVE  /\ RunOut(l, e) => Copied(l, Out(e), Output(e))
         /\ \A p \in Products : RunWait(l, e, p) => Copied(l, WaitTask(e, p), Sleep(e, p))
         /\ \A p \in Products : RunReady(l, e, p) => Copied(l, Ready(e, p), Serialize(e, p))
<1>1. RunOut(l, e) => Copied(l, Out(e), Output(e))
  <2>1. Succ(Out(e)) = NextTask(e) /\ Succ(Output(e)) = NextTask(e)
    BY SuccForms, Parts, ObjectsMade
  <2>2. QED
    BY <2>1, Parts, ObjectsMade DEF RunOut, Copied
<1>2. ASSUME NEW p \in Products, RunWait(l, e, p) PROVE Copied(l, WaitTask(e, p), Sleep(e, p))
  <2>1. Succ(WaitTask(e, p)) = AfterWait(e, p) /\ Succ(Sleep(e, p)) = AfterWait(e, p)
    BY SuccForms, Parts, ObjectsMade
  <2>2. QED
    BY <1>2, <2>1, Parts, ObjectsMade DEF RunWait, Copied
<1>3. ASSUME NEW p \in Products, RunReady(l, e, p) PROVE Copied(l, Ready(e, p), Serialize(e, p))
  <2>1. Succ(Ready(e, p)) = Out(e) /\ Succ(Serialize(e, p)) = Out(e)
    BY SuccForms, Parts, ObjectsMade
  <2>2. QED
    BY <1>3, <2>1, Parts, ObjectsMade DEF RunReady, Copied
<1>4. QED
  BY <1>1, <1>2, <1>3

LEMMA LaneKeeps ==
  ASSUME NEW l \in Lanes, Types, LaneInv(l), Indexes, LaneStep(l) PROVE LaneInv(l)'
<1>1. ASSUME NEW o \in pending[l], DoNextEvent(l, o) PROVE LaneInv(l)'
  BY <1>1, DoNextEventKeeps
<1>2. ASSUME NEW e \in Events, SourceReads(l, e) \/ SourceEnds(l, e) \/ BeginProcess(l, e)
                               \/ AskForProduct(l, e) \/ EndProcess(l, e)
      PROVE  LaneInv(l)'
  BY <1>2, SourceReadsKeeps, SourceEndsKeeps, BeginProcessKeeps, AskForProductKeeps, EndProcessKeeps
<1>3. ASSUME NEW e \in Events, RunOut(l, e) PROVE LaneInv(l)'
  <2>1. UNCHANGED <<presentEventIndex, asked, deferred, main, finals>>
    BY <1>3 DEF RunOut
  <2>2. QED
    BY <1>3, <2>1, CopyingSteps, CopiedKeeps
<1>4. ASSUME NEW e \in Events, NEW p \in Products, RunWait(l, e, p) \/ RunReady(l, e, p)
      PROVE  LaneInv(l)'
  <2>1. UNCHANGED <<presentEventIndex, asked, deferred, main, finals>>
    BY <1>4 DEF RunWait, RunReady
  <2>2. QED
    BY <1>4, <2>1, CopyingSteps, CopiedKeeps
<1>5. ASSUME NEW e \in Events, NEW p \in Products, SleepDone(l, e, p) PROVE LaneInv(l)'
  <2>1. UNCHANGED <<presentEventIndex, asked, deferred, main, finals>>
    BY <1>5 DEF SleepDone
  <2>2. Deleted(l, Sleep(e, p), {Sleep(e, p)}) /\ Sleep(e, p)[1] = "sleep"
    BY <1>5, DeletingSteps, Parts
  <2>3. QED
    BY <2>1, <2>2, DeletingKeeps
<1>6. ASSUME NEW o \in external[l], OperationDone(l, o) PROVE LaneInv(l)'
  <2>1. UNCHANGED <<presentEventIndex, asked, deferred, main, finals>>
    BY <1>6 DEF OperationDone
  <2>2. Deleted(l, o, {}) /\ o[1] \in {"fetch", "serialize", "output"}
    BY <1>6, DeletingSteps
  <2>3. QED
    BY <2>1, <2>2, DeletingKeeps
<1>7. ASSUME NEW o \in active[l], DeleteTask(l, o) PROVE LaneInv(l)'
  <2>1. UNCHANGED <<presentEventIndex, asked, deferred, main, finals>>
    BY <1>7 DEF DeleteTask
  <2>2. Deleted(l, o, {})
    BY <1>7, DeletingSteps
  <2>3. QED
    BY <1>7, <2>1, <2>2, DeletingKeeps
<1>8. CASE RunFinal(l) \/ RunHandle(l)
  BY <1>8, RunFinalKeeps, RunHandleKeeps
<1>9. QED
  BY <1>1, <1>2, <1>3, <1>4, <1>5, <1>6, <1>7, <1>8 DEF LaneStep, EventStep, ProductStep

----------------------------------------------------------------------------
\* The indexes and the outputs

LEMMA IndexesKeep ==
  ASSUME NEW l \in Lanes, Types, LaneInv(l), Indexes, LaneStep(l) PROVE Indexes'
<1>1. ASSUME NEW o \in pending[l], DoNextEvent(l, o) PROVE Indexes'
  <2>1. /\ o[1] \in {"start", "next"} /\ index' = index + 1
        /\ presentEventIndex' = [presentEventIndex EXCEPT ![l] = index]
    BY <1>1 DEF DoNextEvent, TakeIndex
  <2>2. presentEventIndex[l] \in Int /\ presentEventIndex[l] < NReadable
    BY <2>1, NextEventTask
  <2>3. /\ index \in Nat /\ NReadable \in Nat /\ IsFiniteSet(Ended) /\ Cardinality(Ended) \in Nat
    BY <2>2, RoomForIndex DEF Indexes
  <2>4. \A k \in Lanes : presentEventIndex[k] \in Int /\ presentEventIndex[k] < index
    BY LaneAssumption DEF Types, Events, Indexes
  <2>5. presentEventIndex'[l] = index /\ \A k \in Lanes \ {l} : presentEventIndex'[k] = presentEventIndex[k]
    BY <2>1 DEF Types
  <2>6. \A k \in Lanes : presentEventIndex'[k] < index'
    BY <2>1, <2>3, <2>4, <2>5
  <2>7. \A j, k \in Lanes : j # k /\ presentEventIndex'[j] = presentEventIndex'[k]
                              => presentEventIndex'[k] = -1
    BY <2>3, <2>4, <2>5 DEF Indexes
  <2>8. Cardinality(Ended') = IF index' <= NReadable THEN 0 ELSE index' - NReadable
    <3>1. l \notin Ended
      BY <2>2, <2>3 DEF Ended
    <3>2. CASE index < NReadable
      <4>1. Ended' = Ended
        BY <2>3, <2>5, <3>1, <3>2 DEF Ended
      <4>2. QED
        BY <2>1, <2>3, <3>2, <4>1 DEF Indexes
    <3>3. CASE index >= NReadable
      <4>1. Ended' = Ended \cup {l}
        BY <2>3, <2>5, <3>1, <3>3 DEF Ended
      <4>2. Cardinality(Ended \cup {l}) = Cardinality(Ended) + 1
        BY <2>3, <3>1, FS_AddElement
      <4>3. QED
        BY <2>1, <2>3, <3>3, <4>1, <4>2 DEF Indexes
    <3>4. QED
      BY <2>3, <3>2, <3>3
  <2>9. QED
    BY <2>1, <2>3, <2>6, <2>7, <2>8 DEF Indexes
<1>2. ASSUME UNCHANGED <<index, presentEventIndex>> PROVE Indexes'
  BY <1>2, IndexesStay
<1>3. (\E o \in pending[l] : DoNextEvent(l, o)) \/ UNCHANGED <<index, presentEventIndex>>
  BY DEF LaneStep, EventStep, ProductStep, SourceReads, SourceEnds, BeginProcess, AskForProduct, AskFor,
         EndProcess, RunOut, RunWait, SleepDone, RunReady, OperationDone, RunFinal, RunHandle, DeleteTask
<1>4. QED
  BY <1>1, <1>2, <1>3

\* An event with an index that is not output yet is the one its lane has.
LEMMA BeforeIsPresent ==
  ASSUME NEW l, LaneInv(l), NEW e \in Events, Before(l, e)
  PROVE  e = presentEventIndex[l]
<1>1. CASE Read(e) \in pending[l] \cup external[l]
  <2>1. Read(e) \in Waiting(l)
    BY <1>1, Parts DEF Waiting
  <2>2. QED
    BY <2>1, NothingOfAnEvent
<1>2. CASE Out(e) \in pending[l] \cup Held(l)
  <2>1. NextTask(e) \in Held(l)
    BY <1>2, Chain, Parts DEF LaneInv, Live, Held
  <2>2. NextTask(e) \in Waiting(l) /\ NextTask(e) # Start
    BY <2>1, Parts DEF Waiting
  <2>3. QED
    BY <2>2, Parts DEF LaneInv, OneTurn
<1>3. QED
  BY <1>1, <1>2 DEF Before

\* The deletion of an object takes no readable event beyond its output.
LEMMA DeletedBefore ==
  ASSUME NEW l \in Lanes, Types, LaneInv(l), NEW o, NEW run, Deleted(l, o, run),
         o[1] \notin {"read", "out"} \/ o \in active[l] \/ o[2] >= NReadable,
         NEW e \in Events, e < NReadable
  PROVE  Before(l, e)' <=> Before(l, e)
<1>1. pending'[l] \cup Held(l)' = (pending[l] \cup Held(l)) \ {o} /\ Held(l)' \subseteq Held(l)
  BY DeletedTree DEF LaneInv
<1>2. external'[l] = external[l] \ {o}
  BY DEF Deleted, LaneInv, Apart, Remove, Types
<1>3. o \in active[l] => o \notin pending[l] \cup external[l] \cup Held(l)
  BY DEF LaneInv, Apart
<1>4. ~(e >= NReadable)
  BY LaneAssumption DEF NReadable, Events
<1>5. (o = Read(e) \/ o = Out(e)) => o \in active[l]
  BY <1>4, Parts
<1>6. Read(e) \notin Held(l)
  BY Parts DEF LaneInv, Kinds
<1>7. (Read(e) \in pending'[l] \cup Held(l)' \/ Read(e) \in external'[l])
        <=> (Read(e) \in pending[l] \cup Held(l) \/ Read(e) \in external[l])
  BY <1>1, <1>2, <1>3, <1>5
<1>8. Out(e) \in pending'[l] \cup Held(l)' <=> Out(e) \in pending[l] \cup Held(l)
  BY <1>1, <1>3, <1>5
<1>9. QED
  BY <1>1, <1>6, <1>7, <1>8 DEF Before

\* Every step but the ones that take an index and that output an event.
LEMMA BeforeStays ==
  ASSUME NEW l \in Lanes, Types, LaneInv(l), EventStep(l) \/ ProductStep(l)
           \/ (\E o \in external[l] : OperationDone(l, o)) \/ RunFinal(l) \/ RunHandle(l)
           \/ (\E o \in active[l] : DeleteTask(l, o)),
         \A e \in Events : ~RunOut(l, e),
         NEW d \in Events, d < NReadable
  PROVE  Before(l, d)' <=> Before(l, d)
<1>1. ASSUME NEW e \in Events, SourceReads(l, e) PROVE Before(l, d)' <=> Before(l, d)
  <2>1. /\ pending'[l] = pending[l] \cup {Read(e)} /\ external'[l] = external[l] \ {Read(e)}
        /\ UNCHANGED holds /\ Read(e) \in external[l]
    BY <1>1 DEF SourceReads, Add, Remove, Types
  <2>2. pending'[l] \cup external'[l] = pending[l] \cup external[l]
    BY <2>1
  <2>3. Held(l)' = Held(l)
    BY <2>1 DEF Held
  <2>4. Out(d) # Read(e)
    BY Parts
  <2>5. QED
    BY <2>1, <2>2, <2>3, <2>4 DEF Before
<1>2. ASSUME NEW e \in Events, SourceEnds(l, e) PROVE Before(l, d)' <=> Before(l, d)
  <2>1. Deleted(l, Read(e), {}) /\ e >= InSource /\ Read(e)[2] = e
    BY <1>2, DeletingSteps, Parts DEF SourceEnds
  <2>2. e >= NReadable
    BY <2>1, LaneAssumption DEF NReadable, Events
  <2>3. QED
    BY <2>1, <2>2, DeletedBefore
<1>3. ASSUME NEW e \in Events, BeginProcess(l, e) PROVE Before(l, d)' <=> Before(l, d)
  <2>1. /\ pending'[l] = pending[l] \ {Read(e)} /\ Read(e) \in pending[l] /\ UNCHANGED external
        /\ holds'[l] = holds[l] \cup {<<NextTask(e), Final>>, <<Out(e), NextTask(e)>>, <<Read(e), Out(e)>>}
    BY <1>3 DEF BeginProcess, Add, Remove, Types
  <2>2. /\ Out(e) \in Held(l)'
        /\ \A x : x \in Held(l)' <=> x \in Held(l) \/ x \in {Final, NextTask(e), Out(e)}
    <3>1. \A a, b : <<a, b>> \in holds'[l] => b \in Held(l)'
      BY DEF Held, Targets
    <3>2. {Final, NextTask(e), Out(e)} \subseteq Held(l)'
      BY <2>1, <3>1
    <3>3. Held(l) \subseteq Held(l)'
      BY <2>1 DEF Held, Targets
    <3>4. Held(l)' \subseteq Held(l) \cup {Final, NextTask(e), Out(e)}
      BY <2>1 DEF Held, Targets
    <3>5. QED
      BY <3>2, <3>3, <3>4
  <2>3. CASE d = e
    BY <2>1, <2>2, <2>3 DEF Before
  <2>4. CASE d # e
    <3>1. Out(d) \notin {Final, NextTask(e), Out(e), Read(e)} /\ Read(d) # Read(e)
      BY <2>4, Parts
    <3>2. QED
      BY <2>1, <2>2, <3>1 DEF Before
  <2>5. QED
    BY <2>3, <2>4
<1>4. ASSUME NEW e \in Events, AskForProduct(l, e) PROVE Before(l, d)' <=> Before(l, d)
  <2> DEFINE p == asked[l] + 1
  <2>1. /\ <<Read(e), Out(e)>> \in holds[l] /\ UNCHANGED pending
        /\ external' = Add(external, l, {Fetch(e, p)})
        /\ holds' = Add(holds, l, {<<Fetch(e, p), First(e, p)>>}
                      \cup (IF UseWaiter THEN {<<First(e, p), AfterWait(e, p)>>} ELSE {})
                      \cup (IF UsesProductReady THEN {<<AfterWait(e, p), Out(e)>>} ELSE {}))
    BY <1>4 DEF AskForProduct, AskFor, First, AfterWait
  <2>2. external'[l] = external[l] \cup {Fetch(e, p)}
    BY <2>1 DEF Add, Types
  <2>3. First(e, p) \in {Out(e), WaitTask(e, p), Ready(e, p)}
        /\ AfterWait(e, p) \in {Out(e), Ready(e, p)}
    BY DEF First, AfterWait
  <2>4. Held(l)' \subseteq Held(l) \cup {Out(e), WaitTask(e, p), Ready(e, p)}
    BY <2>1, <2>3 DEF Add, Types, Held, Targets
  <2>5. Held(l) \subseteq Held(l)' /\ Out(e) \in Held(l)
    BY <2>1 DEF Add, Types, Held, Targets
  <2>6. Out(d) \notin {WaitTask(e, p), Ready(e, p)} /\ Read(d) # Fetch(e, p)
    BY Parts
  <2>7. QED
    BY <2>1, <2>2, <2>4, <2>5, <2>6 DEF Before
<1>5. ASSUME NEW e \in Events, EndProcess(l, e) PROVE Before(l, d)' <=> Before(l, d)
  <2>1. /\ Local(e) \in holds[l] /\ UNCHANGED external
        /\ holds'[l] = holds[l] \ {Local(e)}
        /\ pending'[l] = pending[l] \cup (Targets({Local(e)}) \ Targets(holds[l] \ {Local(e)}))
    BY <1>5 DEF EndProcess, DropHolders, Remove, Types, Local
  <2>2. Targets({Local(e)}) = {Out(e)}
    BY DEF Targets, Local
  <2>3. Held(l)' = Targets(holds[l] \ {Local(e)})
    BY <2>1 DEF Held
  <2>4. Held(l)' \subseteq Held(l) /\ Held(l) \subseteq Held(l)' \cup {Out(e)} /\ Out(e) \in Held(l)
    BY <2>1, <2>3 DEF Held, Targets, Local
  <2>5. Out(d) \in pending'[l] \cup Held(l)' <=> Out(d) \in pending[l] \cup Held(l)
    BY <2>1, <2>2, <2>3, <2>4
  <2>6. Read(d) # Out(e)
    BY Parts
  <2>7. QED
    BY <2>1, <2>2, <2>5, <2>6 DEF Before
<1>6. ASSUME NEW e \in Events, NEW p \in Products, RunWait(l, e, p) \/ RunReady(l, e, p)
      PROVE  Before(l, d)' <=> Before(l, d)
  <2>1. PICK o, op : Copied(l, o, op) /\ o[1] \in {"wait", "ready"} /\ op[1] \in {"sleep", "serialize"}
    BY <1>6, CopyingSteps, Parts
  <2>2. Held(l)' = Held(l)
    BY <2>1, CopiedTree DEF LaneInv
  <2>3. /\ \A x : x[1] \in {"read", "out"} => (x \in pending'[l] <=> x \in pending[l])
        /\ \A x : x[1] \in {"read", "out"} => (x \in external'[l] <=> x \in external[l])
    BY <2>1 DEF Copied, RunWithCopy, Add, Remove, Types
  <2>4. QED
    BY <2>2, <2>3, Parts DEF Before
<1>7. ASSUME NEW e \in Events, NEW p \in Products, SleepDone(l, e, p)
      PROVE  Before(l, d)' <=> Before(l, d)
  BY <1>7, DeletingSteps, DeletedBefore, Parts
<1>8. ASSUME NEW o \in external[l], OperationDone(l, o) PROVE Before(l, d)' <=> Before(l, d)
  BY <1>8, DeletingSteps, DeletedBefore
<1>9. ASSUME NEW o \in active[l], DeleteTask(l, o) PROVE Before(l, d)' <=> Before(l, d)
  BY <1>9, DeletingSteps, DeletedBefore
<1>10. CASE RunFinal(l) \/ RunHandle(l)
  <2>1. UNCHANGED <<holds, external>>
        /\ \A x : x \notin {Final, Handle} => (x \in pending'[l] <=> x \in pending[l])
    BY <1>10 DEF RunFinal, RunHandle, Remove, Types
  <2>2. Held(l)' = Held(l)
    BY <2>1 DEF Held
  <2>3. Read(d) \notin {Final, Handle} /\ Out(d) \notin {Final, Handle}
    BY Parts
  <2>4. QED
    BY <2>1, <2>2, <2>3 DEF Before
<1>11. QED
  BY <1>1, <1>2, <1>3, <1>4, <1>5, <1>6, <1>7, <1>8, <1>9, <1>10 DEF EventStep, ProductStep

\* A lane outputs the event it has, and after that it is output.
LEMMA RunOutOutputs ==
  ASSUME NEW l \in Lanes, Types, \A k \in Lanes : LaneInv(k), Indexes, Outputs, NEW e \in Events,
         RunOut(l, e), OnlyLane(l)
  PROVE  Outputs'
<1>1. /\ Out(e) \in pending[l] /\ Out(e) \in Live(l)
      /\ outputs' = [outputs EXCEPT ![presentEventIndex[l]] = @ + 1] /\ UNCHANGED index
  BY DEF RunOut, RunWithCopy, Live
<1>2. Before(l, e) /\ e = presentEventIndex[l]
  BY <1>1, BeforeIsPresent DEF Before
<1>3. NextTask(e) \in Held(l) /\ NextTask(e) \in Waiting(l)
  BY <1>1, Chain, Parts DEF LaneInv, Waiting
<1>4. e < NReadable /\ e < index
  BY <1>2, <1>3, Parts DEF LaneInv, OneTurn, Indexes
<1>5. Copied(l, Out(e), Output(e))
  BY CopyingSteps
<1>6. /\ Held(l)' = Held(l) /\ pending'[l] = pending[l] \ {Out(e)}
      /\ external'[l] = external[l] \cup {Output(e)}
  BY <1>5, CopiedTree DEF LaneInv, RunOut, Add, Remove, Types
<1>7. ~Before(l, e)'
  <2>1. Out(e) \notin Held(l)
    BY <1>1 DEF LaneInv, Apart
  <2>2. Read(e) \notin Waiting(l)
    BY <1>3, Parts DEF LaneInv, OneTurn
  <2>3. Read(e) \notin pending[l] \cup external[l]
    BY <2>2, Parts DEF Waiting
  <2>4. Read(e) # Output(e)
    BY Parts
  <2>5. QED
    BY <1>6, <2>1, <2>3, <2>4 DEF Before
<1>8. \A d \in Events \ {e} : Before(l, d)' <=> Before(l, d)
  <2>1. \A d \in Events \ {e} : Out(d) # Out(e) /\ Read(d) # Output(e) /\ Read(d) # Out(e)
    BY Parts
  <2>2. QED
    BY <1>6, <2>1 DEF Before
<1>9. \A k \in Lanes \ {l} : \A d \in Events : Before(k, d)' <=> Before(k, d)
  BY OthersBefore
<1>10. \A k \in Lanes \ {l} : ~Before(k, e)
  <2> SUFFICES ASSUME NEW k \in Lanes \ {l}, Before(k, e) PROVE FALSE
    OBVIOUS
  <2>1. e = presentEventIndex[k]
    BY BeforeIsPresent
  <2>2. e = -1
    BY <1>2, <2>1 DEF Indexes
  <2>3. QED
    BY <2>2, LaneAssumption DEF Events
<1>11. outputs[e] = 0
  BY <1>2 DEF Outputs
<1>12. outputs'[e] = 1 /\ \A d \in Events \ {e} : outputs'[d] = outputs[d]
  BY <1>1, <1>2, <1>11 DEF Types
<1>13. \A k \in Lanes : ~Before(k, e)'
  BY <1>7, <1>9, <1>10
<1>14. \A d \in Events \ {e} : (\A k \in Lanes : ~Before(k, d)') <=> (\A k \in Lanes : ~Before(k, d))
  BY <1>8, <1>9
<1>15. QED
  BY <1>1, <1>4, <1>12, <1>13, <1>14 DEF Outputs

\* The event whose index a lane has just taken is not output yet.
LEMMA NextEventOutputs ==
  ASSUME NEW l \in Lanes, Types, LaneInv(l), Indexes, Outputs, NEW o \in pending[l],
         DoNextEvent(l, o), OnlyLane(l)
  PROVE  Outputs'
<1>1. /\ o[1] \in {"start", "next"} /\ index' = index + 1 /\ UNCHANGED outputs
      /\ pending'[l] = pending[l] \ {o}
  BY DEF DoNextEvent, TakeIndex, Remove, Types
<1>2. Final \in Held(l) /\ presentEventIndex[l] \in Int /\ presentEventIndex[l] < NReadable
  BY <1>1, NextEventTask
<1>3. index \in Events /\ NReadable \in Nat /\ NReadable <= NEvents
  BY <1>2, RoomForIndex
<1> PICK i \in Events : i = index
  BY <1>3
<1>4. \A d \in Events : Out(d) # o /\ Read(d) # o
  BY <1>1, Parts
<1>5. Held(l)' = Held(l)
  <2>1. holds' = holds \/ holds'[l] = holds[l] \cup {<<Read(i), Final>>}
    BY DEF DoNextEvent, TakeIndex, Add, Types
  <2>2. QED
    BY <1>2, <2>1 DEF Held, Targets
<1>6. \A d \in Events : Before(l, d)' <=> Before(l, d) \/ Read(d) \in external'[l]
  <2>1. external[l] \subseteq external'[l]
    BY DEF DoNextEvent, TakeIndex, Add, Types
  <2>2. QED
    BY <1>1, <1>4, <1>5, <2>1 DEF Before
<1>7. \A d \in Events \ {i} : Before(l, d)' <=> Before(l, d)
  <2>1. external'[l] \subseteq external[l] \cup {Read(i)}
    BY DEF DoNextEvent, TakeIndex, Add, Types
  <2>2. \A d \in Events \ {i} : Read(d) # Read(i)
    BY Parts
  <2>3. QED
    BY <1>6, <2>1, <2>2 DEF Before
<1>8. i < NReadable => Before(l, i)'
  <2>1. NEvents \in Nat /\ i \in Int
    BY <1>3, LaneAssumption DEF Events
  <2>2. i < NEvents => Read(i) \in external'[l]
    BY <2>1 DEF DoNextEvent, TakeIndex, Add, Types
  <2>3. QED
    BY <1>3, <1>6, <2>1, <2>2
<1>9. \A k \in Lanes \ {l} : \A d \in Events : Before(k, d)' <=> Before(k, d)
  BY OthersBefore
<1>10. \A d \in Events \ {i} :
         (\A k \in Lanes : ~Before(k, d)') <=> (\A k \in Lanes : ~Before(k, d))
  BY <1>7, <1>9
<1>11. i \in Int /\ \A d \in Events : d \in Int
  BY <1>3, LaneAssumption DEF Events
<1>12. outputs[i] = 0
  BY <1>3, <1>11 DEF Outputs
<1>13. \A d \in Events \ {i} : d < i + 1 <=> d < i
  BY <1>11
<1>14. \A d \in Events : outputs'[d] = IF d < index' /\ d < NReadable /\ \A k \in Lanes : ~Before(k, d)'
                                       THEN 1 ELSE 0
  <2> SUFFICES ASSUME NEW d \in Events
               PROVE  outputs'[d] = IF d < index' /\ d < NReadable /\ \A k \in Lanes : ~Before(k, d)'
                                    THEN 1 ELSE 0
    OBVIOUS
  <2>1. CASE d = i
    BY <1>1, <1>8, <1>12, <2>1
  <2>2. CASE d # i
    BY <1>1, <1>10, <1>13, <2>2 DEF Outputs
  <2>3. QED
    BY <2>1, <2>2
<1>15. QED
  BY <1>14 DEF Outputs

LEMMA OutputsKeep ==
  ASSUME NEW l \in Lanes, Types, \A k \in Lanes : LaneInv(k), Indexes, Outputs, LaneStep(l)
  PROVE  Outputs'
<1>1. OnlyLane(l)
  BY OneLane
<1>2. CASE \E o \in pending[l] : DoNextEvent(l, o)
  BY <1>1, <1>2, NextEventOutputs
<1>3. CASE \E e \in Events : RunOut(l, e)
  BY <1>1, <1>3, RunOutOutputs
<1>4. CASE /\ ~\E o \in pending[l] : DoNextEvent(l, o)
           /\ \A e \in Events : ~RunOut(l, e)
  <2>1. UNCHANGED <<index, outputs>>
    BY <1>4 DEF LaneStep, EventStep, ProductStep, SourceReads, SourceEnds, BeginProcess, AskForProduct,
                AskFor, EndProcess, RunWait, SleepDone, RunReady, OperationDone, RunFinal, RunHandle,
                DeleteTask
  <2>2. \A d \in Events : d < NReadable => (Before(l, d)' <=> Before(l, d))
    BY <1>4, BeforeStays DEF LaneStep
  <2>3. \A k \in Lanes \ {l} : \A d \in Events : Before(k, d)' <=> Before(k, d)
    BY <1>1, OthersBefore
  <2>4. \A k \in Lanes : \A d \in Events : d < NReadable => (Before(k, d)' <=> Before(k, d))
    BY <2>2, <2>3
  <2>5. QED
    BY <2>1, <2>4, OutputsStay
<1>5. QED
  BY <1>2, <1>3, <1>4

----------------------------------------------------------------------------
LEMMA InitHolds == Init => IInv
<1> SUFFICES ASSUME Init PROVE IInv
  OBVIOUS
<1>1. NLanes \in Nat \ {0} /\ NEvents \in Nat /\ NProducts \in Nat /\ InSource \in Nat
  BY LaneAssumption
<1>2. Types
  BY <1>1 DEF Init, Types
<1>3. \A l \in Lanes : /\ pending[l] = {} /\ active[l] = {} /\ external[l] = {} /\ holds[l] = {}
                       /\ presentEventIndex[l] = -1 /\ asked[l] = 0 /\ deferred[l] = FALSE
                       /\ finals[l] = 0
  BY DEF Init
<1>4. \A l \in Lanes : Live(l) = {} /\ Held(l) = {} /\ Waiting(l) = {}
  BY <1>3 DEF Live, Held, Targets, Waiting
<1>5. \A l \in Lanes : LaneInv(l)
  <2> SUFFICES ASSUME NEW l \in Lanes PROVE LaneInv(l)
    OBVIOUS
  <2>1. Kinds(l) /\ Apart(l) /\ Tree(l)
    BY <1>3, <1>4 DEF Kinds, Apart, Tree
  <2>2. ~(l < main) /\ main <= l /\ ~(NLanes + l < main)
    BY <1>1 DEF Init, Lanes
  <2>3. OneTurn(l) /\ Past(l) /\ Asked(l)
    BY <1>1, <1>3, <1>4, <2>2, Parts DEF OneTurn, Past, Asked, Live
  <2>4. Ends(l)
    BY <1>3, <1>4, <2>2 DEF Ends
  <2>5. QED
    BY <2>1, <2>3, <2>4 DEF LaneInv
<1>6. NReadable \in Nat
  BY <1>1 DEF NReadable
<1>7. Indexes
  <2>1. Ended = {}
    BY <1>3, <1>6 DEF Ended
  <2>2. Cardinality(Ended) = 0
    BY <2>1, FS_EmptySet
  <2>3. index = 0
    BY DEF Init
  <2>4. QED
    BY <1>3, <1>6, <2>2, <2>3 DEF Indexes
<1>8. Outputs
  BY <1>1 DEF Init, Outputs, Events
<1>9. QED
  BY <1>2, <1>5, <1>7, <1>8 DEF IInv

LEMMA NextKeeps == IInv /\ [Next]_vars => IInv'
<1> SUFFICES ASSUME IInv, [Next]_vars PROVE IInv'
  OBVIOUS
<1> USE DEF IInv
<1>1. CASE UNCHANGED vars
  <2>1. Types'
    BY <1>1 DEF vars, Types
  <2>2. \A l \in Lanes : LaneInv(l)'
    <3> SUFFICES ASSUME NEW l \in Lanes PROVE LaneInv(l)'
      OBVIOUS
    <3>1. OnlyLane(-1) /\ l # -1
      BY <1>1, LaneAssumption DEF vars, OnlyLane, Lanes
    <3>2. QED
      BY <3>1, OthersStay
  <2>3. Indexes'
    BY <1>1, IndexesStay DEF vars
  <2>4. Outputs'
    BY <1>1, OutputsStay DEF vars, Before, Held
  <2>5. QED
    BY <2>1, <2>2, <2>3, <2>4
<1>2. CASE Launch
  <2>1. Types'
    <3>1. main \in Lanes /\ main' \in 0..(2 * NLanes)
      BY <1>2, LaneAssumption DEF Launch, Types, Lanes
    <3>2. holds[main] \subseteq Objects \X Objects /\ pending[main] \subseteq Objects
      BY <3>1 DEF Types
    <3>3. /\ holds' \in [Lanes -> SUBSET (Objects \X Objects)] /\ pending' \in [Lanes -> SUBSET Objects]
      BY <1>2, <3>1, <3>2, ObjectsMade DEF Launch, Add, Types
    <3>4. QED
      BY <1>2, <3>1, <3>3 DEF Launch, Types
  <2>2. \A l \in Lanes : LaneInv(l)'
    BY <1>2, LaunchKeeps
  <2>3. Indexes'
    BY <1>2, IndexesStay DEF Launch
  <2>4. \A l \in Lanes, e \in Events : Before(l, e)' <=> Before(l, e)
    <3> SUFFICES ASSUME NEW l \in Lanes, NEW e \in Events PROVE Before(l, e)' <=> Before(l, e)
      OBVIOUS
    <3>1. pending'[l] = pending[l] \/ pending'[l] = pending[l] \cup {Start}
      BY <1>2 DEF Launch, Add, Types
    <3>2. holds'[l] = holds[l] \/ holds'[l] = holds[l] \cup {<<Start, Final>>}
      BY <1>2 DEF Launch, Add, Types
    <3>3. Held(l)' = Held(l) \/ Held(l)' = Held(l) \cup {Final}
      BY <3>2 DEF Held, Targets
    <3>4. UNCHANGED external
      BY <1>2 DEF Launch
    <3>5. Read(e) \notin {Start, Final} /\ Out(e) \notin {Start, Final}
      BY Parts
    <3>6. QED
      BY <3>1, <3>3, <3>4, <3>5 DEF Before
  <2>5. Outputs'
    BY <1>2, <2>4, OutputsStay DEF Launch
  <2>6. QED
    BY <2>1, <2>2, <2>3, <2>5
<1>3. CASE WaitReturns
  <2>1. Types'
    BY <1>3, LaneAssumption DEF WaitReturns, Types
  <2>2. \A l \in Lanes : LaneInv(l)'
    BY <1>3, WaitReturnsKeeps
  <2>3. Indexes' /\ Outputs'
    BY <1>3, IndexesStay, OutputsStay DEF WaitReturns, Before, Held
  <2>4. QED
    BY <2>1, <2>2, <2>3
<1>4. ASSUME NEW l \in Lanes, LaneStep(l) PROVE IInv'
  <2>1. Types'
    BY <1>4, LaneTypes
  <2>2. OnlyLane(l)
    BY <1>4, OneLane
  <2>3. LaneInv(l)'
    BY <1>4, LaneKeeps
  <2>4. \A k \in Lanes \ {l} : LaneInv(k)'
    BY <2>2, OthersStay
  <2>5. Indexes' /\ Outputs'
    BY <1>4, IndexesKeep, OutputsKeep
  <2>6. QED
    BY <2>1, <2>3, <2>4, <2>5
<1>5. QED
  BY <1>1, <1>2, <1>3, <1>4 DEF Next, Finished

LEMMA Invariant == Spec => []IInv
<1>1. QED
  BY InitHolds, NextKeeps, PTL DEF Spec

----------------------------------------------------------------------------
\* What follows of the invariant

\* The indexes, holders, tasks and counters of the lanes keep their types: no lane
\* takes an index beyond one for each event and each lane.
THEOREM TypeCorrect == Spec => []TypeOK
<1>1. IInv => TypeOK
  <2> SUFFICES ASSUME IInv PROVE TypeOK
    OBVIOUS
  <2>1. NLanes \in Nat \ {0} /\ NEvents \in Nat /\ InSource \in Nat
    BY LaneAssumption
  <2>2. NReadable \in Nat /\ NReadable <= NEvents
    BY <2>1 DEF NReadable
  <2>3. IsFiniteSet(Lanes) /\ Cardinality(Lanes) = NLanes
    BY <2>1, FS_Interval DEF Lanes
  <2>4. IsFiniteSet(Ended) /\ Cardinality(Ended) <= NLanes /\ Cardinality(Ended) \in Nat
    BY <2>3, FS_Subset, FS_CardinalityType DEF Ended
  <2>5. index \in 0..(NEvents + NLanes)
    BY <2>1, <2>2, <2>4 DEF IInv, Indexes
  <2>6. QED
    BY <2>5 DEF TypeOK, IInv, Types
<1>2. QED
  BY <1>1, Invariant, PTL

\* While anything of an event is alive, the lane's presentEventIndex_, its data
\* products and its serializers are those of that event.
THEOREM OneEvent == Spec => []OneEventPerLane
<1>1. IInv => OneEventPerLane
  <2> SUFFICES ASSUME IInv, NEW l \in Lanes, NEW o \in Live(l), o[1] \in ProductKinds \cup {"out", "output"}
               PROVE  o[2] = presentEventIndex[l]
    BY DEF OneEventPerLane
  <2>1. LaneInv(l)
    BY DEF IInv
  <2>2. NextTask(o[2]) \in Held(l)
    BY <2>1, Chain DEF LaneInv
  <2>3. NextTask(o[2]) \in Waiting(l) /\ NextTask(o[2]) # Start
    BY <2>2, Parts DEF Waiting
  <2>4. QED
    BY <2>1, <2>3, Parts DEF LaneInv, OneTurn
<1>2. QED
  BY <1>1, Invariant, PTL

\* outputAsync is called once every product of the event has been asked for,
\* retrieved, waited upon and made ready.
THEOREM ProductsFirst == Spec => []OutputAfterProducts
<1>1. IInv => OutputAfterProducts
  <2> SUFFICES ASSUME IInv, NEW l \in Lanes, NEW e \in Events,
                      Out(e) \in pending[l] \cup active[l] \/ Output(e) \in external[l]
               PROVE  /\ asked[l] = NProducts
                      /\ \A o \in Live(l) : o[1] \in ProductKinds => o[2] # e
    BY DEF OutputAfterProducts
  <2>1. LaneInv(l)
    BY DEF IInv
  <2>2. Out(e) \notin Held(l)
    BY <2>1 DEF LaneInv, Apart, Asked
  <2>3. \A o \in Live(l) : o[1] \in ProductKinds => o[2] # e
    BY <2>1, <2>2, Chain DEF LaneInv
  <2>4. Local(e) \notin holds[l]
    BY <2>2 DEF Local, Held, Targets
  <2>5. asked[l] = NProducts
    BY <2>1, <2>4 DEF LaneInv, Asked, Live
  <2>6. QED
    BY <2>3, <2>5
<1>2. QED
  BY <1>1, Invariant, PTL

\* When the wait for a lane's group has returned, nothing of the lane is left and
\* its final task ran once.
THEOREM WaitedFor == Spec => []WaitedMeansFinished
<1>1. IInv => WaitedMeansFinished
  <2> SUFFICES ASSUME IInv, NEW l \in Lanes, main > NLanes + l
               PROVE  Live(l) = {} /\ holds[l] = {} /\ finals[l] = 1
    BY DEF WaitedMeansFinished
  <2>1. LaneInv(l) /\ NLanes + l < main /\ l < main
    BY LaneAssumption DEF IInv, Types, Lanes
  <2>2. Live(l) = {} /\ finals[l] = 1
    BY <2>1 DEF LaneInv, Ends
  <2>3. holds[l] = {}
    BY <2>1, <2>2 DEF LaneInv, Tree
  <2>4. QED
    BY <2>2, <2>3
<1>2. QED
  BY <1>1, Invariant, PTL

\* At the end the index minus the lanes is the number of events of the source up to
\* the limit, and each of them was output exactly once.
THEOREM EachOnce == Spec => []EveryEventOnce
<1>1. IInv => EveryEventOnce
  <2> SUFFICES ASSUME IInv, main = 2 * NLanes
               PROVE  /\ index - NLanes = Cardinality(Readable)
                      /\ \A e \in Events : outputs[e] = IF e \in Readable THEN 1 ELSE 0
    BY DEF EveryEventOnce
  <2>1. NLanes \in Nat \ {0} /\ NEvents \in Nat /\ InSource \in Nat
    BY LaneAssumption
  <2>2. NReadable \in Nat /\ NReadable <= NEvents
    BY <2>1 DEF NReadable
  <2>3. Readable = 0..(NReadable - 1)
    BY <2>1 DEF Readable, Events, NReadable
  <2>4. Cardinality(Readable) = NReadable
    BY <2>2, <2>3, FS_Interval
  <2>5. \A l \in Lanes : LaneInv(l) /\ Live(l) = {} /\ l < main
    BY <2>1 DEF IInv, LaneInv, Ends, Lanes
  <2>6. Ended = Lanes
    <3>1. \A l \in Lanes : Waiting(l) = {}
      BY <2>5 DEF Waiting, Live, Held
    <3>2. QED
      BY <2>5, <3>1 DEF LaneInv, OneTurn, Ended
  <2>7. Cardinality(Ended) = NLanes
    BY <2>1, <2>6, FS_Interval DEF Lanes
  <2>8. index = NReadable + NLanes
    BY <2>1, <2>2, <2>7 DEF IInv, Indexes
  <2>9. \A l \in Lanes, e \in Events : ~Before(l, e)
    BY <2>5 DEF Before, Live, Held
  <2>10. \A e \in Events : e \in Readable <=> e < NReadable /\ e < index
    BY <2>1, <2>2, <2>3, <2>8 DEF Events
  <2>11. \A e \in Events : outputs[e] = IF e \in Readable THEN 1 ELSE 0
    BY <2>9, <2>10 DEF IInv, Outputs
  <2>12. QED
    BY <2>1, <2>2, <2>4, <2>8, <2>11
<1>2. QED
  BY <1>1, Invariant, PTL
=============================================================================
