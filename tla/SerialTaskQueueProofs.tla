----------------------- MODULE SerialTaskQueueProofs -----------------------
(***************************************************************************)
(* TLAPS proofs about SerialTaskQueue, for any sets of threads, tasks and  *)
(* groups: type correctness, one owner of the chosen flag, no leaked flag, *)
(* where tasks can be stranded, and the refinement of SerialExecutor; and  *)
(* about its destructor: when it skips the wait, nothing is left.          *)
(***************************************************************************)
EXTENDS SerialTaskQueueLifetime, SequenceTheorems, TLAPS

\* try_pop takes a task off the queue and moves the thread on.
LEMMA PopKeepsTypes ==
  ASSUME TypeOK, NEW th \in Threads, NEW from, NEW onMiss \in PC,
         TryPop(th, from, onMiss), HandHeld,
         from \notin {"picked", "execute"}, onMiss \notin {"picked", "execute"}
  PROVE  (TypeOK /\ HandHeld)'
<1>1. m_tasks # <<>> => Head(m_tasks) \in Tasks /\ Tail(m_tasks) \in Seq(Tasks)
  BY HeadTailProperties DEF TypeOK
<1>2. "picked" \in PC
  BY DEF PC
<1>3. QED
  BY <1>1, <1>2 DEF TryPop, TypeOK, HandHeld, Goto

\* Types, and what a thread holds where.
\* HandHeld is part of the induction because spawn() puts what the thread
\* holds into a group.
LEMMA TypeAndHand == Spec => [](TypeOK /\ HandHeld)
<1> USE QueueAssumption DEF QueueAssumption
<1>1. Init => TypeOK /\ HandHeld
  <2> SUFFICES ASSUME Init PROVE TypeOK /\ HandHeld
    OBVIOUS
  <2>1. m_tasks \in Seq(Tasks)
    BY EmptySeq DEF Init
  <2>2. m_taskChosen \in BOOLEAN
    BY DEF Init
  <2>3. pc \in [Threads -> PC]
    BY DEF Init, PC
  <2>4. hand \in [Threads -> Tasks \cup {NoTask}] /\ runner \in [Threads -> Groups \cup {NoGroup}]
    BY DEF Init
  <2>5. m_pauseCount \in 0..MaxPause /\ spawned \in SUBSET Tasks
    BY DEF Init
  <2>6. QED
    BY <2>1, <2>2, <2>3, <2>4, <2>5 DEF Init, TypeOK, HandHeld
<1>2. TypeOK /\ HandHeld /\ [Next]_vars => (TypeOK /\ HandHeld)'
  <2> SUFFICES ASSUME TypeOK, HandHeld, [Next]_vars PROVE (TypeOK /\ HandHeld)'
    OBVIOUS
  <2>1. ASSUME NEW th \in Threads, TryPop(th, "pop1", "clear1") PROVE (TypeOK /\ HandHeld)'
    BY <2>1, PopKeepsTypes DEF PC
  <2>2. ASSUME NEW th \in Threads, TryPop(th, "pop2", "clear2") PROVE (TypeOK /\ HandHeld)'
    BY <2>2, PopKeepsTypes DEF PC
  <2> USE DEF TypeOK, HandHeld, PC, Goto, ReturnNull
  <2>3. ASSUME NEW th \in Threads, ReadPauseCount(th) PROVE (TypeOK /\ HandHeld)'
    BY <2>3 DEF ReadPauseCount
  <2>4. ASSUME NEW th \in Threads, Claim(th, "cas1", "pop1") PROVE (TypeOK /\ HandHeld)'
    BY <2>4 DEF Claim
  <2>5. ASSUME NEW th \in Threads, FirstClear(th) PROVE (TypeOK /\ HandHeld)'
    BY <2>5 DEF FirstClear
  <2>6. ASSUME NEW th \in Threads, Recheck(th) PROVE (TypeOK /\ HandHeld)'
    BY <2>6 DEF Recheck
  <2>7. ASSUME NEW th \in Threads, Claim(th, "cas2", "pop2") PROVE (TypeOK /\ HandHeld)'
    BY <2>7 DEF Claim
  <2>8. ASSUME NEW th \in Threads, SecondClear(th) PROVE (TypeOK /\ HandHeld)'
    BY <2>8 DEF SecondClear
  <2>9. ASSUME NEW th \in Threads, Spawn(th) PROVE (TypeOK /\ HandHeld)'
    BY <2>9 DEF Spawn
  <2>10. ASSUME NEW th \in Threads, Continue(th) PROVE (TypeOK /\ HandHeld)'
    BY <2>10 DEF Continue
  <2>11. ASSUME NEW th \in Threads, Execute(th) PROVE (TypeOK /\ HandHeld)'
    BY <2>11 DEF Execute
  <2>12. ASSUME NEW th \in Threads, FinishedTask(th) PROVE (TypeOK /\ HandHeld)'
    BY <2>12 DEF FinishedTask
  <2>13. ASSUME NEW th \in Threads, NEW t \in Tasks, Push(th, t) PROVE (TypeOK /\ HandHeld)'
    BY <2>13 DEF Push
  <2>14. ASSUME NEW th \in Threads, NEW t \in Tasks, StartRunner(th, t) PROVE (TypeOK /\ HandHeld)'
    BY <2>14 DEF StartRunner
  <2>15. ASSUME NEW th \in Threads, Pause(th) PROVE (TypeOK /\ HandHeld)'
    BY <2>15 DEF Pause
  <2>16. ASSUME NEW th \in Threads, Resume(th) PROVE (TypeOK /\ HandHeld)'
    BY <2>16 DEF Resume
  <2>17. CASE UNCHANGED vars
    BY <2>17 DEF vars
  <2>18. QED
    BY <2>3, <2>4, <2>1, <2>5, <2>6, <2>7, <2>2, <2>8, <2>9, <2>10, <2>11,
       <2>12, <2>13, <2>14, <2>15, <2>16, <2>17 DEF Next, Inside
<1>3. QED
  BY <1>1, <1>2, PTL DEF Spec

\* Every variable keeps its type (the data members of SerialTaskQueue.h and
\* the locals of its functions), whatever the interleaving.
THEOREM TypeCorrect == Spec => []TypeOK
BY TypeAndHand, PTL

----------------------------------------------------------------------------
\* The chosen flag is a lock: a step of one thread cannot make a second owner,
\* nor leave the flag set with no owner.  The two are proved together: that a
\* flag that is not set has no owner makes the compare_exchange safe, and that
\* only the owner clears it makes FlagHasOwner inductive.
LEMMA OwnerInduction ==
  ASSUME TypeOK, HandHeld, OneOwner, FlagHasOwner, [Next]_vars
  PROVE  (OneOwner /\ FlagHasOwner)'
<1> USE DEF TypeOK, HandHeld, OneOwner, FlagHasOwner, Owns, Goto, ReturnNull, PC
<1>1. ASSUME NEW th \in Threads, ReadPauseCount(th) PROVE (OneOwner /\ FlagHasOwner)'
  BY <1>1 DEF ReadPauseCount
<1>2. ASSUME NEW th \in Threads, Claim(th, "cas1", "pop1") PROVE (OneOwner /\ FlagHasOwner)'
  BY <1>2 DEF Claim
<1>3. ASSUME NEW th \in Threads, TryPop(th, "pop1", "clear1") PROVE (OneOwner /\ FlagHasOwner)'
  BY <1>3 DEF TryPop
<1>4. ASSUME NEW th \in Threads, FirstClear(th) PROVE (OneOwner /\ FlagHasOwner)'
  BY <1>4 DEF FirstClear
<1>5. ASSUME NEW th \in Threads, Recheck(th) PROVE (OneOwner /\ FlagHasOwner)'
  BY <1>5 DEF Recheck
<1>6. ASSUME NEW th \in Threads, Claim(th, "cas2", "pop2") PROVE (OneOwner /\ FlagHasOwner)'
  BY <1>6 DEF Claim
<1>7. ASSUME NEW th \in Threads, TryPop(th, "pop2", "clear2") PROVE (OneOwner /\ FlagHasOwner)'
  BY <1>7 DEF TryPop
<1>8. ASSUME NEW th \in Threads, SecondClear(th) PROVE (OneOwner /\ FlagHasOwner)'
  BY <1>8 DEF SecondClear
<1>9. ASSUME NEW th \in Threads, Spawn(th) PROVE (OneOwner /\ FlagHasOwner)'
  BY <1>9 DEF Spawn
<1>10. ASSUME NEW th \in Threads, Continue(th) PROVE (OneOwner /\ FlagHasOwner)'
  BY <1>10 DEF Continue
<1>11. ASSUME NEW th \in Threads, Execute(th) PROVE (OneOwner /\ FlagHasOwner)'
  BY <1>11 DEF Execute
<1>12. ASSUME NEW th \in Threads, FinishedTask(th) PROVE (OneOwner /\ FlagHasOwner)'
  BY <1>12 DEF FinishedTask
<1>13. ASSUME NEW th \in Threads, NEW t \in Tasks, Push(th, t) PROVE (OneOwner /\ FlagHasOwner)'
  BY <1>13 DEF Push
<1>14. ASSUME NEW th \in Threads, NEW t \in Tasks, StartRunner(th, t) PROVE (OneOwner /\ FlagHasOwner)'
  BY <1>14 DEF StartRunner
<1>15. ASSUME NEW th \in Threads, Pause(th) PROVE (OneOwner /\ FlagHasOwner)'
  BY <1>15 DEF Pause
<1>16. ASSUME NEW th \in Threads, Resume(th) PROVE (OneOwner /\ FlagHasOwner)'
  BY <1>16 DEF Resume
<1>17. CASE UNCHANGED vars
  BY <1>17 DEF vars
<1>18. QED
  BY <1>1, <1>2, <1>3, <1>4, <1>5, <1>6, <1>7, <1>8, <1>9, <1>10, <1>11, <1>12, <1>13, <1>14, <1>15, <1>16, <1>17 DEF Next, Inside

\* The inductive invariant the following theorems rest on.
QueueInv == TypeOK /\ HandHeld /\ OneOwner /\ FlagHasOwner

\* The four parts hold together in every reachable state: the first two by
\* TypeAndHand, the last two by OwnerInduction on top of them.
LEMMA InductiveInvariant == Spec => []QueueInv
<1>1. Init => OneOwner /\ FlagHasOwner
  BY DEF Init, OneOwner, FlagHasOwner, Owns
<1>2. (TypeOK /\ HandHeld) /\ (OneOwner /\ FlagHasOwner) /\ [Next]_vars
        => (OneOwner /\ FlagHasOwner)'
  BY OwnerInduction
<1>3. QED
  BY <1>1, <1>2, TypeAndHand, PTL DEF Spec, QueueInv

\* At most one thread is between a successful compare_exchange and the
\* store(false) that ends it, or one chosen task waits in its group, never
\* both: pickNextTask, spawn and finishedTask never let two tasks in.
THEOREM MutualExclusion == Spec => []OneOwner
BY InductiveInvariant, PTL DEF QueueInv

\* m_taskChosen is never left true with nobody to reset it.
THEOREM FlagNeverLeaks == Spec => []FlagHasOwner
BY InductiveInvariant, PTL DEF QueueInv

\* pickNextTask strands a task at one place only, the store(false) after its
\* second try_pop missed: every other step leaves either no task waiting, or
\* the queue paused, owned, or with a thread on its way to claim it.
THEOREM StrandingIsLocal == Spec => OnlySecondMissStrands
<1>1. QueueInv /\ [Next]_vars
        => [~Stranded /\ Stranded' => \E th \in Threads : SecondClear(th)]_vars
  <2> SUFFICES ASSUME QueueInv, Next, ~Stranded, Stranded'
               PROVE  \E th \in Threads : SecondClear(th)
    OBVIOUS
  <2> USE DEF QueueInv, TypeOK, OneOwner, Owns, Stranded, Goto, ReturnNull
  <2>1. ASSUME NEW th \in Threads, ReadPauseCount(th) PROVE FALSE
    BY <2>1 DEF ReadPauseCount
  <2>2. ASSUME NEW th \in Threads, Claim(th, "cas1", "pop1") PROVE FALSE
    BY <2>2 DEF Claim
  <2>3. ASSUME NEW th \in Threads, TryPop(th, "pop1", "clear1") PROVE FALSE
    BY <2>3 DEF TryPop
  <2>4. ASSUME NEW th \in Threads, FirstClear(th) PROVE FALSE
    BY <2>4 DEF FirstClear
  <2>5. ASSUME NEW th \in Threads, Recheck(th) PROVE FALSE
    BY <2>5 DEF Recheck
  <2>6. ASSUME NEW th \in Threads, Claim(th, "cas2", "pop2") PROVE FALSE
    BY <2>6 DEF Claim
  <2>7. ASSUME NEW th \in Threads, TryPop(th, "pop2", "clear2") PROVE FALSE
    BY <2>7 DEF TryPop
  <2>8. ASSUME NEW th \in Threads, Spawn(th) PROVE FALSE
    BY <2>8 DEF Spawn
  <2>9. ASSUME NEW th \in Threads, Continue(th) PROVE FALSE
    BY <2>9 DEF Continue
  <2>10. ASSUME NEW th \in Threads, Execute(th) PROVE FALSE
    BY <2>10 DEF Execute
  <2>11. ASSUME NEW th \in Threads, FinishedTask(th) PROVE FALSE
    BY <2>11 DEF FinishedTask
  <2>12. ASSUME NEW th \in Threads, NEW t \in Tasks, Push(th, t) PROVE FALSE
    BY <2>12 DEF Push
  <2>13. ASSUME NEW th \in Threads, NEW t \in Tasks, StartRunner(th, t) PROVE FALSE
    BY <2>13 DEF StartRunner
  <2>14. ASSUME NEW th \in Threads, Pause(th) PROVE FALSE
    BY <2>14 DEF Pause
  <2>15. ASSUME NEW th \in Threads, Resume(th) PROVE FALSE
    BY <2>15 DEF Resume
  <2>16. QED
    BY <2>1, <2>2, <2>3, <2>4, <2>5, <2>6, <2>7, <2>8, <2>9, <2>10, <2>11, <2>12, <2>13, <2>14, <2>15 DEF Next, Inside
<1>2. QED
  BY <1>1, InductiveInvariant, PTL DEF Spec, OnlySecondMissStrands

----------------------------------------------------------------------------
\* Refinement of SerialExecutor.

\* A step that neither picks, starts nor ends a task leaves the abstract
\* chosen and executing tasks alone.
LEMMA QuietStep ==
  ASSUME TypeOK, NEW th \in Threads, NEW to, pc[th] \notin {"picked", "execute"},
         to \notin {"picked", "execute"}, pc' = [pc EXCEPT ![th] = to],
         hand' = hand, spawned' = spawned
  PROVE  Chosen' = Chosen /\ Executing' = Executing
<1>1. \A x \in Threads : /\ pc'[x] = "picked" <=> pc[x] = "picked"
                         /\ pc'[x] = "execute" <=> pc[x] = "execute"
  BY DEF TypeOK
<1>2. QED
  BY <1>1 DEF Chosen, Executing

\* The owner is the only thread that can hold a chosen or executing task.
LEMMA OwnerHoldsAll ==
  ASSUME QueueInv, NEW th \in Threads, Owns(th)
  PROVE  /\ Chosen = IF pc[th] = "picked" THEN {hand[th]} ELSE {}
         /\ Executing = IF pc[th] = "execute" THEN {hand[th]} ELSE {}
<1> USE DEF QueueInv, OneOwner
<1>1. spawned = {}
  OBVIOUS
<1>2. \A x \in Threads : pc[x] \in {"picked", "execute"} => x = th
  BY DEF Owns
<1>3. {x \in Threads : pc[x] = "picked"} = IF pc[th] = "picked" THEN {th} ELSE {}
  BY <1>2
<1>4. {x \in Threads : pc[x] = "execute"} = IF pc[th] = "execute" THEN {th} ELSE {}
  BY <1>2
<1>5. QED
  BY <1>1, <1>3, <1>4 DEF Chosen, Executing

\* While a chosen task waits in its group no thread owns the queue.
LEMMA SpawnedIsAll ==
  ASSUME QueueInv, NEW t \in spawned
  PROVE  Chosen = {t} /\ Executing = {} /\ spawned = {t}
<1> USE DEF QueueInv, OneOwner
<1>1. spawned = {t}
  OBVIOUS
<1>2. \A x \in Threads : pc[x] \notin {"picked", "execute"}
  BY DEF Owns
<1>3. QED
  BY <1>1, <1>2 DEF Chosen, Executing

\* SetToSeq lists a set of at most one task, which is all Chosen ever is.
LEMMA SetToSeqFacts ==
  /\ SetToSeq({}) = <<>>
  /\ \A x : SetToSeq({x}) = <<x>>
BY DEF SetToSeq

\* What the refinement uses about sequences.
LEMMA ConsFacts ==
  ASSUME NEW S, NEW x \in S, NEW q \in Seq(S)
  PROVE  /\ <<x>> \o q # <<>>
         /\ Head(<<x>> \o q) = x
         /\ Tail(<<x>> \o q) = q
         /\ <<>> \o q = q
OBVIOUS

\* Putting the head back in front of the tail gives the sequence again: a pop
\* moves the head from m_tasks to the popping thread's hand.
LEMMA RejoinHead ==
  ASSUME NEW S, NEW q \in Seq(S), q # <<>>
  PROVE  <<Head(q)>> \o Tail(q) = q
OBVIOUS

\* A push at the end of m_tasks is a push at the end of the waiting tasks.
LEMMA AppendAfter ==
  ASSUME NEW S, NEW p \in Seq(S), NEW q \in Seq(S), NEW x \in S
  PROVE  p \o Append(q, x) = Append(p \o q, x)
OBVIOUS

\* The chosen tasks form a sequence of at most one task.
LEMMA ChosenIsSequence ==
  ASSUME QueueInv
  PROVE  /\ SetToSeq(Chosen) \in Seq(Tasks)
         /\ \A i \in DOMAIN SetToSeq(Chosen) : SetToSeq(Chosen)[i] \in Chosen
<1>1. Chosen \in SUBSET Tasks
  BY DEF QueueInv, TypeOK, HandHeld, Chosen
<1>2. CASE Chosen = {}
  <2>1. SetToSeq(Chosen) = <<>>
    BY <1>2, SetToSeqFacts
  <2>2. QED
    BY <2>1, EmptySeq
<1>3. CASE Chosen # {}
  <2>1. PICK x \in Chosen : SetToSeq(Chosen) = <<x>>
    BY <1>3 DEF SetToSeq
  <2>2. QED
    BY <1>1, <2>1
<1>4. QED
  BY <1>2, <1>3

\* try_pop is no step of the executor: the popped task becomes the chosen one
\* and so stays the first of those that wait.
LEMMA PopIsQuiet ==
  ASSUME QueueInv, NEW th \in Threads, NEW from, NEW onMiss,
         from \in {"pop1", "pop2"}, onMiss \in {"clear1", "clear2"},
         TryPop(th, from, onMiss)
  PROVE  UNCHANGED Executor!execVars
<1> USE DEF QueueInv, TypeOK, TryPop, Goto
<1>1. Chosen = {} /\ Executing = {}
  BY OwnerHoldsAll DEF Owns
<1>2. CASE m_tasks # <<>>
  <2>1. spawned' = {} /\ hand'[th] = Head(m_tasks) /\ pc'[th] = "picked"
    BY <1>2 DEF OneOwner, Owns
  <2>2. \A x \in Threads : /\ pc'[x] = "picked" <=> x = th
                           /\ pc'[x] # "execute"
    BY <1>2 DEF OneOwner, Owns
  <2>3. Chosen' = {Head(m_tasks)} /\ Executing' = {}
    BY <2>1, <2>2 DEF Chosen, Executing
  <2>4. SetToSeq(Chosen') \o m_tasks' = SetToSeq(Chosen) \o m_tasks
    <3>1. <<Head(m_tasks)>> \o Tail(m_tasks) = m_tasks
      BY <1>2, RejoinHead
    <3>2. <<>> \o m_tasks = m_tasks
      BY ConcatEmptySeq
    <3>3. QED
      BY <1>1, <1>2, <2>3, <3>1, <3>2, SetToSeqFacts
  <2>5. QED
    BY <1>1, <2>3, <2>4 DEF Executor!execVars, SetToSeq
<1>3. CASE m_tasks = <<>>
  <2>1. Chosen' = Chosen /\ Executing' = Executing
    BY <1>3, QuietStep
  <2>2. m_tasks' = m_tasks
    BY <1>3
  <2>3. QED
    BY <2>1, <2>2 DEF Executor!execVars, SetToSeq
<1>4. QED
  BY <1>2, <1>3

\* Every behaviour of the queue is one of a serial executor: one task at a
\* time, in the order of the pushes, once per push (class comment,
\* SerialTaskQueue.h:10-17).  A push is Submit, a runner that starts on a
\* task, or goes on to the next, is Begin, the end of execute() is Complete.
THEOREM Refinement == Spec => ImplementsExecutor
<1>1. Init => Executor!ExecInit
  <2> SUFFICES ASSUME Init PROVE Executor!ExecInit
    OBVIOUS
  <2>1. Chosen = {} /\ Executing = {}
    BY DEF Init, Chosen, Executing
  <2>2. SetToSeq(Chosen) \o m_tasks = <<>>
    BY <2>1, SetToSeqFacts, EmptySeq, ConcatEmptySeq DEF Init
  <2>3. QED
    BY <2>1, <2>2 DEF Executor!ExecInit
<1>2. QueueInv /\ [Next]_vars => [Executor!ExecNext]_(Executor!execVars)
  <2> SUFFICES ASSUME QueueInv, [Next]_vars
               PROVE  Executor!ExecNext \/ UNCHANGED Executor!execVars
    OBVIOUS
  <2> DEFINE Quiet == UNCHANGED Executor!execVars
  <2>1. ASSUME Chosen' = Chosen, Executing' = Executing, m_tasks' = m_tasks PROVE Quiet
    BY <2>1 DEF Executor!execVars, SetToSeq
  <2>2. ASSUME NEW th \in Threads, ReadPauseCount(th) PROVE Quiet
    BY <2>1, <2>2, QuietStep DEF ReadPauseCount, Goto, ReturnNull, QueueInv
  <2>3. ASSUME NEW th \in Threads, Claim(th, "cas1", "pop1") PROVE Quiet
    BY <2>1, <2>3, QuietStep DEF Claim, Goto, ReturnNull, QueueInv
  <2>4. ASSUME NEW th \in Threads, FirstClear(th) PROVE Quiet
    BY <2>1, <2>4, QuietStep DEF FirstClear, Goto, ReturnNull, QueueInv
  <2>5. ASSUME NEW th \in Threads, Recheck(th) PROVE Quiet
    BY <2>1, <2>5, QuietStep DEF Recheck, Goto, ReturnNull, QueueInv
  <2>6. ASSUME NEW th \in Threads, Claim(th, "cas2", "pop2") PROVE Quiet
    BY <2>1, <2>6, QuietStep DEF Claim, Goto, ReturnNull, QueueInv
  <2>7. ASSUME NEW th \in Threads, SecondClear(th) PROVE Quiet
    BY <2>1, <2>7, QuietStep DEF SecondClear, Goto, ReturnNull, QueueInv
  <2>8. ASSUME NEW th \in Threads, FinishedTask(th) PROVE Quiet
    BY <2>1, <2>8, QuietStep DEF FinishedTask, Goto, ReturnNull, QueueInv
  <2>9. ASSUME NEW th \in Threads, Resume(th) PROVE Quiet
    BY <2>1, <2>9, QuietStep DEF Resume, Goto, ReturnNull, QueueInv
  <2>10. ASSUME NEW th \in Threads, Pause(th) PROVE Quiet
    BY <2>1, <2>10 DEF Pause, Chosen, Executing
  <2>11. ASSUME NEW th \in Threads, TryPop(th, "pop1", "clear1") PROVE Quiet
    BY <2>11, PopIsQuiet
  <2>12. ASSUME NEW th \in Threads, TryPop(th, "pop2", "clear2") PROVE Quiet
    BY <2>12, PopIsQuiet
  <2>13. ASSUME NEW th \in Threads, Spawn(th) PROVE Quiet
    <3>1. Chosen = {hand[th]} /\ Executing = {} /\ spawned = {}
      BY <2>13, OwnerHoldsAll DEF Spawn, ReturnNull, Goto, Owns, QueueInv, OneOwner
    <3>2. \A x \in Threads : pc'[x] \notin {"picked", "execute"}
      BY <2>13 DEF Spawn, ReturnNull, Goto, Owns, QueueInv, OneOwner, TypeOK
    <3>3. spawned' = {hand[th]} /\ m_tasks' = m_tasks
      BY <2>13, <3>1 DEF Spawn
    <3>4. Chosen' = {hand[th]} /\ Executing' = {}
      BY <3>2, <3>3 DEF Chosen, Executing
    <3>5. QED
      BY <2>1, <3>1, <3>3, <3>4
  <2>14. ASSUME NEW th \in Threads, Continue(th) PROVE Executor!ExecNext
    <3>1. Chosen = {hand[th]} /\ Executing = {} /\ spawned = {}
      BY <2>14, OwnerHoldsAll DEF Continue, Goto, Owns, QueueInv, OneOwner
    <3>2. \A x \in Threads : /\ pc'[x] # "picked"
                             /\ pc'[x] = "execute" <=> x = th
      BY <2>14 DEF Continue, Goto, Owns, QueueInv, OneOwner, TypeOK
    <3>3. Chosen' = {} /\ Executing' = {hand[th]} /\ m_tasks' = m_tasks
      BY <2>14, <3>1, <3>2 DEF Continue, Chosen, Executing
    <3>4. SetToSeq(Chosen) \o m_tasks = <<hand[th]>> \o m_tasks
      BY <3>1, SetToSeqFacts
    <3>5. SetToSeq(Chosen') \o m_tasks' = m_tasks
      BY <3>3, SetToSeqFacts, ConcatEmptySeq DEF QueueInv, TypeOK
    <3>6. QED
      <4>1. m_tasks \in Seq(Tasks) /\ hand[th] \in Tasks
        BY <2>14 DEF Continue, Goto, QueueInv, TypeOK, HandHeld
      <4>2. /\ <<hand[th]>> \o m_tasks # <<>>
            /\ Head(<<hand[th]>> \o m_tasks) = hand[th]
            /\ Tail(<<hand[th]>> \o m_tasks) = m_tasks
        BY <4>1, ConsFacts
      <4>3. QED
        BY <3>1, <3>3, <3>4, <3>5, <4>2 DEF Executor!ExecNext, Executor!Begin
  <2>15. ASSUME NEW th \in Threads, NEW t \in Tasks, StartRunner(th, t) PROVE Executor!ExecNext
    <3>1. Chosen = {t} /\ Executing = {} /\ spawned = {t}
      BY <2>15, SpawnedIsAll DEF StartRunner
    <3>2. \A x \in Threads : /\ pc'[x] # "picked"
                             /\ pc'[x] = "execute" <=> x = th
      BY <2>15, <3>1 DEF StartRunner, Goto, Owns, QueueInv, OneOwner, TypeOK
    <3>3. spawned' = {} /\ hand'[th] = t /\ m_tasks' = m_tasks
      BY <2>15, <3>1 DEF StartRunner, QueueInv, TypeOK
    <3>4. Chosen' = {} /\ Executing' = {t} /\ m_tasks' = m_tasks
      BY <3>2, <3>3 DEF Chosen, Executing
    <3>5. SetToSeq(Chosen) \o m_tasks = <<t>> \o m_tasks
      BY <3>1, SetToSeqFacts
    <3>6. SetToSeq(Chosen') \o m_tasks' = m_tasks
      BY <3>4, SetToSeqFacts, ConcatEmptySeq DEF QueueInv, TypeOK
    <3>7. QED
      <4>1. m_tasks \in Seq(Tasks) /\ t \in Tasks
        BY DEF QueueInv, TypeOK
      <4>2. /\ <<t>> \o m_tasks # <<>>
            /\ Head(<<t>> \o m_tasks) = t
            /\ Tail(<<t>> \o m_tasks) = m_tasks
        BY <4>1, ConsFacts
      <4>3. QED
        BY <3>1, <3>4, <3>5, <3>6, <4>2 DEF Executor!ExecNext, Executor!Begin
  <2>16. ASSUME NEW th \in Threads, Execute(th) PROVE Executor!ExecNext
    <3>1. Chosen = {} /\ Executing = {hand[th]}
      BY <2>16, OwnerHoldsAll DEF Execute, Goto, Owns
    <3>2. \A x \in Threads : pc'[x] \notin {"picked", "execute"}
      BY <2>16 DEF Execute, Goto, Owns, QueueInv, OneOwner, TypeOK
    <3>3. Chosen' = {} /\ Executing' = {} /\ m_tasks' = m_tasks
      BY <2>16, <3>2 DEF Execute, Chosen, Executing, Goto, Owns, QueueInv, OneOwner
    <3>4. QED
      BY <3>1, <3>3 DEF Executor!ExecNext, Executor!Complete, SetToSeq
  <2>17. ASSUME NEW th \in Threads, NEW t \in Tasks, Push(th, t) PROVE Executor!ExecNext
    <3>1. Chosen' = Chosen /\ Executing' = Executing
      BY <2>17, QuietStep DEF Push, Goto, QueueInv
    <3>2. t \notin Chosen /\ t \notin Executing /\ \A i \in DOMAIN m_tasks : m_tasks[i] # t
      BY <2>17 DEF Push, Outstanding, Chosen, Executing
    <3>3. PICK p \in Seq(Tasks) : /\ p = SetToSeq(Chosen)
                                  /\ \A i \in DOMAIN p : p[i] # t
      BY <3>2, ChosenIsSequence
    <3>4. \A i \in DOMAIN (p \o m_tasks) : (p \o m_tasks)[i] # t
      BY <3>2, <3>3, ConcatProperties DEF QueueInv, TypeOK
    <3>5. p \o Append(m_tasks, t) = Append(p \o m_tasks, t)
      BY AppendAfter DEF QueueInv, TypeOK
    <3>6. SetToSeq(Chosen') \o m_tasks' = p \o Append(m_tasks, t)
      BY <2>17, <3>1, <3>3 DEF Push, SetToSeq
    <3>7. Executor!Submit(t)
      BY <3>1, <3>2, <3>3, <3>4, <3>5, <3>6 DEF Executor!Submit
    <3>8. QED
      BY <3>7 DEF Executor!ExecNext
  <2>18. CASE UNCHANGED vars
    BY <2>1, <2>18 DEF vars, Chosen, Executing
  <2>19. QED
    BY <2>2, <2>3, <2>4, <2>5, <2>6, <2>7, <2>8, <2>9, <2>10, <2>11, <2>12, <2>13, <2>14, <2>15, <2>16, <2>17, <2>18 DEF Next, Inside
<1>3. QED
  BY <1>1, <1>2, InductiveInvariant, PTL DEF Spec, ImplementsExecutor, Executor!ExecSpec

----------------------------------------------------------------------------
\* The destructor.

\* Runners and the destructor's own push do what the queue's threads may do, so that
\* what is proved of the queue holds until it is gone.
LEMMA LifetimeStepIsQueueStep ==
  ASSUME [LifetimeNext]_LifetimeVars PROVE [Next]_vars
<1>1. CASE EnterDestructor
  BY <1>1 DEF EnterDestructor
<1>2. CASE DestructorStep
  <2>1. CASE PushNoop
    BY <2>1, LifetimeAssumption DEF PushNoop, Next, LifetimeAssumption
  <2>2. CASE ReadEmpty \/ ReadChosen \/ Test \/ WaitReturns
    BY <2>2 DEF ReadEmpty, ReadChosen, Test, WaitReturns
  <2>3. QED
    BY <1>2, <2>1, <2>2 DEF DestructorStep
<1>3. ASSUME NEW th \in Threads, Client(th) PROVE Next
  BY <1>3 DEF Client, Next
<1>4. ASSUME NEW th \in Threads, Worker(th) PROVE Next
  BY <1>4 DEF Worker, Next
<1>5. CASE UNCHANGED LifetimeVars
  BY <1>5 DEF LifetimeVars
<1>6. QED
  BY <1>1, <1>2, <1>3, <1>4, <1>5 DEF LifetimeNext

LEMMA LifetimeKeepsQueueInv == LifetimeSpec => []QueueInv
<1>1. LifetimeInit => Init
  BY DEF LifetimeInit
<1>2. [LifetimeNext]_LifetimeVars => [Next]_vars
  BY LifetimeStepIsQueueStep
<1>3. QED
  BY <1>1, <1>2, InductiveInvariant, PTL DEF Spec, LifetimeSpec

NothingLeft == m_tasks = <<>> /\ spawned = {} /\ \A th \in Threads : hand[th] \notin Tasks

\* Nobody pushes while the destructor looks: a queue it saw empty stays empty, and
\* when it then sees the flag clear, no thread has a task either.
Looked == /\ dtor \in {"emptyRead", "test", "skipped"} /\ isEmpty => m_tasks = <<>>
          /\ dtor = "test" /\ isEmpty /\ ~isTaskChosen => NothingLeft
          /\ dtor = "skipped" /\ m_pauseCount = 0 => NothingLeft

DtorTypes == /\ dtor \in {"alive", "entered", "emptyRead", "test", "push",
                          "wait", "drained", "skipped"}
             /\ isEmpty \in BOOLEAN
             /\ isTaskChosen \in BOOLEAN

\* A flag that is clear has no owner, and tasks are with the owner or in the queue.
LEMMA ClearFlagMeansNothingLeft ==
  ASSUME QueueInv, m_tasks = <<>>, ~m_taskChosen PROVE NothingLeft
BY DEF QueueInv, TypeOK, HandHeld, OneOwner, Owns, NothingLeft

\* Runners of a queue that has nothing left find nothing.
LEMMA RunnersFindNothing ==
  ASSUME QueueInv, NEW th \in Threads, Inside(th) \/ (\E t \in Tasks : StartRunner(th, t))
  PROVE  /\ m_tasks = <<>> => m_tasks' = <<>>
         /\ NothingLeft => NothingLeft'
<1> USE DEF QueueInv, TypeOK, HandHeld, NothingLeft, Goto, ReturnNull
<1>1. ASSUME NEW t \in Tasks, StartRunner(th, t)
      PROVE  m_tasks' = m_tasks /\ ~NothingLeft
  BY <1>1 DEF StartRunner
<1>2. CASE TryPop(th, "pop1", "clear1") \/ TryPop(th, "pop2", "clear2")
  BY <1>2 DEF TryPop
<1>3. CASE Spawn(th)
  BY <1>3 DEF Spawn
<1>4. CASE Execute(th)
  BY <1>4, QueueAssumption DEF Execute, QueueAssumption
<1>5. CASE \/ ReadPauseCount(th) \/ Claim(th, "cas1", "pop1") \/ FirstClear(th) \/ Recheck(th)
           \/ Claim(th, "cas2", "pop2") \/ SecondClear(th) \/ Continue(th)
           \/ FinishedTask(th)
  BY <1>5 DEF ReadPauseCount, Claim, FirstClear, Recheck, SecondClear, Continue, FinishedTask
<1>6. QED
  BY <1>1, <1>2, <1>3, <1>4, <1>5 DEF Inside

LEMMA LookedKeeps ==
  ASSUME QueueInv, Looked, DtorTypes, [LifetimeNext]_LifetimeVars
  PROVE  Looked' /\ DtorTypes'
<1> USE DEF DtorTypes
<1>1. CASE EnterDestructor
  BY <1>1 DEF EnterDestructor, Looked
<1>2. CASE ReadEmpty
  BY <1>2 DEF ReadEmpty, Looked, vars
<1>3. CASE ReadChosen
  <2>1. /\ dtor = "emptyRead" /\ dtor' = "test" /\ isEmpty' = isEmpty
        /\ isTaskChosen' = m_taskChosen /\ m_taskChosen \in BOOLEAN
        /\ UNCHANGED <<m_tasks, spawned, hand>>
    BY <1>3 DEF ReadChosen, vars, QueueInv, TypeOK
  <2>2. isEmpty /\ ~m_taskChosen => NothingLeft
    BY <2>1, ClearFlagMeansNothingLeft DEF Looked
  <2>3. QED
    BY <2>1, <2>2 DEF Looked, NothingLeft
<1>4. CASE Test
  BY <1>4 DEF Test, Looked, NothingLeft, vars
<1>5. CASE PushNoop \/ WaitReturns
  BY <1>5 DEF PushNoop, WaitReturns, Looked
<1>6. ASSUME NEW th \in Threads, Client(th) PROVE Looked' /\ DtorTypes'
  BY <1>6 DEF Client, dtorVars, Looked
<1>7. ASSUME NEW th \in Threads, Worker(th) PROVE Looked' /\ DtorTypes'
  <2>1. /\ dtor # "skipped" /\ UNCHANGED <<dtor, isEmpty, isTaskChosen>>
        /\ Inside(th) \/ (\E t \in Tasks : StartRunner(th, t))
    BY <1>7 DEF Worker, Gone, dtorVars
  <2>2. /\ m_tasks = <<>> => m_tasks' = <<>>
        /\ NothingLeft => NothingLeft'
    BY <2>1, RunnersFindNothing
  <2>3. QED
    BY <2>1, <2>2 DEF Looked
<1>8. CASE UNCHANGED LifetimeVars
  BY <1>8 DEF LifetimeVars, dtorVars, vars, Looked, NothingLeft
<1>9. QED
  BY <1>1, <1>2, <1>3, <1>4, <1>5, <1>6, <1>7, <1>8 DEF LifetimeNext, DestructorStep

LEMMA LookedAlways == LifetimeSpec => [](QueueInv /\ Looked /\ DtorTypes)
<1>1. LifetimeInit => Looked /\ DtorTypes
  BY DEF LifetimeInit, Looked, DtorTypes
<1>2. QueueInv /\ Looked /\ DtorTypes /\ [LifetimeNext]_LifetimeVars => Looked' /\ DtorTypes'
  BY LookedKeeps
<1>3. QED
  BY <1>1, <1>2, LifetimeKeepsQueueInv, PTL DEF LifetimeSpec

\* The queue and its destructor keep the types of their variables.
THEOREM LifetimeTypeCorrect == LifetimeSpec => []LifetimeTypeOK
<1>1. QueueInv /\ DtorTypes => LifetimeTypeOK
  BY DEF QueueInv, DtorTypes, LifetimeTypeOK
<1>2. QED
  BY <1>1, LookedAlways, PTL

\* The destructor skips its wait only when no task is left, although it reads
\* m_tasks.empty() and m_taskChosen one after the other while runners move: the
\* order of the two reads is what makes it so.
THEOREM SkippingIsSafe == LifetimeSpec => []SkipOnlyIfNothingLeft
<1>1. QueueInv /\ Looked => SkipOnlyIfNothingLeft
  <2> SUFFICES ASSUME QueueInv, Looked, dtor = "skipped", m_pauseCount = 0, NEW t \in Tasks
               PROVE  ~Outstanding(t)
    BY DEF SkipOnlyIfNothingLeft
  <2>1. NothingLeft
    BY DEF Looked
  <2>2. QED
    BY <2>1 DEF NothingLeft, Outstanding
<1>2. QED
  BY <1>1, LookedAlways, PTL
=============================================================================
