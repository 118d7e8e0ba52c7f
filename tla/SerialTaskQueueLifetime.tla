---------------------- MODULE SerialTaskQueueLifetime ----------------------
(***************************************************************************)
(* ~SerialTaskQueue (SerialTaskQueue.cc:24-33) run by one thread while     *)
(* runners of the queue may still be active.  The owner of the queue calls *)
(* it when no member function is being called any more; tasks already      *)
(* pushed are what the destructor itself cares for.                        *)
(***************************************************************************)
EXTENDS SerialTaskQueue

CONSTANTS Destroyer,  \* the thread that runs the destructor
          Noop        \* the task it may push, in a group of its own

ASSUME LifetimeAssumption ==
  /\ Destroyer \in Threads
  /\ Noop \in Tasks
  /\ \A t \in Tasks \ {Noop} : GroupOf[t] # GroupOf[Noop]

VARIABLES dtor,         \* where the destructor is
          isEmpty,      \* its local variables
          isTaskChosen

dtorVars == <<dtor, isEmpty, isTaskChosen>>

LifetimeTypeOK == /\ TypeOK
                  /\ dtor \in {"alive", "entered", "emptyRead", "test", "push",
                               "wait", "drained", "skipped"}
                  /\ isEmpty \in BOOLEAN
                  /\ isTaskChosen \in BOOLEAN

LifetimeInit == /\ Init
                /\ dtor = "alive"
                /\ isEmpty = FALSE
                /\ isTaskChosen = FALSE

Gone == dtor \in {"drained", "skipped"}

----------------------------------------------------------------------------
\* No thread is in push, pause or resume; only runners are in the code.
EnterDestructor == /\ dtor = "alive"
                   /\ \A th \in Threads : pc[th] = "idle" \/ runner[th] # NoGroup
                   /\ pc[Destroyer] = "idle"
                   /\ dtor' = "entered"
                   /\ UNCHANGED <<isEmpty, isTaskChosen, vars>>

\* bool isEmpty = m_tasks.empty()
ReadEmpty == /\ dtor = "entered"
             /\ isEmpty' = (m_tasks = <<>>)
             /\ dtor' = "emptyRead"
             /\ UNCHANGED <<isTaskChosen, vars>>

\* bool isTaskChosen = m_taskChosen
ReadChosen == /\ dtor = "emptyRead"
              /\ isTaskChosen' = m_taskChosen
              /\ dtor' = "test"
              /\ UNCHANGED <<isEmpty, vars>>

\* the condition of the if
Test == /\ dtor = "test"
        /\ dtor' = IF (~isEmpty /\ m_pauseCount = 0) \/ isTaskChosen
                   THEN "push" ELSE "skipped"
        /\ UNCHANGED <<isEmpty, isTaskChosen, vars>>

\* push(g, []() { return; })
PushNoop == /\ dtor = "push"
            /\ Push(Destroyer, Noop)
            /\ dtor' = "wait"
            /\ UNCHANGED <<isEmpty, isTaskChosen>>

\* The group g has a runner pending or active.
GroupBusy == \/ Noop \in spawned
             \/ \E th \in Threads : runner[th] = GroupOf[Noop]

\* Mutated: the wait lasts until the no-op task itself has been executed.
WaitForNoop == /\ dtor = "wait"
               /\ pc[Destroyer] = "idle"
               /\ ~GroupBusy
               /\ ~Outstanding(Noop)
               /\ dtor' = "drained"
               /\ UNCHANGED <<isEmpty, isTaskChosen, vars>>

\* g.wait() returns when g has no runner; the members are then destroyed
WaitReturns == /\ dtor = "wait"
               /\ pc[Destroyer] = "idle"
               /\ ~GroupBusy
               /\ dtor' = "drained"
               /\ UNCHANGED <<isEmpty, isTaskChosen, vars>>

\* Mutated: the two reads of the condition in the other order.
ReadChosenFirst == /\ dtor = "entered"
                   /\ isTaskChosen' = m_taskChosen
                   /\ dtor' = "emptyRead"
                   /\ UNCHANGED <<isEmpty, vars>>

ReadEmptySecond == /\ dtor = "emptyRead"
                   /\ isEmpty' = (m_tasks = <<>>)
                   /\ dtor' = "test"
                   /\ UNCHANGED <<isTaskChosen, vars>>

SwappedReads == ReadChosenFirst \/ ReadEmptySecond \/ Test \/ PushNoop \/ WaitReturns

DestructorStep == ReadEmpty \/ ReadChosen \/ Test \/ PushNoop \/ WaitReturns

\* Callers while the queue lives.
Client(th) == /\ dtor = "alive"
              /\ \/ \E t \in Tasks \ {Noop} : Push(th, t)
                 \/ Pause(th)
                 \/ Resume(th)
              /\ UNCHANGED dtorVars

\* Runners, and the destructor's own push.  While it runs, the destroying
\* thread executes tasks only inside g.wait().
Worker(th) == /\ ~Gone
              /\ \/ Inside(th)
                 \/ /\ th = Destroyer => dtor \in {"alive", "wait"}
                    /\ \E t \in Tasks : StartRunner(th, t)
              /\ UNCHANGED dtorVars

LifetimeNext == \/ EnterDestructor
                \/ DestructorStep
                \/ \E th \in Threads : Client(th) \/ Worker(th)

LifetimeVars == <<vars, dtorVars>>

LifetimeSpec == LifetimeInit /\ [][LifetimeNext]_LifetimeVars

LifetimeFairSpec ==
  /\ LifetimeSpec
  /\ WF_LifetimeVars(DestructorStep)
  /\ \A th \in Threads : WF_LifetimeVars(Inside(th) /\ ~Gone /\ UNCHANGED dtorVars)
  /\ \A t \in Tasks :
       WF_LifetimeVars(\E th \in Threads : StartRunner(th, t) /\ Worker(th))

----------------------------------------------------------------------------
\* The test of the destructor reads m_tasks.empty() before m_taskChosen.  In
\* that order, deciding that nothing is left is right: unless the queue is
\* paused, no pushed task is unexecuted, although a runner may have moved
\* between the two reads.
SkipOnlyIfNothingLeft ==
  dtor = "skipped" /\ m_pauseCount = 0 => \A t \in Tasks : ~Outstanding(t)

\* While the queue lives, the second miss is the only thing that can keep a
\* task from running once the queue is no longer paused (push's comment,
\* SerialTaskQueue.h:107-113): every pushed task runs, or the queue comes to
\* the state the second miss leaves, or is destroyed.
RunsUnlessStranded ==
  <>[](m_pauseCount = 0) => \A t \in Tasks \ {Noop} :
    Outstanding(t) ~> t \in Executing \/ Stranded \/ Gone

\* What the second miss leaves of that promise: the next push repairs it.
\* When t is stranded in the queue and another task x is pushed later, t runs
\* (unless the queue is destroyed first): x never joins it in waiting.
NextPushRepairs ==
  <>[](m_pauseCount = 0) => \A t, x \in Tasks :
    (Stranded /\ (\E i \in DOMAIN m_tasks : m_tasks[i] = t) /\ ~Outstanding(x))
      ~> (t \in Executing \/ Gone \/ []~Outstanding(x))

\* The destructor does not hang, whatever runners do and also when the queue
\* was paused or a task was stranded.
DestructorReturns == dtor = "entered" ~> Gone

\* The comment on the destructor (SerialTaskQueue.cc:25): "be certain all
\* tasks have completed".
AllTasksHaveCompleted ==
  dtor = "drained" => \A t \in Tasks : ~Outstanding(t)
=============================================================================
