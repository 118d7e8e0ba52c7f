-------------------------- MODULE SerialTaskQueue --------------------------
(***************************************************************************)
(* SerialTaskQueue.h/.cc: the lock-free queue behind every shared source   *)
(* and every outputer that protects a file.  A thread that pushes or       *)
(* resumes calls pickNextTask; whoever flips m_taskChosen from false to    *)
(* true owns the queue, pops a task and hands a runner for it to the       *)
(* task's tbb::task_group; the runner executes tasks until pickNextTask    *)
(* gives it none, or one of another group.                                 *)
(*                                                                         *)
(* Each atomic operation of the code on m_tasks, m_taskChosen and          *)
(* m_pauseCount is one action, so that threads interleave between any two  *)
(* of them.  Task objects are identified by a member of Tasks, which may   *)
(* be pushed again once it has been executed: Tasks bounds how many are    *)
(* outstanding at one time, not how many are ever pushed.                  *)
(***************************************************************************)
EXTENDS Integers, Sequences

CONSTANTS Threads,    \* threads that push, resume, pause and run TBB tasks
          Tasks,      \* task objects
          Groups,     \* tbb::task_group objects
          GroupOf,    \* the group each task was pushed with
          NoTask,     \* nullptr for a TaskBase*
          NoGroup,    \* "not inside a runner"
          MaxPause    \* bound on m_pauseCount

ASSUME QueueAssumption == /\ GroupOf \in [Tasks -> Groups]
                          /\ NoTask \notin Tasks
                          /\ NoGroup \notin Groups
                          /\ MaxPause \in Nat

VARIABLES m_tasks,       \* tbb::concurrent_queue: linearizable FIFO
          m_taskChosen,  \* std::atomic<bool>
          m_pauseCount,  \* std::atomic<unsigned long>
          spawned,       \* tasks whose runner is in its group, not yet started
          pc,            \* where each thread is in the code
          hand,          \* the thread's local TaskBase*
          runner         \* group of the runner the thread executes, or NoGroup

vars == <<m_tasks, m_taskChosen, m_pauseCount, spawned, pc, hand, runner>>

PC == {"idle", "pause", "cas1", "pop1", "clear1", "recheck", "cas2", "pop2",
       "clear2", "picked", "execute", "finish"}

TypeOK == /\ m_tasks \in Seq(Tasks)
          /\ m_taskChosen \in BOOLEAN
          /\ m_pauseCount \in 0..MaxPause
          /\ spawned \in SUBSET Tasks
          /\ pc \in [Threads -> PC]
          /\ hand \in [Threads -> Tasks \cup {NoTask}]
          /\ runner \in [Threads -> Groups \cup {NoGroup}]

Init == /\ m_tasks = <<>>
        /\ m_taskChosen = FALSE
        /\ m_pauseCount = 0
        /\ spawned = {}
        /\ pc = [th \in Threads |-> "idle"]
        /\ hand = [th \in Threads |-> NoTask]
        /\ runner = [th \in Threads |-> NoGroup]

----------------------------------------------------------------------------
Goto(th, from, to) == /\ pc[th] = from
                      /\ pc' = [pc EXCEPT ![th] = to]

\* pickNextTask returns nullptr: push and resume return to their caller, a
\* runner's loop ends and its thread goes back to the TBB scheduler.
ReturnNull(th, from) == /\ Goto(th, from, "idle")
                        /\ runner' = [runner EXCEPT ![th] = NoGroup]

\* t is in the queue, chosen and waiting for a thread, or held by a thread.
Outstanding(t) == \/ \E i \in DOMAIN m_tasks : m_tasks[i] = t
                  \/ t \in spawned
                  \/ \E th \in Threads : hand[th] = t

\* Mutated: a push that finds tasks waiting leaves the queue to whoever is
\* thought to be at it.
PushUnlessWaiting(th, t) ==
  /\ ~Outstanding(t)
  /\ Goto(th, "idle", IF m_tasks = <<>> THEN "pause" ELSE "idle")
  /\ m_tasks' = Append(m_tasks, t)
  /\ UNCHANGED <<m_taskChosen, m_pauseCount, spawned, hand, runner>>

\* push, pushTask, pushAndGetNextTask up to the call of pickNextTask
Push(th, t) == /\ ~Outstanding(t)
               /\ Goto(th, "idle", "pause")
               /\ m_tasks' = Append(m_tasks, t)
               /\ UNCHANGED <<m_taskChosen, m_pauseCount, spawned, hand, runner>>

\* the first operand of the first condition of pickNextTask
ReadPauseCount(th) ==
  /\ \/ /\ m_pauseCount = 0
        /\ Goto(th, "pause", "cas1")
        /\ UNCHANGED runner
     \/ /\ m_pauseCount # 0
        /\ ReturnNull(th, "pause")
  /\ UNCHANGED <<m_tasks, m_taskChosen, m_pauseCount, spawned, hand>>

\* Mutated: the flag is stored without comparing.
UncheckedClaim(th, from, to) ==
  /\ m_taskChosen' = TRUE
  /\ Goto(th, from, to)
  /\ UNCHANGED <<m_tasks, m_pauseCount, spawned, hand, runner>>

\* m_taskChosen.compare_exchange_strong(expect, true), in both conditions
Claim(th, from, to) ==
  /\ \/ /\ ~m_taskChosen
        /\ m_taskChosen' = TRUE
        /\ Goto(th, from, to)
        /\ UNCHANGED runner
     \/ /\ m_taskChosen
        /\ ReturnNull(th, from)
        /\ UNCHANGED m_taskChosen
  /\ UNCHANGED <<m_tasks, m_pauseCount, spawned, hand>>

\* Mutated: the newest task is taken, as from a stack.
PopNewest(th, from, onMiss) ==
  /\ \/ /\ m_tasks # <<>>
        /\ hand' = [hand EXCEPT ![th] = m_tasks[Len(m_tasks)]]
        /\ m_tasks' = SubSeq(m_tasks, 1, Len(m_tasks) - 1)
        /\ Goto(th, from, "picked")
     \/ /\ m_tasks = <<>>
        /\ Goto(th, from, onMiss)
        /\ UNCHANGED <<m_tasks, hand>>
  /\ UNCHANGED <<m_taskChosen, m_pauseCount, spawned, runner>>

\* m_tasks.try_pop(t)
TryPop(th, from, onMiss) ==
  /\ \/ /\ m_tasks # <<>>
        /\ hand' = [hand EXCEPT ![th] = Head(m_tasks)]
        /\ m_tasks' = Tail(m_tasks)
        /\ Goto(th, from, "picked")
     \/ /\ m_tasks = <<>>
        /\ Goto(th, from, onMiss)
        /\ UNCHANGED <<m_tasks, hand>>
  /\ UNCHANGED <<m_taskChosen, m_pauseCount, spawned, runner>>

\* Mutated: the flag stays set after the first miss.
NoFirstClear(th) ==
  /\ Goto(th, "clear1", "recheck")
  /\ UNCHANGED <<m_tasks, m_taskChosen, m_pauseCount, spawned, hand, runner>>

\* "no task was actually pulled": the first m_taskChosen.store(false)
FirstClear(th) == /\ Goto(th, "clear1", "recheck")
                  /\ m_taskChosen' = FALSE
                  /\ UNCHANGED <<m_tasks, m_pauseCount, spawned, hand, runner>>

\* Mutated: no second look at the queue.
NoRecheck(th) ==
  /\ ReturnNull(th, "recheck")
  /\ UNCHANGED <<m_tasks, m_taskChosen, m_pauseCount, spawned, hand>>

\* not m_tasks.empty()
Recheck(th) ==
  /\ \/ /\ m_tasks # <<>>
        /\ Goto(th, "recheck", "cas2")
        /\ UNCHANGED runner
     \/ /\ m_tasks = <<>>
        /\ ReturnNull(th, "recheck")
  /\ UNCHANGED <<m_tasks, m_taskChosen, m_pauseCount, spawned, hand>>

\* "a different thread beat us to it": the second m_taskChosen.store(false),
\* after which the queue is not looked at again
SecondClear(th) == /\ ReturnNull(th, "clear2")
                   /\ m_taskChosen' = FALSE
                   /\ UNCHANGED <<m_tasks, m_pauseCount, spawned, hand>>

\* spawn(): by pushTask or resume, or by a runner whose next task is of
\* another group; the runner's loop then ends
Spawn(th) == /\ ReturnNull(th, "picked")
             /\ runner[th] # GroupOf[hand[th]]
             /\ spawned' = spawned \cup {hand[th]}
             /\ hand' = [hand EXCEPT ![th] = NoTask]
             /\ UNCHANGED <<m_tasks, m_taskChosen, m_pauseCount>>

\* spawn(): the runner's next task has its own group, the do loop goes on
Continue(th) == /\ Goto(th, "picked", "execute")
                /\ runner[th] = GroupOf[hand[th]]
                /\ UNCHANGED <<m_tasks, m_taskChosen, m_pauseCount, spawned,
                               hand, runner>>

\* a TBB worker (or a thread waiting in the group) takes the runner up
StartRunner(th, t) == /\ t \in spawned
                      /\ Goto(th, "idle", "execute")
                      /\ spawned' = spawned \ {t}
                      /\ hand' = [hand EXCEPT ![th] = t]
                      /\ runner' = [runner EXCEPT ![th] = GroupOf[t]]
                      /\ UNCHANGED <<m_tasks, m_taskChosen, m_pauseCount>>

\* t->execute() comes to its end (an exception is swallowed), delete t
Execute(th) == /\ Goto(th, "execute", "finish")
               /\ hand' = [hand EXCEPT ![th] = NoTask]
               /\ UNCHANGED <<m_tasks, m_taskChosen, m_pauseCount, spawned, runner>>

\* Mutated: the flag is not cleared when a task is finished.
FinishedTaskKeepsFlag(th) ==
  /\ Goto(th, "finish", "pause")
  /\ UNCHANGED <<m_tasks, m_taskChosen, m_pauseCount, spawned, hand, runner>>

\* finishedTask: m_taskChosen.store(false), then pickNextTask
FinishedTask(th) == /\ Goto(th, "finish", "pause")
                    /\ m_taskChosen' = FALSE
                    /\ UNCHANGED <<m_tasks, m_pauseCount, spawned, hand, runner>>

Pause(th) == /\ pc[th] = "idle"
             /\ m_pauseCount < MaxPause
             /\ m_pauseCount' = m_pauseCount + 1
             /\ UNCHANGED <<m_tasks, m_taskChosen, spawned, pc, hand, runner>>

\* Mutated: resume without a pause before it wraps the counter around.
UnbalancedResume(th) ==
  /\ Goto(th, "idle", "pause")
  /\ m_pauseCount' = m_pauseCount - 1
  /\ UNCHANGED <<m_tasks, m_taskChosen, spawned, hand, runner>>

\* Balanced with a pause, as resume's comment demands.
Resume(th) ==
  /\ m_pauseCount > 0
  /\ m_pauseCount' = m_pauseCount - 1
  /\ \/ /\ m_pauseCount = 1
        /\ Goto(th, "idle", "pause")
     \/ /\ m_pauseCount > 1
        /\ Goto(th, "idle", "idle")
  /\ UNCHANGED <<m_tasks, m_taskChosen, spawned, hand, runner>>

\* The steps of a thread that is inside the queue's code.
Inside(th) == \/ ReadPauseCount(th)
              \/ Claim(th, "cas1", "pop1")
              \/ TryPop(th, "pop1", "clear1")
              \/ FirstClear(th)
              \/ Recheck(th)
              \/ Claim(th, "cas2", "pop2")
              \/ TryPop(th, "pop2", "clear2")
              \/ SecondClear(th)
              \/ Spawn(th)
              \/ Continue(th)
              \/ Execute(th)
              \/ FinishedTask(th)

Next == \E th \in Threads :
          \/ Inside(th)
          \/ \E t \in Tasks : Push(th, t) \/ StartRunner(th, t)
          \/ Pause(th)
          \/ Resume(th)

Spec == Init /\ [][Next]_vars

\* A thread inside the queue's code is not blocked there, and TBB eventually
\* runs what was given to a group.  Nobody has to push, pause or resume.
Fairness == /\ \A th \in Threads : WF_vars(Inside(th))
            /\ \A t \in Tasks : WF_vars(\E th \in Threads : StartRunner(th, t))

FairSpec == Spec /\ Fairness
----------------------------------------------------------------------------
\* The thread set m_taskChosen and has neither cleared it nor passed the
\* chosen task on to a runner.
Owns(th) == pc[th] \in {"pop1", "clear1", "pop2", "clear2", "picked",
                        "execute", "finish"}

\* A thread holds a task exactly between the pop (or the start of a runner)
\* and the end of the task's execution.
HandHeld ==
  \A th \in Threads : hand[th] \in Tasks <=> pc[th] \in {"picked", "execute"}

\* m_taskChosen is a lock with one owner at most: a thread between its
\* compare_exchange and its store, or the one chosen task waiting in its group.
\* With two owners two tasks would run at once on the protected resource.
OneOwner ==
  /\ \A a, b \in Threads : Owns(a) /\ Owns(b) => a = b
  /\ \A t, u \in spawned : t = u
  /\ \A th \in Threads : Owns(th) => m_taskChosen /\ spawned = {}
  /\ spawned # {} => m_taskChosen

\* The flag is never left set behind: when it is set, somebody is still there
\* to clear it.  A leaked flag would stop the queue for ever.
FlagHasOwner ==
  m_taskChosen => \/ \E th \in Threads : Owns(th)
                  \/ spawned # {}

\* A task waits although the queue is neither paused nor owned, and no thread
\* is on its way to claim it.
Stranded == /\ m_tasks # <<>>
            /\ m_pauseCount = 0
            /\ ~m_taskChosen
            /\ \A th \in Threads : pc[th] \notin {"pause", "cas1", "recheck",
                                                  "cas2"}

\* The store(false) followed by a look at the queue (first miss of
\* pickNextTask, finishedTask) never strands a task pushed meanwhile, however
\* push, pop, pause and resume of other threads interleave: a task becomes
\* stranded only in the store that follows the second miss.
OnlySecondMissStrands ==
  [][~Stranded /\ Stranded' => \E th \in Threads : SecondClear(th)]_vars

SetToSeq(S) == IF S = {} THEN <<>> ELSE <<CHOOSE x \in S : TRUE>>

\* chosen and not started: in a thread's hand on the way to its group or its
\* loop, or waiting in its group
Chosen == spawned \cup {hand[th] : th \in {x \in Threads : pc[x] = "picked"}}

Executing == {hand[th] : th \in {x \in Threads : pc[x] = "execute"}}

Executor == INSTANCE SerialExecutor WITH waiting <- SetToSeq(Chosen) \o m_tasks,
                                         running <- Executing

\* The queue implements SerialExecutor: never two tasks at a time, in push
\* order, once per push, from any thread and across groups, pauses and the
\* hand-over of the runner (class comment, SerialTaskQueue.h:10-17).
ImplementsExecutor == Executor!ExecSpec

\* push's comment (SerialTaskQueue.h:107-113): the task runs, at the latest
\* when the resource and a CPU become available; provided the queue does not
\* stay paused.
PushedTaskRuns ==
  <>[](m_pauseCount = 0) => \A t \in Tasks : Outstanding(t) ~> t \in Executing
=============================================================================
