--------------------------- MODULE SerialExecutor ---------------------------
(***************************************************************************)
(* What SerialTaskQueue promises its callers (class comment,               *)
(* SerialTaskQueue.h:10-17): tasks are accepted from any thread, only one  *)
(* of them runs at a time, and they run in the order they were pushed,     *)
(* each exactly once per push.  Threads, the chosen flag, the TBB groups   *)
(* and pausing do not appear here: SerialTaskQueue implements this.        *)
(*                                                                         *)
(* There is no progress promise: pausing stops the queue, and what the     *)
(* implementation guarantees about progress is stated in SerialTaskQueue.  *)
(***************************************************************************)
EXTENDS Sequences

CONSTANT Tasks       \* the task objects that can be outstanding at one time

VARIABLES waiting,   \* tasks accepted and not yet started, oldest first
          running    \* the set of tasks being executed

execVars == <<waiting, running>>

ExecTypeOK == /\ waiting \in Seq(Tasks)
              /\ running \in SUBSET Tasks

ExecInit == /\ waiting = <<>>
            /\ running = {}

\* A task object is handed over; it is in no other place at that moment.
Submit(t) == /\ \A i \in DOMAIN waiting : waiting[i] # t
             /\ t \notin running
             /\ waiting' = Append(waiting, t)
             /\ UNCHANGED running

\* The oldest waiting task starts, and only when nothing runs.
Begin == /\ running = {}
         /\ waiting # <<>>
         /\ running' = {Head(waiting)}
         /\ waiting' = Tail(waiting)

Complete == /\ running # {}
            /\ running' = {}
            /\ UNCHANGED waiting

ExecNext == (\E t \in Tasks : Submit(t)) \/ Begin \/ Complete

ExecSpec == ExecInit /\ [][ExecNext]_execVars
=============================================================================
