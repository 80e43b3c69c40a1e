------------------------------ MODULE JobQueue ------------------------------
(***************************************************************************)
(* generics::jobs: one worker thread that runs deferred tasks in order.    *)
(* auth uses it for base::enqueue (every task takes the UI lock), and the  *)
(* Windows console server for its pending reads (which it can cancel).     *)
(*                                                                         *)
(* Everything done under jobs::mutex is one action: the worker gives the   *)
(* mutex up only to wait and while it runs a task.  The UI lock is held    *)
(* over several actions, as callers add tasks from inside event handlers.  *)
(***************************************************************************)
EXTENDS Sequences, FiniteSets

CONSTANTS Callers,  \* the threads that add tasks
          Jobs,     \* the tasks; each is added at most once
          None      \* nobody holds the UI lock, or no task

ASSUME NoneAssumption == None \notin Jobs /\ None \notin Callers
ASSUME WorkerAssumption == "worker" \notin Callers

VARIABLES alive,     \* jobs::alive
          queue,     \* jobs::queue; the running task stays at its front
          cancelled, \* the tasks whose token was deactivated
          worker,    \* the worker: "start", "wait", "ready", "call", "busy",
                     \* "relock" or "exit"
          ui,        \* the holder of the UI lock
          adding,    \* the task each caller is about to add under the UI lock
          stopper,   \* the thread in stop(): "idle", "join" or "done"
          accepted,  \* every task put in the queue, in order
          ran        \* every task run, in order

vars == <<alive, queue, cancelled, worker, ui, adding, stopper, accepted, ran>>

InSeq(s) == {s[i] : i \in DOMAIN s}

Init == /\ alive = TRUE
        /\ queue = <<>>
        /\ cancelled = {}
        /\ worker = "start"
        /\ ui = None
        /\ adding = [c \in Callers |-> None]
        /\ stopper = "idle"
        /\ accepted = <<>>
        /\ ran = <<>>

\* synch.notify_one.
Notify == worker' = IF worker = "wait" THEN "ready" ELSE worker

-----------------------------------------------------------------------------
\* An event handler of a caller runs under the UI lock and enqueues j.
Enter(c, j) ==
    /\ ui = None
    /\ j \notin InSeq(accepted)
    /\ \A d \in Callers : adding[d] # j
    /\ ui' = c
    /\ adding' = [adding EXCEPT ![c] = j]
    /\ UNCHANGED <<alive, queue, cancelled, worker, stopper, accepted, ran>>

\* Mutant: the worker keeps the mutex while it runs a task.
Add_WorkerHoldsMutex(c) ==
    /\ adding[c] # None
    /\ worker \notin {"call", "busy"}
    /\ IF alive THEN /\ queue' = Append(queue, adding[c])
                     /\ accepted' = Append(accepted, adding[c])
                ELSE UNCHANGED <<queue, accepted>>
    /\ Notify
    /\ adding' = [adding EXCEPT ![c] = None]
    /\ ui' = None
    /\ UNCHANGED <<alive, cancelled, stopper, ran>>

\* Mutant: tasks are put at the front of the queue.
Add_Front(c) ==
    /\ adding[c] # None
    /\ IF alive THEN /\ queue' = <<adding[c]>> \o queue
                     /\ accepted' = Append(accepted, adding[c])
                ELSE UNCHANGED <<queue, accepted>>
    /\ Notify
    /\ adding' = [adding EXCEPT ![c] = None]
    /\ ui' = None
    /\ UNCHANGED <<alive, cancelled, stopper, ran>>

\* Mutant: the task is moved out before it is queued.
Add_Moved(c) ==
    /\ adding[c] # None
    /\ adding' = [adding EXCEPT ![c] = None]
    /\ IF alive THEN /\ queue' = Append(queue, adding'[c])
                     /\ accepted' = Append(accepted, adding[c])
                ELSE UNCHANGED <<queue, accepted>>
    /\ Notify
    /\ ui' = None
    /\ UNCHANGED <<alive, cancelled, stopper, ran>>

\* jobs::add, and the end of the handler.
Add(c) ==
    /\ adding[c] # None
    /\ IF alive THEN /\ queue' = Append(queue, adding[c])
                     /\ accepted' = Append(accepted, adding[c])
                ELSE UNCHANGED <<queue, accepted>>
    /\ Notify
    /\ adding' = [adding EXCEPT ![c] = None]
    /\ ui' = None
    /\ UNCHANGED <<alive, cancelled, stopper, ran>>

\* jobs::cancel deactivates the token of every queued task.
Cancel ==
    /\ cancelled' = cancelled \cup InSeq(queue)
    /\ UNCHANGED <<alive, queue, worker, ui, adding, stopper, accepted, ran>>

\* Mutant: stop does not notify.
StopBegin_Silent ==
    /\ stopper = "idle"
    /\ alive' = FALSE
    /\ stopper' = "join"
    /\ UNCHANGED <<queue, cancelled, worker, ui, adding, accepted, ran>>

\* jobs::stop up to the join.  Nobody calls it with the UI lock held.
StopBegin ==
    /\ stopper = "idle"
    /\ alive' = FALSE
    /\ Notify
    /\ stopper' = "join"
    /\ UNCHANGED <<queue, cancelled, ui, adding, accepted, ran>>

StopJoin ==
    /\ stopper = "join"
    /\ worker = "exit"
    /\ stopper' = "done"
    /\ UNCHANGED <<alive, queue, cancelled, worker, ui, adding, accepted, ran>>

-----------------------------------------------------------------------------
(* The worker.                                                              *)

\* Mutant: the inner loop looks at alive too.
Inner_Impatient(q) == IF q # <<>> /\ alive THEN "call"
                      ELSE IF alive THEN "wait" ELSE "exit"

\* The inner loop runs the queue dry; then the outer loop waits or ends.
Inner(q) == IF q # <<>> THEN "call" ELSE IF alive THEN "wait" ELSE "exit"

\* The outer loop's first test comes before any task.
WorkerStart ==
    /\ worker = "start"
    /\ worker' = IF alive THEN Inner(queue) ELSE "exit"
    /\ UNCHANGED <<alive, queue, cancelled, ui, adding, stopper, accepted, ran>>

\* synch.wait returns.
WorkerWake ==
    /\ worker = "ready"
    /\ worker' = Inner(queue)
    /\ UNCHANGED <<alive, queue, cancelled, ui, adding, stopper, accepted, ran>>

\* synch.wait returns without a notification.
WorkerSpurious ==
    /\ worker = "wait"
    /\ worker' = "ready"
    /\ UNCHANGED <<alive, queue, cancelled, ui, adding, stopper, accepted, ran>>

\* proc(token) without the mutex: the task takes the UI lock.
WorkerCall ==
    /\ worker = "call"
    /\ ui = None
    /\ ui' = "worker"
    /\ worker' = "busy"
    /\ UNCHANGED <<alive, queue, cancelled, adding, stopper, accepted, ran>>

WorkerReturn ==
    /\ worker = "busy"
    /\ ui' = None
    /\ worker' = "relock"
    /\ ran' = Append(ran, Head(queue))
    /\ UNCHANGED <<alive, queue, cancelled, adding, stopper, accepted>>

\* The mutex is taken again and the finished task popped.
WorkerPop ==
    /\ worker = "relock"
    /\ queue' = Tail(queue)
    /\ worker' = Inner(Tail(queue))
    /\ UNCHANGED <<alive, cancelled, ui, adding, stopper, accepted, ran>>

Worker == \/ WorkerStart \/ WorkerWake \/ WorkerReturn \/ WorkerPop

-----------------------------------------------------------------------------
Next == \/ \E c \in Callers : Add(c) \/ \E j \in Jobs : Enter(c, j)
        \/ Cancel \/ StopBegin \/ StopJoin
        \/ Worker \/ WorkerSpurious \/ WorkerCall

\* Every thread runs on, tasks and handlers end, and whoever keeps asking for
\* the UI lock gets it.
Fairness == /\ WF_vars(Worker) /\ SF_vars(WorkerCall) /\ WF_vars(StopJoin)
            /\ \A c \in Callers : WF_vars(Add(c))

Spec == Init /\ [][Next]_vars /\ Fairness

-----------------------------------------------------------------------------
TypeOK ==
    /\ alive \in BOOLEAN
    /\ queue \in Seq(Jobs)
    /\ cancelled \subseteq Jobs
    /\ worker \in {"start", "wait", "ready", "call", "busy", "relock", "exit"}
    /\ ui \in Callers \cup {"worker", None}
    /\ adding \in [Callers -> Jobs \cup {None}]
    /\ stopper \in {"idle", "join", "done"}
    /\ accepted \in Seq(Jobs)
    /\ ran \in Seq(Jobs)

\* The tasks run in the order they were accepted, none twice and none skipped:
\* what was accepted is what has run and what is queued.
Fifo == accepted = ran \o (IF worker = "relock" THEN Tail(queue) ELSE queue)

\* A worker that has run a task ends with an empty queue: a stop during the
\* work loses nothing.
DrainedAtExit == worker = "exit" /\ ran # <<>> => queue = <<>>

\* An accepted task is run, unless stop came before the worker's first look.
JobsRun == \A j \in Jobs :
    j \in InSeq(accepted) ~> j \in InSeq(ran) \/ (worker = "exit" /\ ran = <<>>)

\* stop() returns.
StopReturns == stopper = "join" ~> stopper = "done"
=============================================================================
