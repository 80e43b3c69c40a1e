--------------------------- MODULE JobQueue_proof ---------------------------
(***************************************************************************)
(* The deferred tasks run in order, each once, for any callers and tasks.  *)
(* FrontInv adds what the pointer to the queue's front relies on: whoever  *)
(* runs or pops a task has one.  Fifo then follows step by step, and       *)
(* DrainedAtExit from what each way out of the worker's loops has seen.    *)
(***************************************************************************)
EXTENDS JobQueue, SequenceTheorems, TLAPS

\* The task that is run or popped is at the front of the queue.
FrontInv == TypeOK /\ (worker \in {"call", "busy", "relock"} => queue # <<>>)

\* A queue with a front is that front and the rest.
LEMMA Split ==
  ASSUME NEW T, NEW q \in Seq(T), q # <<>>
  PROVE  /\ Head(q) \in T /\ Tail(q) \in Seq(T)
         /\ q = <<Head(q)>> \o Tail(q)
         /\ \A x \in T : Tail(Append(q, x)) = Append(Tail(q), x)
OBVIOUS

\* Appending to the second of two sequences, and moving the boundary by one.
LEMMA Boundary ==
  ASSUME NEW T, NEW r \in Seq(T), NEW q \in Seq(T), NEW x \in T
  PROVE  /\ r \o Append(q, x) = Append(r \o q, x)
         /\ r \o (<<x>> \o q) = Append(r, x) \o q
<1>1. <<x>> \in Seq(T) /\ r \o q \in Seq(T)
  BY ConcatProperties
<1>2. /\ Append(q, x) = q \o <<x>>
      /\ Append(r, x) = r \o <<x>>
      /\ Append(r \o q, x) = (r \o q) \o <<x>>
  BY <1>1, AppendIsConcat
<1>3. /\ (r \o q) \o <<x>> = r \o (q \o <<x>>)
      /\ (r \o <<x>>) \o q = r \o (<<x>> \o q)
  BY <1>1, ConcatAssociative
<1> QED
  BY <1>2, <1>3

\* The variables keep their types and the worker its task.
LEMMA FrontCorrect == Spec => []FrontInv
<1> USE NoneAssumption, WorkerAssumption DEF TypeOK, FrontInv, Inner
<1>1. Init => FrontInv
  BY DEF Init
<1>2. FrontInv /\ [Next]_vars => FrontInv'
  <2> SUFFICES ASSUME FrontInv, [Next]_vars PROVE FrontInv'
    OBVIOUS
  <2>1. ASSUME NEW c \in Callers, NEW j \in Jobs, Enter(c, j) PROVE FrontInv'
    BY <2>1 DEF Enter
  <2>2. ASSUME NEW c \in Callers, Add(c) PROVE FrontInv'
    <3>1. adding[c] \in Jobs
      BY <2>2 DEF Add
    <3>2. /\ Append(queue, adding[c]) \in Seq(Jobs)
          /\ Append(queue, adding[c]) # <<>>
          /\ Append(accepted, adding[c]) \in Seq(Jobs)
      BY <3>1
    <3>3. queue' \in Seq(Jobs) /\ (queue # <<>> => queue' # <<>>)
      BY <2>2, <3>2 DEF Add
    <3>4. accepted' \in Seq(Jobs)
      BY <2>2, <3>2 DEF Add
    <3>5. /\ worker' \in {"start", "wait", "ready", "call", "busy", "relock", "exit"}
          /\ worker' \in {"call", "busy", "relock"} => worker' = worker
      BY <2>2 DEF Add, Notify
    <3> QED
      BY <2>2, <3>3, <3>4, <3>5 DEF Add
  <2>3. CASE Cancel
    BY <2>3 DEF Cancel, InSeq
  <2>4. CASE StopBegin \/ StopJoin
    BY <2>4 DEF StopBegin, StopJoin, Notify
  <2>5. CASE WorkerStart \/ WorkerWake \/ WorkerSpurious \/ WorkerCall
    BY <2>5 DEF WorkerStart, WorkerWake, WorkerSpurious, WorkerCall
  <2>6. CASE WorkerReturn
    BY <2>6, Split DEF WorkerReturn
  <2>7. CASE WorkerPop
    BY <2>7, Split DEF WorkerPop
  <2>8. CASE UNCHANGED vars
    BY <2>8 DEF vars
  <2> QED
    BY <2>1, <2>2, <2>3, <2>4, <2>5, <2>6, <2>7, <2>8 DEF Next, Worker
<1> QED
  BY <1>1, <1>2, PTL DEF Spec

\* The variables keep their types.
THEOREM TypeCorrect == Spec => []TypeOK
<1>1. FrontInv => TypeOK
  BY DEF FrontInv
<1> QED
  BY <1>1, FrontCorrect, PTL

-----------------------------------------------------------------------------
\* What has run is what was accepted, in order and without a gap (jobs::add
\* and jobs::worker).
THEOREM FifoCorrect == Spec => []Fifo
<1> USE DEF TypeOK, FrontInv, Fifo
<1>1. Init => Fifo
  BY DEF Init
<1>2. FrontInv /\ Fifo /\ [Next]_vars => Fifo'
  <2> SUFFICES ASSUME FrontInv, Fifo, [Next]_vars PROVE Fifo'
    OBVIOUS
  <2>1. ASSUME NEW c \in Callers, NEW j \in Jobs, Enter(c, j) PROVE Fifo'
    BY <2>1 DEF Enter
  <2>2. ASSUME NEW c \in Callers, Add(c) PROVE Fifo'
    <3>1. (worker' = "relock") <=> (worker = "relock")
      BY <2>2 DEF Add, Notify
    <3>2. CASE ~alive
      BY <2>2, <3>1, <3>2 DEF Add
    <3>3. CASE alive
      <4> DEFINE j == adding[c]
      <4>1. j \in Jobs /\ ran' = ran
        BY <2>2, NoneAssumption DEF Add
      <4>2. accepted' = Append(accepted, j) /\ queue' = Append(queue, j)
        BY <2>2, <3>3 DEF Add
      <4>3. \A q \in Seq(Jobs) : Append(ran \o q, j) = ran \o Append(q, j)
        <5> HIDE DEF j
        <5> TAKE q \in Seq(Jobs)
        <5>1. ran \in Seq(Jobs) /\ j \in Jobs
          BY <4>1
        <5> QED
          <6>1. ran \o Append(q, j) = Append(ran \o q, j)
            BY ONLY <5>1, q \in Seq(Jobs), Boundary
          <6> QED
            BY <6>1
      <4>4. CASE worker = "relock"
        <5>1. Tail(Append(queue, j)) = Append(Tail(queue), j) /\ Tail(queue) \in Seq(Jobs)
          BY <4>1, <4>4, Split
        <5> QED
          BY <3>1, <4>1, <4>2, <4>3, <4>4, <5>1
      <4>5. CASE worker # "relock"
        BY <3>1, <4>1, <4>2, <4>3, <4>5
      <4> QED
        BY <4>4, <4>5
    <3> QED
      BY <3>2, <3>3
  <2>3. CASE Cancel \/ StopBegin \/ StopJoin
    BY <2>3 DEF Cancel, StopBegin, StopJoin, Notify
  <2>4. CASE WorkerStart \/ WorkerWake \/ WorkerSpurious \/ WorkerCall
    BY <2>4 DEF WorkerStart, WorkerWake, WorkerSpurious, WorkerCall, Inner
  <2>5. CASE WorkerReturn
    <3>1. queue = <<Head(queue)>> \o Tail(queue) /\ Head(queue) \in Jobs
                                                /\ Tail(queue) \in Seq(Jobs)
      BY <2>5, Split DEF WorkerReturn
    <3>2. ran \o (<<Head(queue)>> \o Tail(queue)) = Append(ran, Head(queue)) \o Tail(queue)
      BY <3>1, Boundary
    <3> QED
      BY <2>5, <3>1, <3>2 DEF WorkerReturn
  <2>6. CASE WorkerPop
    BY <2>6 DEF WorkerPop, Inner
  <2>7. CASE UNCHANGED vars
    BY <2>7 DEF vars
  <2> QED
    BY <2>1, <2>2, <2>3, <2>4, <2>5, <2>6, <2>7 DEF Next, Worker
<1> QED
  BY <1>1, <1>2, FrontCorrect, PTL DEF Spec

-----------------------------------------------------------------------------
\* The worker leaves its loops only after stop, and with an empty queue unless
\* it had not looked at the queue yet.
ExitInv == /\ worker = "start" => ran = <<>>
           /\ worker = "exit" => ~alive /\ (queue = <<>> \/ ran = <<>>)

\* A stop loses no task once the worker has begun (jobs::worker, jobs::stop).
THEOREM DrainCorrect == Spec => []DrainedAtExit
<1> USE DEF TypeOK, FrontInv, ExitInv, Inner
<1>1. Init => ExitInv
  BY DEF Init
<1>2. FrontInv /\ ExitInv /\ [Next]_vars => ExitInv'
  <2> SUFFICES ASSUME FrontInv, ExitInv, [Next]_vars PROVE ExitInv'
    OBVIOUS
  <2>1. ASSUME NEW c \in Callers, NEW j \in Jobs, Enter(c, j) PROVE ExitInv'
    BY <2>1 DEF Enter
  <2>2. ASSUME NEW c \in Callers, Add(c) PROVE ExitInv'
    BY <2>2 DEF Add, Notify
  <2>3. CASE Cancel \/ StopBegin \/ StopJoin
    BY <2>3 DEF Cancel, StopBegin, StopJoin, Notify
  <2>4. CASE WorkerStart \/ WorkerWake \/ WorkerSpurious \/ WorkerCall
    BY <2>4 DEF WorkerStart, WorkerWake, WorkerSpurious, WorkerCall
  <2>5. CASE WorkerReturn
    BY <2>5 DEF WorkerReturn
  <2>6. CASE WorkerPop
    BY <2>6 DEF WorkerPop
  <2>7. CASE UNCHANGED vars
    BY <2>7 DEF vars
  <2> QED
    BY <2>1, <2>2, <2>3, <2>4, <2>5, <2>6, <2>7 DEF Next, Worker
<1>3. ExitInv => DrainedAtExit
  BY DEF DrainedAtExit
<1> QED
  BY <1>1, <1>2, <1>3, FrontCorrect, PTL DEF Spec
=============================================================================
