-------------------------- MODULE ThreadPool_proof --------------------------
(***************************************************************************)
(* Safety of the thread pool for any number of thread ids, which the       *)
(* system gives to new threads as soon as the old ones are joined.         *)
(* PoolInv says exactly which entries the index holds: those of the        *)
(* unjoined threads, and while the agent is between join and erase the     *)
(* entry under its cursor, which a new thread may have taken over.         *)
(***************************************************************************)
EXTENDS ThreadPool, TLAPS

\* The cursor is at an entry while a thread is joined or erased.
CursorInv == TypeOK /\ (agent \in {"join", "relock"} => cursor \in Ids)

\* The variables keep their types.
THEOREM TypeCorrect == Spec => []TypeOK
<1> USE NAssumption, WakesAssumption DEF Ids, TypeOK, CursorInv
<1>1. Init => CursorInv
  <2> SUFFICES ASSUME Init PROVE CursorInv
    OBVIOUS
  <2>1. alive \in BOOLEAN /\ reborn \in BOOLEAN
    BY DEF Init
  <2> QED
    BY <2>1 DEF Init
<1>2. CursorInv /\ [Next]_vars => CursorInv'
  <2> SUFFICES ASSUME CursorInv, [Next]_vars PROVE CursorInv'
    OBVIOUS
  <2>1. ASSUME NEW i \in Ids, Run(i) \/ Checkout(i) PROVE CursorInv'
    BY <2>1 DEF Run, Checkout, Notify
  <2>2. CASE StopBegin \/ StopJoin
    BY <2>2 DEF StopBegin, StopJoin, Notify
  <2>3. CASE AgentHead
    BY <2>3 DEF AgentHead
  <2>4. CASE AgentSpurious
    BY <2>4 DEF AgentSpurious
  <2>5. CASE AgentScan
    <3>1. cursor' \in 1..N + 1 /\ (agent' \in {"join", "relock"} => cursor' \in Ids)
      BY <2>5 DEF AgentScan, Due
    <3>2. agent' \in {"head", "join", "relock"}
      BY <2>5 DEF AgentScan
    <3> QED
      BY <2>5, <3>1, <3>2 DEF AgentScan
  <2>6. CASE AgentJoin
    BY <2>6 DEF AgentJoin
  <2>7. CASE AgentErase
    BY <2>7 DEF AgentErase
  <2>8. CASE UNCHANGED vars
    BY <2>8 DEF vars
  <2> QED
    BY <2>1, <2>2, <2>3, <2>4, <2>5, <2>6, <2>7, <2>8 DEF Next, Agent
<1>3. CursorInv => TypeOK
  OBVIOUS
<1> QED
  BY <1>1, <1>2, <1>3, PTL DEF Spec

-----------------------------------------------------------------------------
\* The index holds the unjoined threads, and the cursor's while it is erased.
PoolInv ==
    /\ Running => /\ joinable = {i \in Ids : Unjoined(i)}
                  /\ index = IF agent = "relock" THEN joinable \cup {cursor} ELSE joinable
    /\ agent \in {"join", "relock"} => cursor \in Ids
    /\ agent = "join" => Unjoined(cursor)
    /\ agent = "relock" => (reborn <=> Unjoined(cursor))
    /\ reborn => agent \in {"relock", "terminate"}
    /\ agent = "terminate" => reborn
    /\ agent = "exit" => ~alive /\ index = {}
    /\ stopper = "done" => agent = "exit"

\* TypeOK and PoolInv are inductive together.
LEMMA PoolInvariant == Spec => [](TypeOK /\ PoolInv)
<1> USE NAssumption, WakesAssumption DEF Ids, Unjoined, Running
<1>1. Init => TypeOK /\ PoolInv
  <2> SUFFICES ASSUME Init PROVE TypeOK /\ PoolInv
    OBVIOUS
  <2>1. alive \in BOOLEAN /\ reborn \in BOOLEAN /\ ~reborn
    BY DEF Init
  <2> QED
    BY <2>1 DEF Init, TypeOK, PoolInv
<1>2. TypeOK /\ PoolInv /\ [Next]_vars => (TypeOK /\ PoolInv)'
  <2> SUFFICES ASSUME TypeOK, PoolInv, [Next]_vars PROVE TypeOK' /\ PoolInv'
    OBVIOUS
  <2> USE DEF TypeOK, PoolInv
  <2>1. ASSUME NEW i \in Ids, Run(i) PROVE TypeOK' /\ PoolInv'
    BY <2>1 DEF Run
  <2>2. ASSUME NEW i \in Ids, Checkout(i) PROVE TypeOK' /\ PoolInv'
    BY <2>2 DEF Checkout, Notify
  <2>3. CASE StopBegin
    BY <2>3 DEF StopBegin, Notify
  <2>4. CASE StopJoin
    BY <2>4 DEF StopJoin
  <2>5. CASE AgentHead
    BY <2>5 DEF AgentHead
  <2>6. CASE AgentSpurious
    BY <2>6 DEF AgentSpurious
  <2>7. CASE AgentScan
    BY <2>7 DEF AgentScan, Due
  <2>8. CASE AgentJoin
    BY <2>8 DEF AgentJoin
  <2>9. CASE AgentErase
    BY <2>9 DEF AgentErase
  <2>10. CASE UNCHANGED vars
    BY <2>10 DEF vars
  <2> QED
    BY <2>1, <2>2, <2>3, <2>4, <2>5, <2>6, <2>7, <2>8, <2>9, <2>10
       DEF Next, Agent
<1> QED
  BY <1>1, <1>2, PTL DEF Spec

\* No started thread is lost before it is joined (pool::run, pool::checkout).
THEOREM TrackedCorrect == Spec => []Tracked
<1>1. PoolInv => Tracked
  BY DEF PoolInv, Tracked
<1> QED
  BY <1>1, PoolInvariant, PTL

\* The agent destroys the handle of a running thread only when that thread has
\* got the id of the one joined before.
THEOREM EndsCorrect == Spec => []EndsByReuseOnly
<1>1. PoolInv => EndsByReuseOnly
  BY DEF PoolInv, EndsByReuseOnly
<1> QED
  BY <1>1, PoolInvariant, PTL

\* pool::stop leaves no session thread behind.
THEOREM StopCorrect == Spec => []StoppedClean
<1>1. PoolInv => StoppedClean
  BY DEF PoolInv, StoppedClean, Unjoined, Running
<1> QED
  BY <1>1, PoolInvariant, PTL
=============================================================================
