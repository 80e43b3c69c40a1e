----------------------------- MODULE ThreadPool -----------------------------
(***************************************************************************)
(* generics::pool: the desktop server's session threads and the agent      *)
(* thread that joins those that have ended.                                *)
(*                                                                         *)
(* Everything done under pool::mutex is one action.  The agent gives the   *)
(* mutex up to wait and while it joins a thread; index entries that other  *)
(* threads change meanwhile are what can go wrong.                         *)
(***************************************************************************)
EXTENDS Naturals, FiniteSets

CONSTANTS N,         \* the number of thread ids
          MaxWakes   \* bound: spurious wakeups

ASSUME NAssumption == N \in Nat \ {0}
ASSUME WakesAssumption == MaxWakes \in Nat

Ids == 1..N
Gone == 0   \* no thread

VARIABLES alive,   \* pool::alive
          os,      \* the system's threads: "free", "run" (in the session) or
                   \* "out" (past checkout); a joined one's id is free again
          index,   \* pool::index: the ids it has an entry for
          state,   \* item::state of each entry
          joinable,\* the entries whose guest is a started, unjoined thread
          agent,   \* the agent: "head", "wait", "scan", "join", "relock",
                   \* "exit", or "terminate" for std::terminate
          cursor,  \* the entry the scan is at
          reborn,  \* history: its id was given to a new thread before it
                   \* was erased
          stopper, \* the thread in stop(): "idle", "join" or "done"
          wakes    \* spurious wakeups so far

vars == <<alive, os, index, state, joinable, agent, cursor, reborn, stopper, wakes>>

Unjoined(i) == os[i] \in {"run", "out"}

Init == /\ alive = TRUE
        /\ os = [i \in Ids |-> "free"]
        /\ index = {}
        /\ state = [i \in Ids |-> FALSE]
        /\ joinable = {}
        /\ agent = "head"
        /\ cursor = 1
        /\ reborn = FALSE
        /\ stopper = "idle"
        /\ wakes = 0

\* synch.notify_one: lost unless the agent is waiting.
Notify == agent' = IF agent = "wait" THEN "scan" ELSE agent

-----------------------------------------------------------------------------
\* Mutant: the thread is started and not kept.
Run_Forgotten(i) ==
    /\ alive
    /\ os[i] = "free"
    /\ os' = [os EXCEPT ![i] = "run"]
    /\ UNCHANGED <<alive, index, state, joinable, agent, cursor, reborn, stopper, wakes>>

\* pool::run starts a thread and keeps it in the index.
Run(i) ==
    /\ alive
    /\ os[i] = "free"
    /\ os' = [os EXCEPT ![i] = "run"]
    /\ index' = index \cup {i}
    /\ state' = [state EXCEPT ![i] = TRUE]
    /\ joinable' = joinable \cup {i}
    /\ reborn' = (reborn \/ (agent = "relock" /\ i = cursor))
    /\ UNCHANGED <<alive, agent, cursor, stopper, wakes>>

\* The session ends and checks out; the thread needs nothing more.
Checkout(i) ==
    /\ os[i] = "run"
    /\ os' = [os EXCEPT ![i] = "out"]
    /\ index' = index \cup {i}
    /\ state' = [state EXCEPT ![i] = FALSE]
    /\ Notify
    /\ UNCHANGED <<alive, joinable, cursor, reborn, stopper, wakes>>

\* Mutant: stop does not wake the agent.
StopBegin_Silent ==
    /\ stopper = "idle"
    /\ alive' = FALSE
    /\ stopper' = "join"
    /\ UNCHANGED <<os, index, state, joinable, agent, cursor, reborn, wakes>>

StopBegin ==
    /\ stopper = "idle"
    /\ alive' = FALSE
    /\ Notify
    /\ stopper' = "join"
    /\ UNCHANGED <<os, index, state, joinable, cursor, reborn, wakes>>

StopJoin ==
    /\ stopper = "join"
    /\ agent = "exit"
    /\ stopper' = "done"
    /\ UNCHANGED <<alive, os, index, state, joinable, agent, cursor, reborn, wakes>>

-----------------------------------------------------------------------------
(* The agent.                                                               *)

\* Mutant: the agent ends as soon as the pool stops.
AgentHead_NoDrain ==
    /\ agent = "head"
    /\ agent' = IF alive THEN "wait" ELSE "exit"
    /\ cursor' = 1
    /\ UNCHANGED <<alive, os, index, state, joinable, reborn, stopper, wakes>>

\* The head of the outer loop: wait without looking at the index first.
AgentHead ==
    /\ agent = "head"
    /\ agent' = IF alive THEN "wait" ELSE IF index # {} THEN "scan" ELSE "exit"
    /\ cursor' = 1
    /\ UNCHANGED <<alive, os, index, state, joinable, reborn, stopper, wakes>>

AgentSpurious ==
    /\ agent = "wait"
    /\ wakes < MaxWakes
    /\ wakes' = wakes + 1
    /\ agent' = "scan"
    /\ UNCHANGED <<alive, os, index, state, joinable, cursor, reborn, stopper>>

\* The entries the scan still has to clear, from its place on.
Due == {i \in index : i >= cursor /\ (~state[i] \/ ~alive)}

\* Mutant: the thread of an ended session is taken for joined.
AgentScan_NoJoin ==
    /\ agent = "scan"
    /\ \/ /\ Due = {}
          /\ agent' = "head"
          /\ UNCHANGED cursor
       \/ \E i \in Due :
          /\ \A j \in Due : i <= j
          /\ cursor' = i
          /\ agent' = IF state[i] THEN "join" ELSE "relock"
    /\ UNCHANGED <<alive, os, index, state, joinable, reborn, stopper, wakes>>

\* The scan goes on to the next entry to clear; its thread is joined without
\* the mutex.
AgentScan ==
    /\ agent = "scan"
    /\ \/ /\ Due = {}
          /\ agent' = "head"
          /\ UNCHANGED cursor
       \/ \E i \in Due :
          /\ \A j \in Due : i <= j
          /\ cursor' = i
          /\ agent' = IF i \in joinable THEN "join" ELSE "relock"
    /\ UNCHANGED <<alive, os, index, state, joinable, reborn, stopper, wakes>>

\* guest.join() returns and leaves the guest empty; the system has the id back
\* and may give it to a new thread.
AgentJoin ==
    /\ agent = "join"
    /\ os[cursor] = "out"
    /\ os' = [os EXCEPT ![cursor] = "free"]
    /\ joinable' = joinable \ {cursor}
    /\ agent' = "relock"
    /\ UNCHANGED <<alive, index, state, cursor, reborn, stopper, wakes>>

\* Mutant: the loop advances the iterator that erase returned.
AgentErase_Skip ==
    /\ agent = "relock"
    /\ agent' = IF cursor \in joinable THEN "terminate" ELSE "scan"
    /\ index' = index \ {cursor}
    /\ joinable' = joinable \ {cursor}
    /\ cursor' = cursor + 2
    /\ UNCHANGED <<alive, os, state, reborn, stopper, wakes>>

\* index.erase(it): destroying a guest that is joinable ends the process.
AgentErase ==
    /\ agent = "relock"
    /\ agent' = IF cursor \in joinable THEN "terminate" ELSE "scan"
    /\ index' = index \ {cursor}
    /\ joinable' = joinable \ {cursor}
    /\ cursor' = cursor + 1
    /\ UNCHANGED <<alive, os, state, reborn, stopper, wakes>>

Agent == AgentHead \/ AgentScan \/ AgentJoin \/ AgentErase

-----------------------------------------------------------------------------
Running == agent # "terminate"

Next == /\ Running
        /\ \/ \E i \in Ids : Run(i) \/ Checkout(i)
           \/ StopBegin \/ StopJoin
           \/ Agent \/ AgentSpurious

\* The agent and the thread in stop run on.  A session may last for ever.
Fairness == WF_vars(Running /\ Agent) /\ WF_vars(Running /\ StopJoin)

Spec == Init /\ [][Next]_vars /\ Fairness

-----------------------------------------------------------------------------
TypeOK ==
    /\ alive \in BOOLEAN
    /\ os \in [Ids -> {"free", "run", "out"}]
    /\ index \subseteq Ids
    /\ state \in [Ids -> BOOLEAN]
    /\ joinable \subseteq Ids
    /\ agent \in {"head", "wait", "scan", "join", "relock", "exit", "terminate"}
    /\ cursor \in 1..N + 1
    /\ reborn \in BOOLEAN
    /\ stopper \in {"idle", "join", "done"}
    /\ wakes \in 0..MaxWakes

\* Every thread that was started and not joined is in the index, ready to be
\* joined, until the agent gets to it; so is one that got the id of a thread
\* whose entry was not erased yet.
Tracked == Running => \A i \in Ids : Unjoined(i) => i \in index /\ i \in joinable

\* "Users can disconnect from the session and reconnect later": a session that
\* ends while another one starts never ends the process (std::terminate).
NeverTerminates == agent # "terminate"

\* Whatever starts and ends while the agent has given the mutex up, the entry
\* it erases afterwards holds no thread, unless a new one has got the very id.
EndsByReuseOnly == agent = "terminate" => reborn

\* When stop() returns no session thread is left running.
StoppedClean == stopper = "done" => \A i \in Ids : ~Unjoined(i)

\* stop() returns once every session has ended (or the process has).
StopReturns == (stopper = "join" /\ [](\A i \in Ids : os[i] # "run"))
                  ~> (stopper = "done" \/ agent = "terminate")
=============================================================================
