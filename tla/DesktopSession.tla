--------------------------- MODULE DesktopSession ---------------------------
(***************************************************************************)
(* The desktop server: the thread that accepts users and shuts the session *)
(* down (vtm.cpp), one thread per user session (hall::invite, gate::launch)*)
(* and the hall's rights: the administrator's gear and the window locks.   *)
(*                                                                         *)
(* Everything a session does under the UI lock is one action.  The steps   *)
(* between two locked regions (waiting for the init packet, the reading    *)
(* loop, the list updates after gate::launch has unlocked) are actions of  *)
(* their own, so every order of the session threads and of the server      *)
(* thread is explored.                                                     *)
(*                                                                         *)
(* A client stands for one session with at most one gear (input device);   *)
(* a user who comes back is another client.  Whether a user has a          *)
(* fullscreen window is left out: it only makes shutdown::command refuse   *)
(* more often, and a refused command changes nothing.                      *)
(***************************************************************************)
EXTENDS FiniteSets

CONSTANTS Clients,   \* the user sessions that may be opened
          Windows,   \* the desktop windows
          Nested,    \* the clients that are an applet of another desktop
          None       \* an empty std::optional

ASSUME NestedAssumption == Nested \subseteq Clients
ASSUME NoneAssumption == None \notin Clients

VARIABLES online,    \* hall: server_online
          main,      \* the server thread: "meet", "quit", "join" or "exit"
          sess,      \* each session thread
          alive,     \* gate::alive: sysclose has not been sent
          users,     \* hall::users and usrs_list
          admin,     \* hall::admin_gear_id
          onerun,    \* gates waiting for their first gear to make it admin
          demote,    \* gates that reset the admin when they stop
          gear,      \* each client's gear: "none", "live" or "dead"
          focus,     \* the gears focused on each window
          owners,    \* window_t::accesslock_gears
          refocus    \* enqueued jobs that take the focus from a non-owner

rights == <<admin, onerun, demote>>
locks  == <<focus, owners, refocus>>
vars   == <<online, main, sess, alive, users, rights, gear, locks>>

Locked(w)     == owners[w] # {}
MayTouch(c,w) == Locked(w) => c \in owners[w]
WindowsOpen   == main \in {"meet", "quit"}
Acting(c)     == sess[c] = "run" /\ gear[c] = "live"

Init == /\ online = TRUE
        /\ main = "meet"
        /\ sess = [c \in Clients |-> "none"]
        /\ alive = [c \in Clients |-> FALSE]
        /\ users = {}
        /\ admin = None
        /\ onerun = {}
        /\ demote = {}
        /\ gear = [c \in Clients |-> "none"]
        /\ focus = [w \in Windows |-> {}]
        /\ owners = [w \in Windows |-> {}]
        /\ refocus = {}

-----------------------------------------------------------------------------
(* The server thread.                                                       *)

\* server->meet() returns a user and the pool starts its session thread.
Accept(c) ==
    /\ main = "meet"
    /\ online
    /\ sess[c] = "none"
    /\ sess' = [sess EXCEPT ![c] = "recv"]
    /\ UNCHANGED <<online, main, alive, users, rights, gear, locks>>

\* The listening endpoint is closed: meet() returns nothing.
MeetFails ==
    /\ main = "meet"
    /\ ~online
    /\ main' = "quit"
    /\ UNCHANGED <<online, sess, alive, users, rights, gear, locks>>

\* Mutant: the windows are closed and the gates are not told.
Broadcast_WindowsOnly ==
    /\ main = "quit"
    /\ main' = "join"
    /\ focus' = [w \in Windows |-> {}]
    /\ owners' = [w \in Windows |-> {}]
    /\ refocus' = {}
    /\ UNCHANGED <<online, sess, alive, users, rights, gear>>

\* hall::stop signals conio::quit to whoever listens now: every window goes
\* and every gate says sysclose.
Broadcast ==
    /\ main = "quit"
    /\ main' = "join"
    /\ alive' = [c \in Clients |-> FALSE]
    /\ focus' = [w \in Windows |-> {}]
    /\ owners' = [w \in Windows |-> {}]
    /\ refocus' = {}
    /\ UNCHANGED <<online, sess, users, rights, gear>>

\* async.stop joins every session thread; then the server ends.
Join ==
    /\ main = "join"
    /\ \A c \in Clients : sess[c] \in {"none", "done"}
    /\ main' = "exit"
    /\ UNCHANGED <<online, sess, alive, users, rights, gear, locks>>
-----------------------------------------------------------------------------
(* A session thread.                                                        *)

\* The init packet never comes: the peer is gone and the thread ends.
InitFails(c) ==
    /\ sess[c] = "recv"
    /\ sess' = [sess EXCEPT ![c] = "done"]
    /\ UNCHANGED <<online, main, alive, users, rights, gear, locks>>

\* hall::invite up to lock.unlock: the gate is made, listed and listens to
\* conio::quit; without an administrator it waits for its gear to be one.
\* The assignment admin_gear_id = {} there leaves the optional empty.
Invite(c) ==
    /\ sess[c] = "recv"
    /\ sess' = [sess EXCEPT ![c] = "run"]
    /\ alive' = [alive EXCEPT ![c] = TRUE]
    /\ users' = users \cup {c}
    /\ onerun' = IF admin = None THEN onerun \cup {c} ELSE onerun
    /\ demote' = IF admin = None THEN demote \cup {c} ELSE demote
    /\ UNCHANGED <<online, main, admin, gear, locks>>

\* The first input event of a client makes its gear (gate::forward).
GearJoin(c) ==
    /\ sess[c] = "run"
    /\ gear[c] = "none"
    /\ gear' = [gear EXCEPT ![c] = "live"]
    /\ admin' = IF c \in onerun THEN c ELSE admin
    /\ onerun' = onerun \ {c}
    /\ UNCHANGED <<online, main, sess, alive, users, demote, locks>>

\* A gear dies: input::events::die reaches the windows it owned or had focus.
Bury(c) ==
    /\ gear' = [gear EXCEPT ![c] = IF @ = "live" THEN "dead" ELSE @]
    /\ owners' = [w \in Windows |-> owners[w] \ {c}]
    /\ focus' = [w \in Windows |-> focus[w] \ {c}]
    /\ refocus' = {r \in refocus : r[1] # c}

\* The outer desktop reports the death of the gear; the gate stays.
GearDies(c) ==
    /\ c \in Nested
    /\ Acting(c)
    /\ Bury(c)
    /\ UNCHANGED <<online, main, sess, alive, users, rights>>

\* Mutant: the gate does not announce that it stopped.
Leave_KeepAdmin(c) ==
    /\ sess[c] = "run"
    /\ sess' = [sess EXCEPT ![c] = "tail"]
    /\ alive' = [alive EXCEPT ![c] = FALSE]
    /\ onerun' = onerun \ {c}
    /\ demote' = demote \ {c}
    /\ UNCHANGED <<online, main, users, admin, gear, locks>>

\* The client is gone, the reading loop ends and gate::launch signals
\* upon::stopped, disconnects and drops every subscription.
Leave(c) ==
    /\ sess[c] = "run"
    /\ sess' = [sess EXCEPT ![c] = "tail"]
    /\ alive' = [alive EXCEPT ![c] = FALSE]
    /\ admin' = IF c \in demote THEN None ELSE admin
    /\ onerun' = onerun \ {c}
    /\ demote' = demote \ {c}
    /\ UNCHANGED <<online, main, users, gear, locks>>

\* The end of hall::invite, without the UI lock: the lists forget the gate.
Tail(c) ==
    /\ sess[c] = "tail"
    /\ users' = users \ {c}
    /\ sess' = [sess EXCEPT ![c] = "drop"]
    /\ UNCHANGED <<online, main, alive, rights, gear, locks>>

\* Mutant: the windows miss the death of the gear.
Drop_KeepOwners(c) ==
    /\ sess[c] = "drop"
    /\ sess' = [sess EXCEPT ![c] = "done"]
    /\ gear' = [gear EXCEPT ![c] = IF @ = "live" THEN "dead" ELSE @]
    /\ UNCHANGED <<online, main, alive, users, rights, locks>>

\* The last reference to the gate goes and its gear with it; the thread ends.
Drop(c) ==
    /\ sess[c] = "drop"
    /\ sess' = [sess EXCEPT ![c] = "done"]
    /\ Bury(c)
    /\ UNCHANGED <<online, main, alive, users, rights>>

-----------------------------------------------------------------------------
(* What the users do while the windows are open.                            *)

\* Mutant: the focus of a non-owner is let through.
FocusOn_Silent(c, w) ==
    /\ WindowsOpen
    /\ Acting(c)
    /\ focus' = [focus EXCEPT ![w] = @ \cup {c}]
    /\ UNCHANGED <<online, main, sess, alive, users, rights, gear,
                   owners, refocus>>

\* A gear takes the focus of a window (say with the keyboard or from the
\* taskbar).  For a non-owner of a locked window a job takes it back later.
FocusOn(c, w) ==
    /\ WindowsOpen
    /\ Acting(c)
    /\ focus' = [focus EXCEPT ![w] = @ \cup {c}]
    /\ refocus' = IF MayTouch(c, w) THEN refocus ELSE refocus \cup {<<c, w>>}
    /\ UNCHANGED <<online, main, sess, alive, users, rights, gear, owners>>

FocusOff(c, w) ==
    /\ WindowsOpen
    /\ Acting(c)
    /\ focus' = [focus EXCEPT ![w] = @ \ {c}]
    /\ UNCHANGED <<online, main, sess, alive, users, rights, gear,
                   owners, refocus>>

Refocus(c, w) ==
    /\ <<c, w>> \in refocus
    /\ refocus' = refocus \ {<<c, w>>}
    /\ focus' = [focus EXCEPT ![w] = @ \ {c}]
    /\ UNCHANGED <<online, main, sess, alive, users, rights, gear, owners>>

\* Mutant: the administrator is added without looking whether there is one.
Lock_AnyAdmin(c, w) ==
    /\ WindowsOpen
    /\ Acting(c)
    /\ MayTouch(c, w)
    /\ owners' = [owners EXCEPT ![w] = focus[w] \cup {admin}]
    /\ UNCHANGED <<online, main, sess, alive, users, rights, gear,
                   focus, refocus>>

\* track_accesslock(1): the focused gears own the window, and the
\* administrator's gear with them.
Lock(c, w) ==
    /\ WindowsOpen
    /\ Acting(c)
    /\ MayTouch(c, w)
    /\ owners' = [owners EXCEPT ![w] =
          focus[w] \cup (IF focus[w] # {} /\ admin # None THEN {admin} ELSE {})]
    /\ UNCHANGED <<online, main, sess, alive, users, rights, gear,
                   focus, refocus>>

\* track_accesslock(0).
Unlock(c, w) ==
    /\ WindowsOpen
    /\ Acting(c)
    /\ Locked(w)
    /\ MayTouch(c, w)
    /\ owners' = [owners EXCEPT ![w] = {}]
    /\ UNCHANGED <<online, main, sess, alive, users, rights, gear,
                   focus, refocus>>

\* shutdown::bygear: the administrator may always, the others while no window
\* is locked (closeby refuses first, the locked windows then).
ShutdownByGear(c) ==
    /\ online
    /\ Acting(c)
    /\ admin = c \/ \A w \in Windows : ~Locked(w)
    /\ online' = FALSE
    /\ UNCHANGED <<main, sess, alive, users, rights, gear, locks>>

\* shutdown::command: a signal or the log monitor's command line.
ShutdownCommand ==
    /\ online
    /\ users = {} \/ \A w \in Windows : ~Locked(w)
    /\ online' = FALSE
    /\ UNCHANGED <<main, sess, alive, users, rights, gear, locks>>

-----------------------------------------------------------------------------
Server == MeetFails \/ Broadcast \/ Join

\* What a session thread does without anybody's help.
Session(c) == \/ InitFails(c) \/ Invite(c) \/ Tail(c) \/ Drop(c)
              \/ ~alive[c] /\ Leave(c)

User(c) == \/ Accept(c) \/ GearJoin(c) \/ GearDies(c) \/ Leave(c)
           \/ ShutdownByGear(c)
           \/ \E w \in Windows : \/ FocusOn(c, w) \/ FocusOff(c, w)
                                 \/ Lock(c, w) \/ Unlock(c, w)

Job == \E c \in Clients, w \in Windows : Refocus(c, w)

Next == \/ Server \/ ShutdownCommand \/ Job
        \/ \E c \in Clients : Session(c) \/ User(c)

\* The server thread, the worker of the UI jobs and every session thread go
\* on running, and a client that is sent sysclose closes its end.
Spec == /\ Init /\ [][Next]_vars
        /\ WF_vars(Server) /\ WF_vars(Job)
        /\ \A c \in Clients : WF_vars(Session(c))

-----------------------------------------------------------------------------
TypeOK ==
    /\ online \in BOOLEAN
    /\ main \in {"meet", "quit", "join", "exit"}
    /\ sess \in [Clients -> {"none", "recv", "run", "tail", "drop", "done"}]
    /\ alive \in [Clients -> BOOLEAN]
    /\ users \subseteq Clients
    /\ admin \in Clients \cup {None}
    /\ onerun \subseteq Clients /\ demote \subseteq Clients
    /\ gear \in [Clients -> {"none", "live", "dead"}]
    /\ focus \in [Windows -> SUBSET Clients]
    /\ owners \in [Windows -> SUBSET Clients]
    /\ refocus \subseteq Clients \X Windows

\* "When disconnected, administrators lose all privileges": from the moment
\* the reading loop of its session ends, nobody holds a client's rights.
AdminIsConnected == admin # None => sess[admin] = "run"

\* A window is not left locked by users who are gone: every owner of a lock
\* has a living gear, except the gears an outer desktop takes away.
OwnersAlive == \A w \in Windows : \A c \in owners[w] \ Nested : gear[c] = "live"

\* A focus that a non-owner has on a locked window is on its way out: a job
\* that takes it back is queued.
IntruderScheduled ==
    \A w \in Windows : \A c \in focus[w] :
        MayTouch(c, w) \/ <<c, w>> \in refocus

\* Every user connected when the server shuts down is disconnected, whatever
\* the other sessions do.
ToldSessionsEnd ==
    \A c \in Clients :
        (main = "quit" /\ sess[c] \in {"run", "tail", "drop"}) ~> sess[c] = "done"

\* "Wait until all users and monitors are disconnected": hall::stop returns.
StopEnds == main = "join" ~> main = "exit"

\* "Can only be assigned once": the administrator's gear is not replaced by
\* another one while it holds the rights.
AdminAssignedOnce ==
    [][admin # None /\ admin' # None => admin' = admin]_vars
=============================================================================
