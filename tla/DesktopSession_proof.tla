----------------------- MODULE DesktopSession_proof -----------------------
(***************************************************************************)
(* Safety of the desktop session, for every set of sessions and windows.   *)
(* TypeOK and IntruderScheduled are inductive (IntruderScheduled with      *)
(* TypeOK).  AdminIsConnected needs AdminInv: whoever may become the       *)
(* administrator also resets it when it stops.  OwnersAlive needs, on top, *)
(* that the administrator's gear and every focused gear live.              *)
(***************************************************************************)
EXTENDS DesktopSession, TLAPS

\* The next-state relation, one disjunct per action.
LEMMA NextCases ==
  ASSUME Next
  PROVE  \/ MeetFails \/ Broadcast \/ Join \/ ShutdownCommand
         \/ \E c \in Clients : \/ Accept(c) \/ InitFails(c) \/ Invite(c)
                               \/ GearJoin(c) \/ GearDies(c) \/ Leave(c)
                               \/ Tail(c) \/ Drop(c) \/ ShutdownByGear(c)
         \/ \E c \in Clients, w \in Windows :
               \/ FocusOn(c, w) \/ FocusOff(c, w) \/ Refocus(c, w)
               \/ Lock(c, w) \/ Unlock(c, w)
BY DEF Next, Server, Job, Session, User

\* The variables keep their types.
THEOREM TypeCorrect == Spec => []TypeOK
<1> USE NestedAssumption, NoneAssumption DEF TypeOK, rights, locks
<1>1. Init => TypeOK
  BY DEF Init
<1>2. TypeOK /\ [Next]_vars => TypeOK'
  <2> SUFFICES ASSUME TypeOK, [Next]_vars PROVE TypeOK'
    OBVIOUS
  <2>1. CASE MeetFails \/ Broadcast \/ Join \/ ShutdownCommand
    BY <2>1 DEF MeetFails, Broadcast, Join, ShutdownCommand
  <2>2. ASSUME NEW c \in Clients,
               Accept(c) \/ InitFails(c) \/ Invite(c) \/ GearJoin(c)
        PROVE  TypeOK'
    BY <2>2 DEF Accept, InitFails, Invite, GearJoin
  <2>3. ASSUME NEW c \in Clients, GearDies(c) \/ Drop(c)
        PROVE  TypeOK'
    <3>1. gear' \in [Clients -> {"none", "live", "dead"}]
      BY <2>3 DEF GearDies, Drop, Bury
    <3>2. owners' \in [Windows -> SUBSET Clients]
      BY <2>3 DEF GearDies, Drop, Bury
    <3>3. focus' \in [Windows -> SUBSET Clients]
      BY <2>3 DEF GearDies, Drop, Bury
    <3>4. refocus' \subseteq Clients \X Windows
      BY <2>3 DEF GearDies, Drop, Bury
    <3> QED
      BY <2>3, <3>1, <3>2, <3>3, <3>4 DEF GearDies, Drop
  <2>4. ASSUME NEW c \in Clients, Leave(c) \/ Tail(c) \/ ShutdownByGear(c)
        PROVE  TypeOK'
    BY <2>4, ZenonT(60) DEF Leave, Tail, ShutdownByGear
  <2>5. ASSUME NEW c \in Clients, NEW w \in Windows,
               FocusOn(c, w) \/ FocusOff(c, w) \/ Refocus(c, w)
        PROVE  TypeOK'
    BY <2>5 DEF FocusOn, FocusOff, Refocus
  <2>6. ASSUME NEW c \in Clients, NEW w \in Windows, Lock(c, w) \/ Unlock(c, w)
        PROVE  TypeOK'
    BY <2>6 DEF Lock, Unlock
  <2>7. CASE UNCHANGED vars
    BY <2>7 DEF vars
  <2> QED
    BY <2>1, <2>2, <2>3, <2>4, <2>5, <2>6, <2>7, NextCases
<1> QED
  BY <1>1, <1>2, PTL DEF Spec

-----------------------------------------------------------------------------
\* Whoever waits for the administrator's rights or holds them is connected and
\* gives them back when it stops.
AdminInv == /\ admin # None => admin \in demote
            /\ onerun \subseteq demote
            /\ \A c \in demote : sess[c] = "run"

\* The administrator loses all privileges when its session stops
\* (gate::launch, the upon::stopped handler of hall::invite).
THEOREM AdminCorrect == Spec => []AdminIsConnected
<1> USE NestedAssumption, NoneAssumption DEF TypeOK, AdminInv, rights, locks
<1>1. Init => AdminInv
  BY DEF Init
<1>2. TypeOK /\ AdminInv /\ [Next]_vars => AdminInv'
  <2> SUFFICES ASSUME TypeOK, AdminInv, [Next]_vars PROVE AdminInv'
    OBVIOUS
  <2>1. CASE MeetFails \/ Broadcast \/ Join \/ ShutdownCommand
    BY <2>1 DEF MeetFails, Broadcast, Join, ShutdownCommand
  <2>2. ASSUME NEW c \in Clients,
               Accept(c) \/ InitFails(c) \/ Invite(c) \/ GearJoin(c)
        PROVE  AdminInv'
    BY <2>2 DEF Accept, InitFails, Invite, GearJoin
  <2>3. ASSUME NEW c \in Clients, GearDies(c) \/ Drop(c)
        PROVE  AdminInv'
    BY <2>3 DEF GearDies, Drop
  <2>4. ASSUME NEW c \in Clients, Leave(c)
        PROVE  AdminInv'
    BY <2>4 DEF Leave
  <2>5. ASSUME NEW c \in Clients, Tail(c) \/ ShutdownByGear(c)
        PROVE  AdminInv'
    BY <2>5 DEF Tail, ShutdownByGear
  <2>6. ASSUME NEW c \in Clients, NEW w \in Windows,
               \/ FocusOn(c, w) \/ FocusOff(c, w) \/ Refocus(c, w)
               \/ Lock(c, w) \/ Unlock(c, w)
        PROVE  AdminInv'
    BY <2>6 DEF FocusOn, FocusOff, Refocus, Lock, Unlock
  <2>7. CASE UNCHANGED vars
    BY <2>7 DEF vars
  <2> QED
    BY <2>1, <2>2, <2>3, <2>4, <2>5, <2>6, <2>7, NextCases
<1>3. AdminInv => AdminIsConnected
  BY DEF AdminIsConnected
<1>4. Spec => []AdminInv
  BY <1>1, <1>2, TypeCorrect, PTL DEF Spec
<1> QED
  BY <1>3, <1>4, PTL

-----------------------------------------------------------------------------
\* Only living gears hold focus or rights, and only between a session's first
\* input event and the end of its thread.
OwnersInv == /\ OwnersAlive
             /\ \A w \in Windows : \A c \in focus[w] : gear[c] = "live"
             /\ admin # None /\ admin \notin Nested => gear[admin] = "live"
             /\ \A c \in Clients : sess[c] \in {"none", "recv"} => gear[c] = "none"

\* Every owner of a window lock whose gear no outer desktop takes away is there
\* to unlock it (track_accesslock).
THEOREM OwnersCorrect == Spec => []OwnersAlive
<1> USE NestedAssumption, NoneAssumption
    DEF TypeOK, AdminInv, OwnersInv, OwnersAlive, rights, locks
<1>1. Init => AdminInv /\ OwnersInv
  BY DEF Init
<1>2. ASSUME TypeOK, AdminInv, OwnersInv, [Next]_vars
      PROVE  AdminInv' /\ OwnersInv'
  <2> USE <1>2
  <2>1. CASE MeetFails \/ Broadcast \/ Join \/ ShutdownCommand
    BY <2>1 DEF MeetFails, Broadcast, Join, ShutdownCommand
  <2>2. ASSUME NEW c \in Clients,
               Accept(c) \/ InitFails(c) \/ Invite(c) \/ GearJoin(c)
        PROVE  AdminInv' /\ OwnersInv'
    BY <2>2 DEF Accept, InitFails, Invite, GearJoin
  <2>3. ASSUME NEW c \in Clients, Drop(c)
        PROVE  AdminInv' /\ OwnersInv'
    <3>1. c \notin demote /\ admin # c
      BY <2>3 DEF Drop
    <3>2. OwnersAlive'
      BY <2>3 DEF Drop, Bury
    <3>3. \A w \in Windows : \A d \in focus'[w] : gear'[d] = "live"
      BY <2>3 DEF Drop, Bury
    <3>4. admin' # None /\ admin' \notin Nested => gear'[admin'] = "live"
      BY <2>3, <3>1 DEF Drop, Bury
    <3>5. \A d \in Clients : sess'[d] \in {"none", "recv"} => gear'[d] = "none"
      BY <2>3 DEF Drop, Bury
    <3>6. AdminInv'
      BY <2>3, <3>1 DEF Drop
    <3> QED
      BY <3>2, <3>3, <3>4, <3>5, <3>6
  <2>4. ASSUME NEW c \in Clients, Leave(c)
        PROVE  AdminInv' /\ OwnersInv'
    BY <2>4 DEF Leave
  <2>5. ASSUME NEW c \in Clients, Tail(c) \/ ShutdownByGear(c)
        PROVE  AdminInv' /\ OwnersInv'
    BY <2>5 DEF Tail, ShutdownByGear
  <2>6. ASSUME NEW c \in Clients, NEW w \in Windows,
               FocusOn(c, w) \/ FocusOff(c, w) \/ Refocus(c, w)
        PROVE  AdminInv' /\ OwnersInv'
    BY <2>6 DEF FocusOn, FocusOff, Refocus, Acting
  <2>7. ASSUME NEW c \in Clients, NEW w \in Windows, Lock(c, w) \/ Unlock(c, w)
        PROVE  AdminInv' /\ OwnersInv'
    BY <2>7 DEF Lock, Unlock
  <2>8. ASSUME NEW c \in Clients, GearDies(c)
        PROVE  AdminInv' /\ OwnersInv'
    <3>1. c \in Nested /\ sess[c] = "run" /\ sess' = sess /\ admin' = admin
      BY <2>8 DEF GearDies, Acting
    <3>2. OwnersAlive'
      BY <2>8 DEF GearDies, Bury
    <3>3. \A w \in Windows : \A d \in focus'[w] : gear'[d] = "live"
      BY <2>8 DEF GearDies, Bury
    <3>4. admin' # None /\ admin' \notin Nested => gear'[admin'] = "live"
      BY <2>8, <3>1 DEF GearDies, Bury
    <3>5. \A d \in Clients : sess'[d] \in {"none", "recv"} => gear'[d] = "none"
      BY <2>8, <3>1 DEF GearDies, Bury
    <3>6. AdminInv'
      BY <2>8, <3>1 DEF GearDies
    <3> QED
      BY <3>2, <3>3, <3>4, <3>5, <3>6
  <2>9. CASE UNCHANGED vars
    BY <2>9 DEF vars
  <2> QED
    BY <2>1, <2>2, <2>3, <2>4, <2>5, <2>6, <2>7, <2>8, <2>9, NextCases
<1>3. TypeOK /\ AdminInv /\ OwnersInv /\ [Next]_vars => (AdminInv /\ OwnersInv)'
  BY <1>2
<1>4. Spec => [](AdminInv /\ OwnersInv)
  BY <1>1, <1>3, TypeCorrect, PTL DEF Spec
<1>5. OwnersInv => OwnersAlive
  OBVIOUS
<1> QED
  BY <1>4, <1>5, PTL

-----------------------------------------------------------------------------
\* A non-owner's focus on a locked window always has its refocus job queued.
THEOREM IntruderCorrect == Spec => []IntruderScheduled
<1> USE NestedAssumption, NoneAssumption
    DEF TypeOK, IntruderScheduled, MayTouch, Locked, rights, locks
<1>1. Init => IntruderScheduled
  BY DEF Init
<1>2. TypeOK /\ IntruderScheduled /\ [Next]_vars => IntruderScheduled'
  <2> SUFFICES ASSUME TypeOK, IntruderScheduled, [Next]_vars
               PROVE  IntruderScheduled'
    OBVIOUS
  <2>1. CASE MeetFails \/ Broadcast \/ Join \/ ShutdownCommand
    BY <2>1 DEF MeetFails, Broadcast, Join, ShutdownCommand
  <2>2. ASSUME NEW c \in Clients,
               \/ Accept(c) \/ InitFails(c) \/ Invite(c) \/ GearJoin(c)
               \/ Leave(c) \/ Tail(c) \/ ShutdownByGear(c)
        PROVE  IntruderScheduled'
    BY <2>2 DEF Accept, InitFails, Invite, GearJoin, Leave, Tail, ShutdownByGear
  <2>3. ASSUME NEW c \in Clients, GearDies(c) \/ Drop(c)
        PROVE  IntruderScheduled'
    <3> SUFFICES ASSUME NEW w \in Windows, NEW d \in focus'[w]
                 PROVE  (MayTouch(d, w) \/ <<d, w>> \in refocus)'
      OBVIOUS
    <3>1. Bury(c)
      BY <2>3 DEF GearDies, Drop
    <3>2. d \in focus[w] /\ d # c
      BY <3>1 DEF Bury
    <3>3. <<d, w>> \in refocus => <<d, w>> \in refocus'
      BY <3>1, <3>2 DEF Bury
    <3>4. MayTouch(d, w) => MayTouch(d, w)'
      BY <3>1, <3>2 DEF Bury
    <3> QED
      BY <3>2, <3>3, <3>4
  <2>4. ASSUME NEW c \in Clients, NEW w \in Windows,
               FocusOn(c, w) \/ FocusOff(c, w) \/ Refocus(c, w)
        PROVE  IntruderScheduled'
    <3> SUFFICES ASSUME NEW v \in Windows, NEW d \in focus'[v]
                 PROVE  (MayTouch(d, v) \/ <<d, v>> \in refocus)'
      OBVIOUS
    <3>1. owners' = owners
      BY <2>4 DEF FocusOn, FocusOff, Refocus
    <3>2. CASE FocusOn(c, w) /\ v = w /\ d = c
      BY <3>1, <3>2 DEF FocusOn
    <3>3. CASE FocusOn(c, w) /\ ~(v = w /\ d = c)
      <4>1. d \in focus[v] /\ refocus \subseteq refocus'
        BY <3>3 DEF FocusOn
      <4> QED
        BY <3>1, <4>1
    <3>4. CASE FocusOff(c, w)
      <4>1. d \in focus[v] /\ refocus' = refocus
        BY <3>4 DEF FocusOff
      <4> QED
        BY <3>1, <4>1
    <3>5. CASE Refocus(c, w)
      <4>1. d \in focus[v] /\ <<d, v>> # <<c, w>>
        BY <3>5 DEF Refocus
      <4>2. <<d, v>> \in refocus => <<d, v>> \in refocus'
        BY <3>5, <4>1 DEF Refocus
      <4> QED
        BY <3>1, <4>1, <4>2
    <3> QED
      BY <2>4, <3>2, <3>3, <3>4, <3>5
  <2>5. ASSUME NEW c \in Clients, NEW w \in Windows, Lock(c, w) \/ Unlock(c, w)
        PROVE  IntruderScheduled'
    <3> SUFFICES ASSUME NEW v \in Windows, NEW d \in focus'[v]
                 PROVE  (MayTouch(d, v) \/ <<d, v>> \in refocus)'
      OBVIOUS
    <3>1. d \in focus[v] /\ refocus' = refocus
      BY <2>5 DEF Lock, Unlock
    <3>2. CASE v # w
      <4>1. owners'[v] = owners[v]
        BY <2>5, <3>2 DEF Lock, Unlock
      <4> QED
        BY <3>1, <4>1
    <3>3. CASE v = w
      <4>1. owners'[w] = {} \/ focus[w] \subseteq owners'[w]
        BY <2>5 DEF Lock, Unlock
      <4> QED
        BY <3>1, <3>3, <4>1
    <3> QED
      BY <3>2, <3>3
  <2>6. CASE UNCHANGED vars
    BY <2>6 DEF vars
  <2> QED
    BY <2>1, <2>2, <2>3, <2>4, <2>5, <2>6, NextCases
<1> QED
  BY <1>1, <1>2, TypeCorrect, PTL DEF Spec
=============================================================================
