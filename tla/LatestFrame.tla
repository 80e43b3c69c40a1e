----------------------------- MODULE LatestFrame -----------------------------
(***************************************************************************)
(* What a user attached to the desktop may rely on: the picture on the     *)
(* screen only moves forward through the pictures the desktop drew, it may *)
(* skip some of them, and while the connection is up it catches up with    *)
(* the last one.                                                           *)
(***************************************************************************)
EXTENDS Naturals

CONSTANT MaxScene        \* bound on the number of pictures drawn

VARIABLES
    scene,               \* number of the last picture drawn
    shown,               \* number of the picture on the screen
    open                 \* the connection is up and the gate is running

vars == <<scene, shown, open>>

Init == scene = 0 /\ shown = 0 /\ open = TRUE

\* The desktop changes its picture.
Draw == /\ scene < MaxScene
        /\ scene' = scene + 1
        /\ UNCHANGED <<shown, open>>

\* A later picture reaches the screen; those in between are skipped.
Show == /\ shown' \in (shown + 1)..scene
        /\ UNCHANGED <<scene, open>>

\* The user leaves. What is already under way may still be shown.
Close == open /\ open' = FALSE /\ UNCHANGED <<scene, shown>>

Next == Draw \/ Show \/ Close

\* What must never go wrong, and what must go on happening besides.
Safety == Init /\ [][Next]_vars

Spec == Safety /\ WF_vars(open /\ Show)
==============================================================================
