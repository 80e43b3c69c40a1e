------------------------------ MODULE FramePipe ------------------------------
(***************************************************************************)
(* The path of a picture from the desktop to an attached user:             *)
(*                                                                         *)
(*   gate::rebuild_scene --> gate::diff (cache, ready, abort) -->          *)
(*   render thread (bitmap encoder) --> pipe --> the user's reading loop   *)
(*                                                                         *)
(* Threads: whoever holds the UI lock (timer ticks, winsz handler, the     *)
(* end of gate::launch), the render thread of gate::diff, and the reader   *)
(* at the other end of the pipe.  The pipe is either the in-process pair   *)
(* of fifos ("xlink") or an OS stream ("socket").                          *)
(*                                                                         *)
(* A picture is the number of the change that made it; a frame is the      *)
(* difference between two pictures, so it records both.                    *)
(***************************************************************************)
EXTENDS Naturals, Sequences

CONSTANTS
    MaxScene,            \* bound: number of changes of the picture
    MaxOther,            \* bound: other commands queued in the pipe at a time
    Cap                  \* bound: frames an OS stream holds before a write blocks

ASSUME BoundsAssumption == MaxScene \in Nat /\ MaxOther \in Nat /\ Cap \in Nat \ {0}

VARIABLES
    \* gate, under the UI lock
    uipc,                \* what the holder of the UI lock is doing
    scene,               \* the desktop as it would be drawn now
    ruined,              \* base::ruined: the desktop changed since it was drawn
    canvas,              \* gate::canvas: the picture drawn last
    yield,               \* gate::yield: diff::send took the last picture
    \* gate::diff
    mutex,               \* owner of diff::mutex
    cache, ready, abort, alive,
    \* render thread
    rpc,                 \* its program counter
    image,               \* bitmap::image, the picture the encoder sent last
    block,               \* the encoded frame that is about to be sent
    \* pipe
    isbusy,              \* pipe::isbusy
    store,               \* frames in the pipe
    other,               \* number of other commands in the pipe
    linked,              \* the pipe is not shut
    \* reader
    inbox,               \* frames read and not yet applied
    screen,              \* the picture the user sees
    transport            \* what his pipe is, "xlink" or "socket"

uivars   == <<uipc, scene, ruined, canvas, yield>>
diffvars == <<mutex, cache, ready, abort, alive>>
rendvars == <<rpc, image, block>>
pipevars == <<isbusy, store, other, linked>>
readvars == <<inbox, screen, transport>>
vars == <<uivars, diffvars, rendvars, pipevars, readvars>>

Scene == 0..MaxScene
Frame == [from : Scene, to : Scene]
NoFrame == [from |-> 0, to |-> 0]

UiSteps     == {"idle", "send", "try", "spin", "commit",
                "stop", "unbusy", "join", "stopped"}
RenderSteps == {"lock", "check", "sleep", "encode",
                "busy", "send", "write", "await", "ended"}

Typed ==
    /\ uipc \in UiSteps /\ scene \in Scene /\ canvas \in Scene
    /\ ruined \in BOOLEAN /\ yield \in BOOLEAN
    /\ mutex \in {"none", "ui", "render"} /\ cache \in Scene
    /\ ready \in BOOLEAN /\ abort \in BOOLEAN /\ alive \in BOOLEAN
    /\ rpc \in RenderSteps /\ image \in Scene /\ block \in Frame
    /\ isbusy \in BOOLEAN /\ store \in Seq(Frame) /\ other \in Nat
    /\ linked \in BOOLEAN /\ inbox \in Seq(Frame) /\ screen \in Scene
    /\ transport \in {"xlink", "socket"}

\* diff::mutex is held while a picture is committed and while one is encoded.
Owned ==
    /\ mutex = "ui" <=> uipc = "commit"
    /\ mutex = "render" <=> rpc \in {"check", "encode"}

\* The variables keep their types, and diff::mutex is owned by the thread that
\* is at work on the cache: the renderer gives it up to send what it encoded.
TypeOK == Typed /\ Owned

\* Nothing has been drawn: the gate's first tick finds it ruined.
Init ==
    /\ uipc = "idle" /\ scene = 0 /\ ruined = TRUE /\ canvas = 0 /\ yield = FALSE
    /\ mutex = "none" /\ cache = 0 /\ ready = FALSE /\ abort = FALSE /\ alive = TRUE
    /\ rpc = "lock" /\ image = 0 /\ block = NoFrame
    /\ isbusy = FALSE /\ store = <<>> /\ other = 0 /\ linked = TRUE
    /\ inbox = <<>> /\ screen = 0
    /\ transport \in {"xlink", "socket"}

Room == transport = "xlink" \/ Len(store) < Cap

-----------------------------------------------------------------------------
(* The UI lock holder *)

\* Objects change or just ask to be redrawn (base::deface), under the UI lock.
Deface ==
    /\ uipc = "idle"
    /\ ruined' = TRUE
    /\ scene' \in {scene} \cup {s \in Scene : s = scene + 1}
    /\ UNCHANGED <<uipc, canvas, yield, diffvars, rendvars, pipevars, readvars>>

\* A gate's other traffic (tooltips, headers, images) shares the pipe.
SendOther ==
    /\ uipc = "idle" /\ linked /\ Room /\ other < MaxOther
    /\ other' = other + 1
    /\ UNCHANGED <<uivars, diffvars, rendvars, isbusy, store, linked, readvars>>

\* Mutant: a picture that was not taken is never retried.
RebuildScene_NoRetry ==
    /\ uipc = "idle" /\ ruined
    /\ canvas' = scene /\ uipc' = "send"
    /\ UNCHANGED <<scene, ruined, yield, diffvars, rendvars, pipevars, readvars>>

\* e2::timer::any: redraw when ruined, otherwise retry a picture that was not taken.
RebuildScene ==
    /\ uipc = "idle"
    /\ ruined \/ ~yield
    /\ canvas' = IF ruined THEN scene ELSE canvas
    /\ uipc' = "send"
    /\ UNCHANGED <<scene, ruined, yield, diffvars, rendvars, pipevars, readvars>>

\* e2::conio::winsz: the picture changes size, the frame being encoded is
\* cancelled and the scene is rebuilt at once.
Winsz ==
    /\ uipc = "idle" /\ scene < MaxScene
    /\ scene' = scene + 1 /\ ruined' = TRUE
    /\ abort' = TRUE
    /\ canvas' = scene'
    /\ uipc' = "send"
    /\ UNCHANGED <<yield, mutex, cache, ready, alive, rendvars, pipevars, readvars>>

\* diff::send: after a cancel it spins on the mutex, otherwise it tries once.
DiffSend ==
    /\ uipc = "send"
    /\ uipc' = IF abort THEN "spin" ELSE "try"
    /\ UNCHANGED <<scene, ruined, canvas, yield, diffvars, rendvars, pipevars, readvars>>

DiffLock ==
    /\ uipc \in {"try", "spin"} /\ mutex = "none"
    /\ uipc = "spin" => alive
    /\ mutex' = "ui" /\ uipc' = "commit"
    /\ UNCHANGED <<scene, ruined, canvas, yield, cache, ready, abort, alive,
                   rendvars, pipevars, readvars>>

\* The picture is dropped because the renderer is busy with an earlier one.
DiffBusy ==
    /\ uipc = "try" /\ mutex # "none"
    /\ yield' = FALSE /\ ruined' = FALSE /\ uipc' = "idle"
    /\ UNCHANGED <<scene, canvas, diffvars, rendvars, pipevars, readvars>>

\* notify_one/notify_all on diff::synch: the render thread is its only waiter.
Notified == rpc' = IF rpc = "sleep" THEN "lock" ELSE rpc

\* Mutant: the renderer is not notified.
DiffCommit_Silent ==
    /\ uipc = "commit"
    /\ cache' = canvas /\ ready' = TRUE /\ mutex' = "none"
    /\ yield' = TRUE /\ ruined' = FALSE /\ uipc' = "idle"
    /\ UNCHANGED <<scene, canvas, abort, alive, rendvars, pipevars, readvars>>

DiffCommit ==
    /\ uipc = "commit"
    /\ cache' = canvas /\ ready' = TRUE /\ mutex' = "none"
    /\ Notified
    /\ yield' = TRUE /\ ruined' = FALSE /\ uipc' = "idle"
    /\ UNCHANGED <<scene, canvas, abort, alive, image, block, pipevars, readvars>>

\* gate::launch after its reading loop: disconnect sends sysclose and wakes the
\* gate's own end, which shuts a stream; then diff::stop.
BeginStop ==
    /\ uipc = "idle" /\ (linked => Room)
    /\ other' = IF linked THEN other + 1 ELSE other
    /\ linked' = (linked /\ transport = "xlink")
    /\ alive' = FALSE /\ uipc' = "stop"
    /\ UNCHANGED <<scene, ruined, canvas, yield, mutex, cache, ready, abort,
                   rendvars, isbusy, store, readvars>>

\* diff::stop: as long as the renderer holds the mutex its busy flag is reset.
StopRetry ==
    /\ uipc = "stop" /\ mutex # "none"
    /\ isbusy' = FALSE
    /\ UNCHANGED <<uivars, diffvars, rendvars, store, other, linked, readvars>>

\* Mutant: stop wakes the renderer without raising ready.
StopNotify_NotReady ==
    /\ uipc = "stop" /\ mutex = "none"
    /\ Notified
    /\ uipc' = "unbusy"
    /\ UNCHANGED <<scene, ruined, canvas, yield, diffvars, image, block,
                   pipevars, readvars>>

StopNotify ==
    /\ uipc = "stop" /\ mutex = "none"
    /\ ready' = TRUE /\ Notified
    /\ uipc' = "unbusy"
    /\ UNCHANGED <<scene, ruined, canvas, yield, mutex, cache, abort, alive,
                   image, block, pipevars, readvars>>

StopUnbusy ==
    /\ uipc = "unbusy"
    /\ isbusy' = FALSE /\ uipc' = "join"
    /\ UNCHANGED <<scene, ruined, canvas, yield, diffvars, rendvars,
                   store, other, linked, readvars>>

StopJoin ==
    /\ uipc = "join" /\ rpc = "ended"
    /\ uipc' = "stopped"
    /\ UNCHANGED <<scene, ruined, canvas, yield, diffvars, rendvars, pipevars, readvars>>

-----------------------------------------------------------------------------
(* The render thread *)

RenderLock ==
    /\ rpc = "lock" /\ mutex = "none"
    /\ mutex' = "render" /\ rpc' = "check"
    /\ UNCHANGED <<uivars, cache, ready, abort, alive, image, block, pipevars, readvars>>

\* synch.wait(guard, ready)
RenderWait ==
    /\ rpc = "check" /\ ~ready
    /\ mutex' = "none" /\ rpc' = "sleep"
    /\ UNCHANGED <<uivars, cache, ready, abort, alive, image, block, pipevars, readvars>>

\* The condition variable may wake up for nothing.
RenderSpurious ==
    /\ rpc = "sleep" /\ rpc' = "lock"
    /\ UNCHANGED <<uivars, diffvars, image, block, pipevars, readvars>>

\* Mutant: a cancel left over from before is not cleared.
RenderBegin_KeepAbort ==
    /\ rpc = "check" /\ ready /\ alive
    /\ ready' = FALSE /\ rpc' = "encode"
    /\ UNCHANGED <<uivars, mutex, cache, abort, alive, image, block, pipevars, readvars>>

RenderBegin ==
    /\ rpc = "check" /\ ready /\ alive
    /\ ready' = FALSE /\ abort' = FALSE /\ rpc' = "encode"
    /\ UNCHANGED <<uivars, mutex, cache, alive, image, block, pipevars, readvars>>

RenderEnd ==
    /\ rpc = "check" /\ ready /\ ~alive
    /\ mutex' = "none" /\ rpc' = "ended"
    /\ UNCHANGED <<uivars, cache, ready, abort, alive, image, block, pipevars, readvars>>

\* Mutant: the encoder takes over the picture whose frame it has thrown away.
EncodeAborted_Swap ==
    /\ rpc = "encode" /\ abort
    /\ image' = cache /\ cache' = image /\ rpc' = "check"
    /\ UNCHANGED <<uivars, mutex, ready, abort, alive, block, pipevars, readvars>>

\* bitmap::set when its last look at abort finds it set: the block is reset,
\* the encoder's state and image stay as they were before.
EncodeAborted ==
    /\ rpc = "encode" /\ abort
    /\ rpc' = "check"
    /\ UNCHANGED <<uivars, diffvars, image, block, pipevars, readvars>>

\* Mutant: the frame is sent with the mutex held.
EncodeDone_Hold ==
    /\ rpc = "encode" /\ ~abort
    /\ image' = cache /\ cache' = image
    /\ IF cache = image
       THEN rpc' = "check" /\ UNCHANGED block
       ELSE rpc' = "busy" /\ block' = [from |-> image, to |-> cache]
    /\ UNCHANGED <<uivars, mutex, ready, abort, alive, pipevars, readvars>>

\* bitmap::set: image and cache are swapped; an empty difference is not sent.
EncodeDone ==
    /\ rpc = "encode" /\ ~abort
    /\ image' = cache /\ cache' = image
    /\ IF cache = image
       THEN rpc' = "check" /\ UNCHANGED <<mutex, block>>
       ELSE rpc' = "busy" /\ mutex' = "none" /\ block' = [from |-> image, to |-> cache]
    /\ UNCHANGED <<uivars, ready, abort, alive, pipevars, readvars>>

RenderBusy ==
    /\ rpc = "busy"
    /\ isbusy' = TRUE /\ rpc' = "send"
    /\ UNCHANGED <<uivars, diffvars, image, block, store, other, linked, readvars>>

Delivered == IF linked THEN Append(store, block) ELSE store

\* xcross::fifo::send: the frame joins the queue if the fifo is alive.
FifoSend ==
    /\ transport = "xlink"
    /\ rpc = "send"
    /\ store' = Delivered /\ rpc' = "await"
    /\ UNCHANGED <<uivars, diffvars, image, block, isbusy, other, linked, readvars>>

\* stdcon::send: the flag is reset first because io::send blocks until done.
SocketSend ==
    /\ transport = "socket"
    /\ rpc = "send"
    /\ isbusy' = FALSE /\ rpc' = "write"
    /\ UNCHANGED <<uivars, diffvars, image, block, store, other, linked, readvars>>

SocketWrite ==
    /\ rpc = "write" /\ (linked => Room)
    /\ store' = Delivered /\ rpc' = "await"
    /\ UNCHANGED <<uivars, diffvars, image, block, isbusy, other, linked, readvars>>

\* Mutant: the renderer does not wait for the delivery.
RenderAwait_NoWait ==
    /\ rpc = "await" /\ rpc' = "lock"
    /\ UNCHANGED <<uivars, diffvars, image, block, pipevars, readvars>>

\* canal.isbusy.wait(true)
RenderAwait ==
    /\ rpc = "await" /\ ~isbusy
    /\ rpc' = "lock"
    /\ UNCHANGED <<uivars, diffvars, image, block, pipevars, readvars>>

-----------------------------------------------------------------------------
(* The reader at the other end *)

\* Frames read at once: a fifo hands over everything, a stream what has come.
Batch == IF transport = "xlink" \/ store = <<>> THEN {Len(store)} ELSE 1..Len(store)

\* fifo::read also resets the sender's busy flag; an OS stream cannot, but
\* what it holds when it is shut may still be read.
Recv ==
    /\ linked \/ transport = "socket"
    /\ inbox = <<>>
    /\ store # <<>> \/ other > 0
    /\ \E n \in Batch :
          /\ inbox' = SubSeq(store, 1, n)
          /\ store' = SubSeq(store, n + 1, Len(store))
    /\ other' = 0
    /\ isbusy' = (isbusy /\ transport # "xlink")
    /\ UNCHANGED <<uivars, diffvars, rendvars, linked, screen, transport>>

\* bitmap::get: a frame is applied to the picture on the screen.
Apply ==
    /\ inbox # <<>>
    /\ screen' = Head(inbox).to /\ inbox' = Tail(inbox)
    /\ UNCHANGED <<uivars, diffvars, rendvars, pipevars, transport>>

\* The reader leaves and shuts the pipe; xcross::shut stops both fifos.
Shut ==
    /\ linked /\ linked' = FALSE
    /\ isbusy' = (isbusy /\ transport # "xlink")
    /\ UNCHANGED <<uivars, diffvars, rendvars, store, other, readvars>>

-----------------------------------------------------------------------------
Render == \/ RenderLock \/ RenderWait \/ RenderBegin \/ RenderEnd
          \/ EncodeAborted \/ EncodeDone \/ RenderBusy
          \/ FifoSend \/ SocketSend \/ SocketWrite \/ RenderAwait

\* The steps the holder of the UI lock takes once it has begun something.
UiStep == \/ DiffSend \/ DiffLock \/ DiffBusy \/ DiffCommit
          \/ StopRetry \/ StopNotify \/ StopUnbusy \/ StopJoin

Reader == Recv \/ Apply

Next == \/ Deface \/ SendOther \/ RebuildScene \/ Winsz \/ BeginStop
        \/ UiStep \/ Render \/ RenderSpurious \/ Reader \/ Shut

\* Every running thread keeps running, the timer keeps ticking, the reader
\* keeps reading, the renderer gets the mutex it blocks on however often the
\* others take it in between, and wakeups for nothing do not go on for ever.
\* Nothing forces a change, a resize, a stop or a shut.
Fairness == /\ WF_vars(RebuildScene) /\ WF_vars(UiStep)
            /\ WF_vars(Render) /\ WF_vars(Reader)
            /\ SF_vars(RenderLock)
            /\ <>[][~RenderSpurious]_vars

Spec == Init /\ [][Next]_vars /\ Fairness

-----------------------------------------------------------------------------
(* Properties *)

\* A frame is a difference: applied to any other picture than the one it was
\* made from it garbles the screen.  The frames under way form a chain from the
\* picture the user sees to the picture the encoder remembers, whatever was
\* cancelled, dropped or retried in between (bitmap::set restores its state on
\* abort; diff::render sends every committed block exactly once, in order).
Chain(first, frames, last) ==
    LET n == Len(frames)
    IN /\ \A i \in 1..n - 1 : frames[i].to = frames[i + 1].from
       /\ n > 0 => frames[1].from = first /\ frames[n].to = last
       /\ n = 0 => first = last

Pending == IF rpc \in {"busy", "send", "write"} THEN <<block>> ELSE <<>>

FramesInSync == linked => Chain(screen, inbox \o store \o Pending, image)

\* "Successive frames must be discarded until the current frame is delivered
\* (to prevent unlimited buffer growth)": the flag that guards this is reset by
\* the reader, by stop and by a shut at any moment, also between the renderer's
\* isbusy = true and its send, and still the fifo never holds a third frame.
BacklogBounded == transport = "xlink" => Len(store) <= 2

\* When the gate believes its last picture is on its way (nothing ruined, diff::send
\* returned true) no later tick will send it again: it must be in the cache and
\* signalled, or being encoded with no abort pending, or already encoded.
NoLostPicture ==
    uipc = "idle" /\ yield /\ ~ruined =>
        /\ canvas = scene
        /\ \/ ready /\ cache = canvas
           \/ rpc = "encode" /\ ~abort /\ cache = canvas
           \/ image = canvas

\* The user sees pictures in the order they were drawn, each at most once, and
\* the last one eventually, while the pipe is up and the gate runs.
View == INSTANCE LatestFrame WITH shown <- screen, open <- linked /\ alive
ShowsLatestFrame == View!Spec

\* diff::stop ends: the render thread is released wherever it is and is joined.
StopEnds == uipc = "stop" ~> uipc = "stopped"

\* With an OS stream it does, whether the thread waits, encodes or is blocked in
\* a write to a client that reads no more: the stream is shut before.
StopEndsOnSocket == transport = "socket" => StopEnds
==============================================================================
