------------------------------ MODULE DtvtPane ------------------------------
(***************************************************************************)
(* A pane that hosts a DirectVT application (ui::dtvt over os::dtvt::vtty) *)
(* on a desktop whose user is at the other end of a gate (gate::link).     *)
(*                                                                         *)
(* The pane has a reading thread, which starts the application, reads its  *)
(* messages and in the end joins the writing thread; the writing thread    *)
(* empties writebuf into the pipe.  Deferred tasks run on the desktop's    *)
(* one worker, which joins the reading thread.  They meet under the UI     *)
(* lock, which the handlers of some messages take, and under writemtx,     *)
(* which the writing thread gives up to wait.  The pane starts its         *)
(* application once (app::dtvt).                                           *)
(***************************************************************************)
EXTENDS Naturals, Sequences

CONSTANTS Config,      \* appcfg.cfg is not empty
          MaxEvents,   \* bound: what is sent to the application
          MaxStops,    \* bound: requests to close the pane
          MaxInbox     \* bound: what the client has sent and the gate not read

ASSUME BoundsAssumption == /\ Config \in BOOLEAN
                           /\ MaxEvents \in Nat
                           /\ MaxStops \in Nat /\ MaxInbox \in Nat

VARIABLES ui,        \* the holder of the UI lock
          active,    \* dtvt::active
          shown,     \* the application has sent its canvas
          attached,  \* vtty::attached
          linked,    \* termlink's pipe::active
          tail,      \* the writing end, termlink.handle.w
          app,       \* the application's process
          writebuf,  \* vtty::writebuf
          cache,     \* the writing thread's cache
          sent,      \* what the application can read
          made,      \* history: what was put in writebuf, in order
          reader,    \* the reading thread
          dodged,    \* history: its signal came when it had not called ::read yet
          writer,    \* the writing thread
          missed,    \* history: writesyn was notified between its test and its wait
          jobs,      \* the worker's queue
          worker,    \* the worker: what it does for the first job
          quit,      \* the pane was told to leave its parent
          gate,      \* the gate's reading thread
          inbox,     \* what the client has sent
          clip,      \* the paste that waits for the client's clipboard
          client,    \* the client is connected
          stops

link     == <<linked, dodged>>
paneVars == <<active, shown, attached, link, tail, app, quit>>
ioVars   == <<writebuf, cache, sent, made, writer, missed>>
gateVars == <<gate, inbox, client>>
vars == <<ui, paneVars, ioVars, reader, jobs, worker, clip, gateVars, stops>>

Packets == {"cfg", "event", "close"} \X Nat

(* The pane after start_dtvt: its reading thread is about to run.          *)
Init == /\ ui = "free" /\ active = TRUE /\ shown = FALSE
        /\ attached = FALSE /\ linked = FALSE /\ dodged = FALSE
        /\ tail = "none" /\ app = "none"
        /\ writebuf = <<>> /\ cache = <<>> /\ sent = <<>> /\ made = <<>>
        /\ reader = "prepare"
        /\ writer = "none" /\ missed = FALSE
        /\ jobs = <<>> /\ worker = "idle" /\ quit = FALSE
        /\ gate = "read" /\ inbox = <<>> /\ clip = "none"
        /\ client = TRUE /\ stops = 0

----------------------------------------------------------------------------
(* The writing thread.                                                     *)

(* vtty::output: under writemtx, which a writing thread that is about to   *)
(* wait still holds.                                                       *)
Output(kind) ==
    LET packet == <<kind, Len(made)>>
    IN  /\ writer # "doze"
        /\ writebuf' = Append(writebuf, packet)
        /\ made'     = Append(made, packet)
        /\ writer'   = IF writer = "sleep" THEN "test" ELSE writer
        /\ UNCHANGED <<cache, sent, missed>>

(* Bound: what is sent besides the settings.                               *)
Room == Len(made) < MaxEvents + (IF Config /\ reader # "prepare" THEN 1 ELSE 0)

(* writesyn.notify_one() without writemtx.                                 *)
Notify == /\ writer' = IF writer = "sleep" THEN "test" ELSE writer
          /\ missed' = (missed \/ writer = "doze")

(* Mutant: writebuf is copied and keeps its contents.                      *)
Swap_Copy == cache' = writebuf /\ UNCHANGED writebuf

Swap == /\ writebuf' = cache
        /\ cache' = writebuf

(* writer: writemtx taken, the predicate of the wait and the loop's test.  *)
Test ==
    /\ writer = "test"
    /\ missed' = FALSE
    /\ \/ ~attached /\ writer' = "ended" /\ UNCHANGED <<writebuf, cache>>
       \/ attached /\ writebuf = <<>> /\ writer' = "doze" /\ UNCHANGED <<writebuf, cache>>
       \/ attached /\ writebuf # <<>> /\ writer' = "send" /\ Swap
    /\ UNCHANGED <<ui, paneVars, sent, made, reader, jobs, worker, clip, gateVars,
                   stops>>

(* The wait gives writemtx up; it may end on its own.                      *)
Sleep == /\ writer = "doze" /\ writer' = "sleep"
         /\ UNCHANGED <<ui, paneVars, writebuf, cache, sent, made, missed, reader,
                        jobs, worker, clip, gateVars, stops>>
Stir  == /\ writer = "sleep" /\ writer' = "test"
         /\ UNCHANGED <<ui, paneVars, writebuf, cache, sent, made, missed, reader,
                        jobs, worker, clip, gateVars, stops>>


(* termlink.abort(stdinput), once: the flag is reset; a reading thread that *)
(* has passed its test of the flag gets a signal, which ends a ::read and   *)
(* is lost on one that is not called yet.  The pipe stays open.             *)
Abort == /\ linked' = FALSE
         /\ reader' = IF linked /\ reader = "recv" THEN "detach" ELSE reader
         /\ dodged' = (dodged \/ (linked /\ reader = "enter"))

(* termlink.send, outside of writemtx.  When it fails the reading thread   *)
(* is interrupted, unless somebody detached the application before.        *)
Send ==
    /\ writer = "send"
    /\ \/ /\ app = "running" /\ tail = "open"
          /\ sent' = sent \o cache /\ cache' = <<>> /\ writer' = "test"
          /\ UNCHANGED <<attached, link, reader>>
       \/ /\ ~(app = "running" /\ tail = "open")
          /\ writer' = "ended" /\ attached' = FALSE
          /\ IF attached THEN Abort ELSE UNCHANGED <<link, reader>>
          /\ UNCHANGED <<sent, cache>>
    /\ UNCHANGED <<ui, active, shown, tail, app, quit, writebuf, made, missed, jobs,
                   worker, clip, gateVars, stops>>

Writer == Test \/ Sleep \/ Send

----------------------------------------------------------------------------
(* The reading thread.                                                     *)

ReaderAt(here, next) == reader = here /\ reader' = next

(* run_dtvt_app: the settings go before what is in writebuf already, and   *)
(* the application is started; if it cannot be, the thread says so and     *)
(* ends.                                                                   *)
Prepare ==
    /\ reader = "prepare"
    /\ IF Config THEN /\ writebuf' = <<<<"cfg", 0>>>> \o writebuf
                      /\ made'     = <<<<"cfg", 0>>>> \o made
                 ELSE UNCHANGED <<writebuf, made>>
    /\ linked' = TRUE /\ tail' = "open"
    /\ \/ reader' = "attach" /\ app' = "running" /\ UNCHANGED jobs
       \/ reader' = "ended"  /\ app' = "gone" /\ jobs' = Append(jobs, "leave")
    /\ UNCHANGED <<ui, active, shown, attached, dodged, quit, cache, sent, writer,
                   missed, worker, clip, gateVars, stops>>

Attach == /\ ReaderAt("attach", "read")
          /\ attached' = TRUE /\ writer' = "test"
          /\ UNCHANGED <<ui, active, shown, link, tail, app, quit, writebuf, cache, sent,
                         made, missed, jobs, worker, clip, gateVars, stops>>

(* reading_loop and stdcon::recv test the link, ...                        *)
Read == /\ reader = "read"
        /\ reader' = IF linked THEN "enter" ELSE "detach"
        /\ UNCHANGED <<ui, paneVars, ioVars, jobs, worker, clip, gateVars, stops>>

(* ... and ::read is called.                                               *)
Enter == /\ ReaderAt("enter", "recv")
         /\ UNCHANGED <<ui, paneVars, ioVars, jobs, worker, clip, gateVars, stops>>

(* The application is gone (what it left in the pipe is taken for read).   *)
Hangup == /\ ReaderAt("recv", "detach")
          /\ app = "gone"
          /\ UNCHANGED <<ui, paneVars, ioVars, jobs, worker, clip, gateVars, stops>>

(* A message of the application ends the loop when the link was shut.      *)
(* While the pane is active a frame is decoded at once (a deferred task    *)
(* draws it); the other messages wait for the UI lock.                     *)
Message ==
    /\ reader = "recv" /\ app = "running"
    /\ \/ ~linked /\ reader' = "detach" /\ UNCHANGED shown
       \/ linked /\ active /\ reader' = "request" /\ shown' = TRUE
       \/ linked /\ active /\ reader' = "lock" /\ UNCHANGED shown
       \/ linked /\ ~active /\ reader' = "read" /\ UNCHANGED shown
    /\ UNCHANGED <<ui, active, attached, link, tail, app, quit, ioVars, jobs, worker, clip,
                   gateVars, stops>>

(* A handler with the UI lock: a request is answered, and a request of the *)
(* clipboard is passed on to the gate, which locks clipdata, asks the      *)
(* client, whose answer comes behind all that it has sent before, and      *)
(* waits, unless its link was stopped.                                     *)
Key == /\ ReaderAt("lock", "request") /\ ui = "free"
       /\ \/ Room /\ Output("event")
          \/ UNCHANGED ioVars
       /\ UNCHANGED <<ui, paneVars, jobs, worker, clip, gateVars, stops>>

Paste == /\ ReaderAt("lock", "pasted") /\ ui = "free" /\ ui' = "reader"
         /\ Len(inbox) <= MaxInbox
         /\ inbox' = IF client THEN Append(inbox, "clipdata") ELSE inbox
         /\ IF gate = "stopped" THEN clip' = "done" ELSE clip' = "wait"
         /\ UNCHANGED <<paneVars, ioVars, jobs, worker, gate, client, stops>>

(* Mutant: the UI lock is not given back.                                  *)
Unlock_Not == UNCHANGED ui

(* The guard of owner.sync() goes out of scope.                            *)
Unlock == ui' = "free"

Pasted == /\ ReaderAt("pasted", "request")
          /\ clip = "done" /\ clip' = "none" /\ Unlock
          /\ \/ Room /\ Output("event")
             \/ ~Room /\ UNCHANGED ioVars
          /\ UNCHANGED <<paneVars, jobs, worker, gateVars, stops>>

(* Mutant: the task that closes the pane keeps the UI lock.                *)
Kind_Locked == "leave"

(* enqueue<faux>: the task that closes the pane runs without the UI lock.  *)
Kind == "close"

(* dtvt::stop under the UI lock, with dtvt::active as it is now and the    *)
(* tasks rest.  An application that has sent no canvas loses its input;    *)
(* another one is told to close; unless it may still refuse, the task that *)
(* closes the pane is deferred.                                            *)
Stop(fast, now, rest) ==
    LET told == shown /\ now /\ attached
    IN  /\ tail'   = IF ~shown /\ tail = "open" THEN "closed" ELSE tail
        /\ active' = (now /\ ~(shown /\ fast))
        /\ jobs'   = IF told /\ ~fast THEN rest ELSE Append(rest, Kind)
        /\ IF told THEN Output("close") ELSE UNCHANGED ioVars
        /\ UNCHANGED <<shown, attached, link, app, quit>>

(* The application closes, or agrees to.                                   *)
Close == /\ ReaderAt("lock", "request") /\ ui = "free"
         /\ Stop(TRUE, FALSE, jobs)
         /\ UNCHANGED <<ui, worker, clip, gateVars, stops>>

(* request_jgc, request_images: the application is asked for what the      *)
(* frame refers to.                                                        *)
Request == /\ ReaderAt("request", "read")
           /\ \/ Room /\ Output("event")
              \/ UNCHANGED ioVars
           /\ UNCHANGED <<ui, paneVars, jobs, worker, clip, gateVars, stops>>

(* The end of the loop: the writing thread is stopped and joined, then     *)
(* shutdown_fx defers the closing of the pane.                             *)
Detach == /\ ReaderAt("detach", "notify")
          /\ attached' = FALSE
          /\ UNCHANGED <<ui, active, shown, link, tail, app, quit, ioVars,
                         jobs, worker, clip, gateVars, stops>>

Wake == /\ ReaderAt("notify", "join")
        /\ Notify
        /\ UNCHANGED <<ui, paneVars, writebuf, cache, sent, made, jobs, worker, clip,
                       gateVars, stops>>

Shutdown == /\ ReaderAt("join", "ended")
            /\ writer = "ended"
            /\ jobs' = Append(jobs, "leave")
            /\ UNCHANGED <<ui, paneVars, ioVars, worker, clip, gateVars, stops>>

Reader == \/ Prepare \/ Attach \/ Read \/ Enter \/ Hangup
          \/ Pasted \/ Request \/ Detach \/ Wake \/ Shutdown
Locked == Key \/ Paste \/ Close

----------------------------------------------------------------------------
(* The worker (auth::enqueue): it takes the UI lock for every task, and    *)
(* gives it back before the task "close".                                  *)

WorkerAt(here, next) == worker = here /\ worker' = next

Take == /\ worker = "idle" /\ jobs # <<>> /\ ui = "free"
        /\ worker' = "payoff"
        /\ ui' = IF Head(jobs) = "close" THEN "free" ELSE "worker"
        /\ UNCHANGED <<jobs, paneVars, ioVars, reader, clip, gateVars, stops>>

(* vtty::payoff: it detaches the application, wakes the writing thread and *)
(* interrupts the reading one, if nobody has done so; then it joins it.    *)
Payoff == /\ worker = "payoff"
          /\ worker' = IF attached THEN "notify" ELSE "join"
          /\ attached' = FALSE
          /\ UNCHANGED <<ui, active, shown, link, tail, app, quit, ioVars, reader,
                         jobs, clip, gateVars, stops>>

Hasten == /\ WorkerAt("notify", "join")
          /\ Notify /\ Abort
          /\ UNCHANGED <<ui, active, shown, attached, tail, app, quit, writebuf, cache, sent,
                         made, jobs, clip, gateVars, stops>>

(* Mutant: a thread that does not read any more is not waited for.         *)
Gone_Early == reader \in {"detach", "notify", "join", "ended"}

Gone == reader = "ended"

Join == /\ WorkerAt("join", "leave")
        /\ Gone
        /\ UNCHANGED <<ui, active, shown, attached, link, tail, app, quit, ioVars, reader,
                       jobs, clip, gateVars, stops>>

(* shutdown_fx, with the UI lock: the pane is asked to close.              *)
Leave == /\ WorkerAt("leave", "idle")
         /\ Head(jobs) = "leave" /\ Unlock
         /\ Stop(TRUE, active, Tail(jobs))
         /\ UNCHANGED <<reader, clip, gateVars, stops>>

(* dtvt::stop's task takes the UI lock again for quit::one.                *)
Quit == /\ WorkerAt("leave", "idle")
        /\ Head(jobs) = "close" /\ ui = "free"
        /\ quit' = TRUE /\ jobs' = Tail(jobs)
        /\ UNCHANGED <<ui, active, shown, attached, link, tail, app, ioVars, reader,
                       clip, gateVars, stops>>

Worker == Payoff \/ Hasten \/ Join \/ Leave

----------------------------------------------------------------------------
(* The other threads of the desktop, under the UI lock: input for the      *)
(* application and requests to close the pane.                             *)

Input == /\ ui = "free" /\ ~quit
         /\ Room /\ Output("event")
         /\ UNCHANGED <<ui, paneVars, reader, jobs, worker, clip, gateVars, stops>>

AskClose == /\ ui = "free" /\ ~quit
            /\ stops < MaxStops /\ stops' = stops + 1
            /\ \E fast \in BOOLEAN : Stop(fast, active, jobs)
            /\ UNCHANGED <<ui, reader, worker, clip, gateVars>>

(* The application ends by itself; it does end when its input is closed    *)
(* or it has been told to close.                                           *)
Exit == /\ app = "running" /\ app' = "gone"
        /\ UNCHANGED <<ui, active, shown, attached, link, tail, quit, ioVars, reader,
                       jobs, worker, clip, gateVars, stops>>

Told == tail = "closed" \/ \E i \in DOMAIN sent : sent[i][1] = "close"

----------------------------------------------------------------------------
(* The gate and its client.                                                *)
paneSide == <<ui, paneVars, ioVars, reader, jobs, worker, stops>>

(* Bound: the client acts while a message of the application is handled,   *)
(* one request of an image at a time; the gate meets the pane in nothing   *)
(* else.                                                                   *)
AskImage == /\ reader \in {"lock", "pasted"} /\ gate = "read" /\ client
            /\ Len(inbox) < MaxInbox
            /\ inbox' = Append(inbox, "request_img")
            /\ UNCHANGED <<paneSide, clip, gate, client>>

(* The connection breaks, which only a paste would notice; what is on its  *)
(* way may be lost.                                                        *)
Lose == /\ clip = "wait" /\ client /\ client' = FALSE
        /\ inbox' \in {inbox, <<>>}
        /\ UNCHANGED <<paneSide, clip, gate>>

(* What waits on clipdata waits once, for any notification.                *)
Woken == IF clip = "wait" THEN "done" ELSE clip

(* The gate's reading thread: an image is looked up under the UI lock; the *)
(* answer is stored in clipdata, which wakes the paste.                    *)
Receive == /\ gate = "read" /\ inbox # <<>>
           /\ inbox' = Tail(inbox)
           /\ gate'  = IF Head(inbox) = "request_img" THEN "image" ELSE gate
           /\ clip'  = IF Head(inbox) = "clipdata" THEN Woken ELSE clip
           /\ UNCHANGED <<paneSide, client>>

Image == /\ gate = "image" /\ gate' = "read"
         /\ ui = "free"
         /\ UNCHANGED <<paneSide, clip, inbox, client>>

(* Mutant: alive is reset and nobody is notified.                          *)
Ended_Silent == clip

(* s11n::stop locks clipdata to reset alive, and so notifies.              *)
Ended == Woken

StopLink == /\ gate = "read" /\ inbox = <<>> /\ ~client
            /\ gate' = "stopped" /\ clip' = Ended
            /\ UNCHANGED <<paneSide, inbox, client>>

(* A wait may end on its own.                                              *)
Doubt == /\ clip = "wait" /\ clip' = "done"
         /\ UNCHANGED <<paneSide, gateVars>>

----------------------------------------------------------------------------
Next == \/ Writer \/ Stir
        \/ Reader \/ Locked \/ Message
        \/ Worker \/ Take \/ Quit
        \/ Input \/ AskClose \/ Exit
        \/ AskImage \/ Lose \/ Receive \/ Image \/ StopLink \/ Doubt

Spec == Init /\ [][Next]_vars

(* Threads go on; a thread that waits for a mutex that is given back again *)
(* and again gets it in the end (their other steps stay enabled until they *)
(* are taken).  The application need not send anything.                    *)
FairSpec ==
    /\ Spec
    /\ WF_vars(Writer)
    /\ SF_vars(Reader \/ Locked)
    /\ SF_vars(Worker \/ Take \/ Quit)
    /\ SF_vars(Receive \/ Image \/ StopLink)
    /\ WF_vars(Told /\ Exit)

----------------------------------------------------------------------------
(* The threads of a pane and what they pass to each other are of these     *)
(* kinds (the fields of ui::dtvt, os::dtvt::vtty and gate::link), and the  *)
(* UI lock is held over several steps only by a paste and by shutdown_fx.  *)
TypeOK ==
    /\ ui \in {"free", "reader", "worker"}
    /\ ui = "reader" <=> reader = "pasted"
    /\ ui = "worker" => worker # "idle" /\ Head(jobs) = "leave"
    /\ active \in BOOLEAN /\ shown \in BOOLEAN /\ attached \in BOOLEAN
    /\ linked \in BOOLEAN /\ dodged \in BOOLEAN /\ quit \in BOOLEAN /\ missed \in BOOLEAN
    /\ tail \in {"none", "open", "closed"} /\ app \in {"none", "running", "gone"}
    /\ writebuf \in Seq(Packets) /\ cache \in Seq(Packets)
    /\ sent \in Seq(Packets) /\ made \in Seq(Packets)
    /\ reader \in {"prepare", "attach", "read", "enter", "recv", "lock", "pasted",
                   "request", "detach", "notify", "join", "ended"}
    /\ writer \in {"none", "test", "doze", "sleep", "send", "ended"}
    /\ jobs \in Seq({"close", "leave"})
    /\ worker \in {"idle", "payoff", "notify", "join", "leave"}
    /\ gate \in {"read", "image", "stopped"} /\ clip \in {"none", "wait", "done"}
    /\ inbox \in Seq({"clipdata", "request_img"}) /\ client \in BOOLEAN
    /\ stops \in 0..MaxStops

(* The application reads what the desktop sent it, in order, nothing twice *)
(* and nothing left out, the settings first, although the writing thread   *)
(* takes writebuf away and sends it without writemtx.                      *)
StreamKept == sent \o cache \o writebuf = made

(* Threads are joined safely: whoever joins the reading thread with the UI *)
(* lock held finds it past everything that waits for the UI lock (payoff   *)
(* in the task that shutdown_fx defers, against the one of dtvt::stop),    *)
(* and a pane that leaves its parent, to be destroyed, has no thread left  *)
(* and no handler that waits for the UI lock or for the clipboard.         *)
JoinsSafely ==
    /\ worker = "join" /\ ui = "worker" => reader = "ended"
    /\ quit => /\ reader = "ended"
               /\ writer \in {"none", "ended"}
               /\ clip = "none"

(* The pane hangs: the writing thread has missed the last notification     *)
(* ("sometimes thread::join causes deadlock"), ...                         *)
Overslept == missed /\ writer = "sleep" /\ ~attached /\ reader = "join"

(* ... the task that closes the pane came before the application was       *)
(* attached and has detached nothing, ...                                  *)
Unattended == worker = "join" /\ attached /\ app = "running" /\ ~Told

(* ... the paste holds the UI lock that the gate's reading thread waits    *)
(* for, with the answer behind the request of an image, ...                *)
Crossed == gate = "image" /\ ui = "reader" /\ clip = "wait"

(* ... or the signal came before the reading thread had called ::read, and *)
(* the application, which nobody tells to end, sends nothing more.         *)
Uninterrupted == /\ dodged /\ worker = "join" /\ reader = "recv"
                 /\ app = "running" /\ ~Told


(* A paste ends: the client answers, or its link is stopped; only a        *)
(* request of an image before the answer keeps it waiting.                 *)
PasteEnds == (clip = "wait" ~> clip # "wait") \/ <>[]Crossed
=============================================================================
