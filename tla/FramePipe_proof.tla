--------------------------- MODULE FramePipe_proof ---------------------------
(* Proofs about FramePipe for every transport and every bound.             *)
EXTENDS FramePipe, SequenceTheorems, TLAPS

\* The actions one by one, as the proofs below take them.
LEMMA NextCases ==
    Next <=> \/ Deface \/ SendOther \/ RebuildScene \/ Winsz
             \/ DiffSend \/ DiffLock \/ DiffBusy \/ DiffCommit
             \/ BeginStop \/ StopRetry \/ StopNotify \/ StopUnbusy \/ StopJoin
             \/ RenderLock \/ RenderWait \/ RenderSpurious \/ RenderBegin \/ RenderEnd
             \/ EncodeAborted \/ EncodeDone \/ RenderBusy
             \/ FifoSend \/ SocketSend \/ SocketWrite \/ RenderAwait
             \/ Recv \/ Apply \/ Shut
  BY DEF Next, UiStep, Render, Reader

\* A gate keeps its kind of pipe.
LEMMA TransportKept == [Next]_vars => transport' = transport
<1> USE DEF vars, readvars
<1> SUFFICES ASSUME Next PROVE transport' = transport
  OBVIOUS
<1>1. CASE Deface \/ SendOther \/ RebuildScene \/ Winsz \/ DiffSend \/ DiffLock
           \/ DiffBusy \/ DiffCommit
  BY <1>1 DEF Deface, SendOther, RebuildScene, Winsz, DiffSend, DiffLock, DiffBusy, DiffCommit
<1>2. CASE BeginStop \/ StopRetry \/ StopNotify \/ StopUnbusy \/ StopJoin
  BY <1>2 DEF BeginStop, StopRetry, StopNotify, StopUnbusy, StopJoin
<1>3. CASE RenderLock \/ RenderWait \/ RenderSpurious \/ RenderBegin \/ RenderEnd
           \/ EncodeAborted \/ EncodeDone \/ RenderBusy
  BY <1>3 DEF RenderLock, RenderWait, RenderSpurious, RenderBegin, RenderEnd,
              EncodeAborted, EncodeDone, RenderBusy
<1>4. CASE FifoSend \/ SocketSend \/ SocketWrite \/ RenderAwait \/ Recv \/ Apply \/ Shut
  BY <1>4 DEF FifoSend, SocketSend, SocketWrite, RenderAwait, Recv, Apply, Shut
<1> QED
  BY NextCases, <1>1, <1>2, <1>3, <1>4

\* What Recv leaves behind and takes is again a sequence of frames.
LEMMA Split ==
    ASSUME NEW S, NEW s \in Seq(S), NEW n \in 0..Len(s)
    PROVE  /\ SubSeq(s, 1, n) \in Seq(S)
           /\ SubSeq(s, n + 1, Len(s)) \in Seq(S)
           /\ Len(SubSeq(s, n + 1, Len(s))) = Len(s) - n
  OBVIOUS

LEMMA BatchRange == store \in Seq(Frame) => Batch \subseteq 0..Len(store)
  BY DEF Batch

\* Every variable keeps its type in every reachable state.
LEMMA TypesCorrect == Spec => []Typed
<1>1. Init => Typed
  <2>1. 0 \in Scene /\ NoFrame \in Frame
    BY BoundsAssumption DEF Scene, Frame, NoFrame
  <2>2. <<>> \in Seq(Frame)
    OBVIOUS
  <2> SUFFICES ASSUME Init PROVE Typed
    OBVIOUS
  <2>3. store \in Seq(Frame) /\ inbox \in Seq(Frame) /\ other \in Nat
    BY <2>2 DEF Init
  <2>4. uipc \in UiSteps /\ rpc \in RenderSteps
    BY DEF Init, UiSteps, RenderSteps
  <2> QED BY <2>1, <2>3, <2>4 DEF Init, Typed
<1>2. Typed /\ [Next]_vars => Typed'
  <2> SUFFICES ASSUME Typed, [Next]_vars PROVE Typed'
    OBVIOUS
  <2> USE BoundsAssumption DEF Typed, UiSteps, RenderSteps, Scene,
          uivars, diffvars, rendvars, pipevars, readvars
  <2>1. CASE Deface        BY <2>1 DEF Deface
  <2>2. CASE SendOther     BY <2>2 DEF SendOther
  <2>3. CASE RebuildScene  BY <2>3 DEF RebuildScene
  <2>4. CASE Winsz         BY <2>4 DEF Winsz
  <2>5. CASE DiffSend      BY <2>5 DEF DiffSend
  <2>6. CASE DiffLock      BY <2>6 DEF DiffLock
  <2>7. CASE DiffBusy      BY <2>7, ZenonT(60) DEF DiffBusy
  <2>8. CASE DiffCommit    BY <2>8 DEF DiffCommit, Notified
  <2>9. CASE BeginStop
    <3>1. other' \in Nat
      BY <2>9 DEF BeginStop
    <3> QED BY <2>9, <3>1, ZenonT(60) DEF BeginStop
  <2>10. CASE StopRetry    BY <2>10, ZenonT(60) DEF StopRetry
  <2>11. CASE StopNotify   BY <2>11 DEF StopNotify, Notified
  <2>12. CASE StopUnbusy
    <3>1. UNCHANGED <<scene, ruined, canvas, yield, diffvars, rendvars, store, other,
                      linked, readvars>>
      BY <2>12 DEF StopUnbusy
    <3>2. uipc' \in UiSteps /\ isbusy' \in BOOLEAN
      BY <2>12 DEF StopUnbusy
    <3> QED BY <3>1, <3>2
  <2>13. CASE StopJoin     BY <2>13 DEF StopJoin
  <2>14. CASE RenderLock   BY <2>14 DEF RenderLock
  <2>15. CASE RenderWait   BY <2>15 DEF RenderWait
  <2>16. CASE RenderSpurious BY <2>16 DEF RenderSpurious
  <2>17. CASE RenderBegin  BY <2>17, ZenonT(60) DEF RenderBegin
  <2>18. CASE RenderEnd    BY <2>18 DEF RenderEnd
  <2>19. CASE EncodeAborted BY <2>19 DEF EncodeAborted
  <2>20. CASE EncodeDone
    <3>1. block' \in Frame
      BY <2>20 DEF EncodeDone, Frame
    <3>2. rpc' \in RenderSteps /\ mutex' \in {"none", "ui", "render"}
      BY <2>20 DEF EncodeDone
    <3>3. image' \in Scene /\ cache' \in Scene
      BY <2>20 DEF EncodeDone
    <3> QED BY <2>20, <3>1, <3>2, <3>3 DEF EncodeDone
  <2>21. CASE RenderBusy   BY <2>21 DEF RenderBusy
  <2>22. CASE FifoSend     BY <2>22 DEF FifoSend, Delivered
  <2>23. CASE SocketSend   BY <2>23, ZenonT(60) DEF SocketSend
  <2>24. CASE SocketWrite  BY <2>24 DEF SocketWrite, Delivered
  <2>25. CASE RenderAwait  BY <2>25 DEF RenderAwait
  <2>26. CASE Recv
    <3>1. PICK n \in 0..Len(store) : /\ inbox' = SubSeq(store, 1, n)
                                     /\ store' = SubSeq(store, n + 1, Len(store))
      BY <2>26, BatchRange DEF Recv
    <3>2. inbox' \in Seq(Frame) /\ store' \in Seq(Frame)
      BY <3>1, Split
    <3> QED BY <2>26, <3>2 DEF Recv
  <2>27. CASE Apply
    <3>1. Head(inbox) \in Frame /\ Tail(inbox) \in Seq(Frame)
      BY <2>27 DEF Apply
    <3> QED BY <2>27, <3>1 DEF Apply, Frame
  <2>28. CASE Shut
    <3>1. isbusy' \in BOOLEAN
      BY <2>28 DEF Shut
    <3>2. linked' \in BOOLEAN
      BY <2>28 DEF Shut
    <3>3. UNCHANGED <<uivars, diffvars, rendvars, store, other, readvars>>
      BY <2>28 DEF Shut
    <3> QED BY <3>1, <3>2, <3>3
  <2>29. CASE UNCHANGED vars
    BY <2>29 DEF vars
  <2> QED
    BY NextCases, <2>1, <2>2, <2>3, <2>4, <2>5, <2>6, <2>7, <2>8, <2>9, <2>10,
       <2>11, <2>12, <2>13, <2>14, <2>15, <2>16, <2>17, <2>18, <2>19, <2>20,
       <2>21, <2>22, <2>23, <2>24, <2>25, <2>26, <2>27, <2>28, <2>29
<1> QED
  BY <1>1, <1>2, PTL DEF Spec

-----------------------------------------------------------------------------
(* The mutex of gate::diff and what it protects *)

\* Who owns the mutex is where the program counters say it is; ready is only
\* raised under the mutex, so it is down while the renderer encodes; once the
\* gate stops, alive stays down.
MutexInv ==
    /\ Owned
    /\ rpc = "encode" => ~ready
    /\ uipc \in {"stop", "unbusy", "join", "stopped"} => ~alive

\* The mutex discipline of diff::send, diff::stop and diff::render: the UI thread
\* never writes the cache while the render thread reads it.
THEOREM MutexCorrect == Spec => []MutexInv
<1>1. Init => MutexInv
  BY DEF Init, MutexInv, Owned
<1>2. Typed /\ MutexInv /\ [Next]_vars => MutexInv'
  <2> SUFFICES ASSUME Typed, MutexInv, [Next]_vars PROVE MutexInv'
    OBVIOUS
  <2> USE DEF MutexInv, Owned, uivars, diffvars, rendvars, pipevars, readvars
  <2>1. CASE Deface \/ SendOther \/ RebuildScene \/ Winsz \/ DiffSend \/ DiffBusy
    BY <2>1 DEF Deface, SendOther, RebuildScene, Winsz, DiffSend, DiffBusy
  <2>2. CASE DiffLock
    BY <2>2 DEF DiffLock
  <2>3. CASE DiffCommit
    BY <2>3 DEF DiffCommit, Notified
  <2>4. CASE BeginStop \/ StopRetry \/ StopUnbusy \/ StopJoin
    BY <2>4 DEF BeginStop, StopRetry, StopUnbusy, StopJoin
  <2>5. CASE StopNotify
    BY <2>5 DEF StopNotify, Notified
  <2>6. CASE RenderLock \/ RenderWait \/ RenderSpurious \/ RenderBegin \/ RenderEnd
    BY <2>6 DEF RenderLock, RenderWait, RenderSpurious, RenderBegin, RenderEnd, Typed
  <2>7. CASE EncodeAborted \/ RenderBusy \/ FifoSend \/ SocketSend \/ SocketWrite \/ RenderAwait
    BY <2>7 DEF EncodeAborted, RenderBusy, FifoSend, SocketSend, SocketWrite, RenderAwait
  <2>8. CASE EncodeDone
    BY <2>8 DEF EncodeDone, Typed
  <2>9. CASE Recv \/ Apply \/ Shut
    BY <2>9 DEF Recv, Apply, Shut
  <2>10. CASE UNCHANGED vars
    BY <2>10 DEF vars
  <2> QED
    BY NextCases, <2>1, <2>2, <2>3, <2>4, <2>5, <2>6, <2>7, <2>8, <2>9, <2>10
<1> QED
  BY <1>1, <1>2, TypesCorrect, PTL DEF Spec

\* Every variable keeps its type, and the mutex of gate::diff is owned by the
\* thread at work on the cache (diff::render sends without it).
THEOREM TypeCorrect == Spec => []TypeOK
<1>1. Typed /\ MutexInv => TypeOK
  BY DEF TypeOK, MutexInv
<1> QED
  BY <1>1, TypesCorrect, MutexCorrect, PTL

-----------------------------------------------------------------------------
(* Back pressure *)

\* Why two frames suffice.  While the renderer has not yet sent, at most one frame
\* is in the fifo.  A second one joins it only if nobody read the fifo since the
\* renderer raised the flag, and then the flag is still up, so the renderer waits
\* for a read, which empties the fifo.  Only stop and shut lower the flag without
\* emptying it; after either of them no further frame is encoded or accepted.
BacklogInv ==
    transport = "xlink" =>
        /\ Len(store) <= 2
        /\ rpc # "write"
        /\ rpc \in {"encode", "busy", "send"} => Len(store) <= 1 \/ ~linked
        /\ rpc = "send" => isbusy \/ store = <<>> \/ ~alive \/ ~linked
        /\ rpc = "await" => isbusy \/ Len(store) <= 1 \/ ~alive \/ ~linked
        /\ rpc \in {"lock", "check", "sleep"} => Len(store) <= 1 \/ ~alive \/ ~linked

\* The fifo between the renderer and the user never holds more than two frames,
\* however the reader, stop and shut race with the busy flag.
THEOREM BacklogCorrect == Spec => []BacklogBounded
<1>1. Init => BacklogInv
  BY DEF Init, BacklogInv
<1>2. Typed /\ MutexInv /\ BacklogInv /\ [Next]_vars => BacklogInv'
  <2> SUFFICES ASSUME Typed, MutexInv, BacklogInv, [Next]_vars, transport = "xlink"
               PROVE  BacklogInv'
    BY TransportKept DEF BacklogInv
  <2> USE DEF BacklogInv, uivars, diffvars, rendvars, pipevars, readvars
  <2>1. CASE Deface \/ SendOther \/ RebuildScene \/ Winsz \/ DiffSend \/ DiffLock \/ DiffBusy
    BY <2>1 DEF Deface, SendOther, RebuildScene, Winsz, DiffSend, DiffLock, DiffBusy
  <2>2. CASE DiffCommit
    BY <2>2 DEF DiffCommit, Notified
  <2>3. CASE BeginStop \/ StopRetry \/ StopUnbusy \/ StopJoin
    BY <2>3 DEF BeginStop, StopRetry, StopUnbusy, StopJoin, MutexInv, Owned
  <2>4. CASE StopNotify
    BY <2>4 DEF StopNotify, Notified
  <2>5. CASE RenderLock \/ RenderWait \/ RenderSpurious \/ RenderBegin \/ RenderEnd
    BY <2>5 DEF RenderLock, RenderWait, RenderSpurious, RenderBegin, RenderEnd
  <2>6. CASE EncodeAborted \/ EncodeDone \/ RenderBusy
    BY <2>6 DEF EncodeAborted, EncodeDone, RenderBusy
  <2>7. CASE FifoSend
    <3>1. CASE ~linked
      BY <2>7, <3>1 DEF FifoSend, Delivered
    <3>2. CASE linked
      <4>1. Len(store) <= 1 /\ Len(store') = Len(store) + 1
        BY <2>7, <3>2 DEF FifoSend, Delivered, Typed
      <4>2. isbusy \/ Len(store') <= 1 \/ ~alive
        BY <2>7, <3>2, <4>1 DEF FifoSend
      <4>3. Len(store') <= 2
        BY <4>1 DEF Typed
      <4> QED BY <2>7, <3>2, <4>2, <4>3 DEF FifoSend
    <3> QED BY <3>1, <3>2
  <2>8. CASE SocketSend \/ SocketWrite \/ RenderAwait
    BY <2>8 DEF SocketSend, SocketWrite, RenderAwait
  <2>9. CASE Recv
    <3>1. PICK n \in Batch : store' = SubSeq(store, n + 1, Len(store))
      BY <2>9 DEF Recv
    <3>2. n = Len(store)
      BY DEF Batch
    <3>3. Len(store') = 0 /\ store' \in Seq(Frame)
      BY <3>1, <3>2, Split DEF Typed
    <3>4. store' = <<>>
      BY <3>3
    <3> QED BY <2>9, <3>3, <3>4 DEF Recv
  <2>10. CASE Apply \/ Shut
    BY <2>10 DEF Apply, Shut
  <2>11. CASE UNCHANGED vars
    BY <2>11 DEF vars
  <2> QED
    BY NextCases, <2>1, <2>2, <2>3, <2>4, <2>5, <2>6, <2>7, <2>8, <2>9, <2>10, <2>11
<1>3. BacklogInv => BacklogBounded
  BY DEF BacklogInv, BacklogBounded
<1> QED
  BY <1>1, <1>2, <1>3, TypesCorrect, MutexCorrect, PTL DEF Spec

-----------------------------------------------------------------------------
(* No picture is forgotten *)

\* What the gate drew last is what the desktop looks like, unless it is ruined.
\* A picture it believes delivered is signalled in the cache, or it is the one being
\* encoded and was signalled after the last cancel, or the encoder has it.
PictureInv ==
    /\ uipc \in {"send", "try", "spin", "commit"} => canvas = scene
    /\ uipc = "idle" /\ ~ruined => canvas = scene
    /\ uipc = "idle" /\ yield /\ ~ruined =>
           /\ ready => cache = canvas
           /\ ~ready /\ rpc = "encode" => cache = canvas /\ ~abort
           /\ ~ready /\ rpc # "encode" => image = canvas

\* A picture that gate::rebuild_scene will not send again is never lost between
\* diff::send, a cancelled frame and the encoder.
THEOREM PictureCorrect == Spec => []NoLostPicture
<1>1. Init => PictureInv
  BY DEF Init, PictureInv
<1>2. Typed /\ MutexInv /\ PictureInv /\ [Next]_vars => PictureInv'
  <2> SUFFICES ASSUME Typed, MutexInv, PictureInv, [Next]_vars PROVE PictureInv'
    OBVIOUS
  <2> USE DEF PictureInv, uivars, diffvars, rendvars, pipevars, readvars
  <2>1. CASE Deface \/ SendOther \/ RebuildScene \/ Winsz
    BY <2>1 DEF Deface, SendOther, RebuildScene, Winsz
  <2>2. CASE DiffSend \/ DiffLock \/ DiffBusy
    BY <2>2 DEF DiffSend, DiffLock, DiffBusy
  <2>3. CASE DiffCommit
    BY <2>3 DEF DiffCommit, Notified
  <2>4. CASE BeginStop \/ StopRetry \/ StopUnbusy \/ StopJoin
    BY <2>4 DEF BeginStop, StopRetry, StopUnbusy, StopJoin
  <2>5. CASE StopNotify
    BY <2>5 DEF StopNotify, Notified
  <2>6. CASE RenderLock \/ RenderWait \/ RenderSpurious \/ RenderEnd
    BY <2>6 DEF RenderLock, RenderWait, RenderSpurious, RenderEnd
  <2>7. CASE RenderBegin
    BY <2>7 DEF RenderBegin
  <2>8. CASE EncodeAborted
    BY <2>8 DEF EncodeAborted, MutexInv, Owned
  <2>9. CASE EncodeDone
    BY <2>9 DEF EncodeDone, MutexInv, Owned
  <2>10. CASE RenderBusy \/ FifoSend \/ SocketSend \/ SocketWrite \/ RenderAwait
    BY <2>10 DEF RenderBusy, FifoSend, SocketSend, SocketWrite, RenderAwait
  <2>11. CASE Recv \/ Apply \/ Shut
    BY <2>11 DEF Recv, Apply, Shut
  <2>12. CASE UNCHANGED vars
    BY <2>12 DEF vars
  <2> QED
    BY NextCases, <2>1, <2>2, <2>3, <2>4, <2>5, <2>6, <2>7, <2>8, <2>9, <2>10,
       <2>11, <2>12
<1>3. PictureInv => NoLostPicture
  BY DEF PictureInv, NoLostPicture
<1> QED
  BY <1>1, <1>2, <1>3, TypesCorrect, MutexCorrect, PTL DEF Spec

-----------------------------------------------------------------------------
(* Frames are differences: they reach the screen as a chain *)

\* What leads on from the picture on the screen: the frames delivered.
Sent == inbox \o store

\* A frame encoded and not yet in the pipe.
Encoded == rpc \in {"busy", "send", "write"}

\* The picture that the next frame to be delivered is a difference from.
Base == IF Encoded THEN block.from ELSE image

\* The frames delivered lead from the screen to the picture the encoder had when
\* it sent the last of them: what a frame still to be delivered starts from.
\* After a shut they lead somewhere, and nothing joins them any more.
SyncInv ==
    /\ Encoded => block.to = image
    /\ \E last \in Scene :
          /\ Chain(screen, Sent, last)
          /\ linked => last = Base

LEMMA ChainAppend ==
    ASSUME NEW a, NEW q \in Seq(Frame), NEW f \in Frame, Chain(a, q, f.from)
    PROVE  Chain(a, Append(q, f), f.to)
<1> DEFINE t == Append(q, f)
<1>1. Len(t) = Len(q) + 1 /\ t[Len(q) + 1] = f /\ \A i \in 1..Len(q) : t[i] = q[i]
  OBVIOUS
<1>2. Len(q) \in Nat
  OBVIOUS
<1> HIDE DEF t
<1>3. \A i \in 1..Len(t) - 1 : t[i].to = t[i + 1].from
  <2> TAKE i \in 1..Len(t) - 1
  <2>1. CASE i = Len(q)
    BY <1>1, <1>2, <2>1 DEF Chain
  <2>2. CASE i # Len(q)
    <3>1. i \in 1..Len(q) - 1 /\ i + 1 \in 1..Len(q) /\ i \in 1..Len(q)
      BY <1>1, <1>2, <2>2
    <3> QED BY <1>1, <3>1 DEF Chain
  <2> QED BY <2>1, <2>2
<1>4. t[1].from = a /\ t[Len(t)].to = f.to
  <2>1. CASE Len(q) = 0
    BY <1>1, <2>1 DEF Chain
  <2>2. CASE Len(q) > 0
    <3>1. 1 \in 1..Len(q)
      BY <1>2, <2>2
    <3> QED BY <1>1, <2>2, <3>1 DEF Chain
  <2> QED BY <1>2, <2>1, <2>2
<1> QED
  BY <1>1, <1>2, <1>3, <1>4 DEF Chain, t

LEMMA ChainTail ==
    ASSUME NEW a, NEW q \in Seq(Frame), NEW b, q # <<>>, Chain(a, q, b)
    PROVE  Chain(q[1].to, Tail(q), b)
<1> DEFINE t == Tail(q)
<1>1. Len(q) \in Nat /\ Len(q) > 0
  OBVIOUS
<1>2. Len(t) = Len(q) - 1 /\ \A i \in 1..Len(t) : t[i] = q[i + 1]
  OBVIOUS
<1> HIDE DEF t
<1>3. \A i \in 1..Len(t) - 1 : t[i].to = t[i + 1].from
  <2> TAKE i \in 1..Len(t) - 1
  <2>1. i \in 1..Len(t) /\ i + 1 \in 1..Len(t) /\ i + 1 \in 1..Len(q) - 1
    BY <1>1, <1>2
  <2> QED BY <1>2, <2>1 DEF Chain
<1>4. Len(t) > 0 => t[1].from = q[1].to /\ t[Len(t)].to = b
  <2> HAVE Len(t) > 0
  <2>1. 1 \in 1..Len(t) /\ Len(t) \in 1..Len(t) /\ 1 \in 1..Len(q) - 1 /\ Len(t) + 1 = Len(q)
    BY <1>1, <1>2
  <2> QED BY <1>1, <1>2, <2>1 DEF Chain
<1>5. Len(t) = 0 => q[1].to = b
  <2> HAVE Len(t) = 0
  <2>1. Len(q) = 1
    BY <1>1, <1>2
  <2> QED BY <2>1 DEF Chain
<1> QED
  BY <1>3, <1>4, <1>5 DEF Chain, t

\* What the reader takes in one piece it applies frame by frame.
LEMMA SplitJoins ==
    ASSUME NEW S, NEW s \in Seq(S), NEW n \in 0..Len(s)
    PROVE  SubSeq(s, 1, n) \o SubSeq(s, n + 1, Len(s)) = s
<1> DEFINE u == SubSeq(s, 1, n)
           v == SubSeq(s, n + 1, Len(s))
<1>1. u \in Seq(S) /\ v \in Seq(S) /\ Len(u) = n /\ Len(v) = Len(s) - n
  BY Split
<1>2. /\ \A i \in 1..n : u[i] = s[i]
      /\ \A i \in 1..Len(s) - n : v[i] = s[n + i]
  OBVIOUS
<1>3. Len(s) \in Nat /\ n \in Nat /\ n <= Len(s)
  OBVIOUS
<1> HIDE DEF u, v
<1>4. /\ Len(u \o v) = Len(s) /\ u \o v \in Seq(S)
      /\ \A i \in 1..Len(s) : (u \o v)[i] = IF i <= n THEN u[i] ELSE v[i - n]
  BY <1>1, <1>3, ConcatProperties
<1>5. ASSUME NEW i \in 1..Len(s) PROVE (u \o v)[i] = s[i]
  <2>1. CASE i <= n
    BY <1>2, <1>3, <1>4, <2>1
  <2>2. CASE ~(i <= n)
    <3>1. i - n \in 1..Len(s) - n /\ n + (i - n) = i
      BY <1>3, <2>2
    <3> QED BY <1>2, <1>4, <2>2, <3>1
  <2> QED BY <2>1, <2>2
<1>6. u \o v = s
  <2> DEFINE w == u \o v
  <2> HIDE DEF w
  <2>1. w \in Seq(S) /\ Len(w) = Len(s) /\ \A i \in 1..Len(s) : w[i] = s[i]
    BY <1>4, <1>5 DEF w
  <2>2. w = s
    BY <2>1
  <2> QED BY <2>2 DEF w
<1> QED
  BY <1>6 DEF u, v

LEMMA AppendBehind ==
    ASSUME NEW S, NEW p \in Seq(S), NEW q \in Seq(S), NEW x \in S
    PROVE  p \o Append(q, x) = Append(p \o q, x)
  OBVIOUS

LEMMA TailBefore ==
    ASSUME NEW S, NEW p \in Seq(S), NEW q \in Seq(S), p # <<>>
    PROVE  /\ Tail(p) \o q = Tail(p \o q)
           /\ p \o q # <<>> /\ (p \o q)[1] = Head(p)
  OBVIOUS

LEMMA SentType == Typed => Sent \in Seq(Frame) /\ Sent' = inbox' \o store'
  BY DEF Typed, Sent

\* A step that leaves the frames and where they start alone, and what the next one
\* is made from, or the pipe shut.
LEMMA SyncKept ==
    ASSUME Typed, SyncInv, UNCHANGED <<screen, inbox, store>>,
           linked' => linked /\ Base' = Base, Encoded' => block'.to = image'
    PROVE  SyncInv'
<1>1. PICK last \in Scene : Chain(screen, Sent, last) /\ (linked => last = Base)
  BY DEF SyncInv
<1>2. Chain(screen, Sent, last)'
  BY <1>1 DEF Chain, Sent
<1>3. linked' => last = Base'
  BY <1>1
<1> QED
  BY <1>2, <1>3 DEF SyncInv

\* However the renderer is cancelled, stopped or shut out, a frame that reaches the
\* user is applied to the very picture it was made from.
LEMMA SyncInductive == Typed /\ SyncInv /\ [Next]_vars => SyncInv'
<1> SUFFICES ASSUME Typed, SyncInv, [Next]_vars PROVE SyncInv'
  OBVIOUS
<1> USE DEF uivars, diffvars, rendvars, pipevars, readvars
<1>1. CASE Deface \/ SendOther \/ RebuildScene \/ Winsz \/ DiffSend \/ DiffLock \/ DiffBusy
  BY <1>1, SyncKept DEF Deface, SendOther, RebuildScene, Winsz, DiffSend, DiffLock,
     DiffBusy, SyncInv, Base, Encoded
<1>2. CASE DiffCommit
  BY <1>2, SyncKept DEF DiffCommit, Notified, SyncInv, Base, Encoded
<1>3. CASE BeginStop
  <2>1. linked' => linked
    BY <1>3 DEF BeginStop
  <2> QED
    BY <1>3, <2>1, SyncKept DEF BeginStop, SyncInv, Base, Encoded
<1>4. CASE StopRetry \/ StopUnbusy \/ StopJoin
  BY <1>4, SyncKept DEF StopRetry, StopUnbusy, StopJoin, SyncInv, Base, Encoded
<1>5. CASE StopNotify
  BY <1>5, SyncKept DEF StopNotify, Notified, SyncInv, Base, Encoded
<1>6. CASE RenderLock \/ RenderWait \/ RenderSpurious \/ RenderBegin \/ RenderEnd \/ EncodeAborted
  BY <1>6, SyncKept DEF RenderLock, RenderWait, RenderSpurious, RenderBegin, RenderEnd,
     EncodeAborted, SyncInv, Base, Encoded
<1>7. CASE EncodeDone
  <2>1. CASE cache = image
    BY <1>7, <2>1, SyncKept DEF EncodeDone, SyncInv, Base, Encoded
  <2>2. CASE cache # image
    BY <1>7, <2>2, SyncKept DEF EncodeDone, Base, Encoded
  <2> QED
    BY <2>1, <2>2
<1>8. CASE RenderBusy \/ SocketSend \/ RenderAwait
  BY <1>8, SyncKept DEF RenderBusy, SocketSend, RenderAwait, SyncInv, Base, Encoded
<1>9. CASE FifoSend \/ SocketWrite
  <2>1. /\ Encoded /\ ~Encoded' /\ store' = Delivered
        /\ UNCHANGED <<image, block, linked, screen, inbox>>
    BY <1>9 DEF FifoSend, SocketWrite, Encoded
  <2>2. CASE ~linked
    BY <2>1, <2>2, SyncKept DEF Delivered
  <2>3. CASE linked
    <3>1. Chain(screen, Sent, block.from) /\ block.to = image
      BY <2>1, <2>3 DEF SyncInv, Base
    <3>2. Sent' = Append(Sent, block)
      BY <2>1, <2>3, AppendBehind DEF Delivered, Sent, Typed
    <3>3. Chain(screen, Sent', block.to)
      BY <3>1, <3>2, SentType, ChainAppend DEF Typed
    <3>4. Base' = image
      BY <2>1 DEF Base
    <3> QED
      BY <2>1, <3>1, <3>3, <3>4 DEF SyncInv, Typed, Chain
  <2> QED
    BY <2>2, <2>3
<1>10. CASE Recv
  <2>1. PICK n \in 0..Len(store) : /\ inbox' = SubSeq(store, 1, n)
                                   /\ store' = SubSeq(store, n + 1, Len(store))
    BY <1>10, BatchRange DEF Recv, Typed
  <2>2. Sent' = store /\ Sent = store
    BY <1>10, <2>1, SplitJoins, ConcatEmptySeq DEF Recv, Sent, Typed
  <2>3. UNCHANGED <<screen, linked, rpc, image, block>>
    BY <1>10 DEF Recv
  <2> QED
    BY <2>2, <2>3 DEF SyncInv, Base, Encoded, Chain
<1>11. CASE Apply
  <2>1. /\ Sent' = Tail(Sent) /\ Sent # <<>> /\ screen' = Sent[1].to
        /\ UNCHANGED <<linked, rpc, image, block>>
    BY <1>11, TailBefore DEF Apply, Sent, Typed
  <2>2. PICK last \in Scene : Chain(screen, Sent, last) /\ (linked => last = Base)
    BY DEF SyncInv
  <2>3. Chain(screen', Sent', last)
    BY <2>1, <2>2, SentType, ChainTail
  <2> QED
    BY <2>1, <2>2, <2>3 DEF SyncInv, Base, Encoded, Chain
<1>12. CASE Shut
  BY <1>12, SyncKept DEF Shut, SyncInv, Encoded
<1>13. CASE UNCHANGED vars
  BY <1>13, SyncKept DEF vars, SyncInv, Base, Encoded
<1> QED
  BY NextCases, <1>1, <1>2, <1>3, <1>4, <1>5, <1>6, <1>7, <1>8, <1>9, <1>10, <1>11,
     <1>12, <1>13

LEMMA SyncInit == Init => SyncInv
<1> SUFFICES ASSUME Init PROVE SyncInv
  OBVIOUS
<1>1. Sent = <<>> /\ Len(<<>>) = 0 /\ 0 \in Scene
  BY ConcatEmptySeq, BoundsAssumption DEF Init, Sent, Scene
<1>2. ~Encoded /\ Base = 0 /\ screen = 0
  BY DEF Init, Encoded, Base
<1> QED
  BY <1>1, <1>2 DEF SyncInv, Chain

LEMMA SyncImplies == Typed /\ SyncInv => FramesInSync
<1> SUFFICES ASSUME Typed, SyncInv, linked
             PROVE  Chain(screen, Sent \o Pending, image)
  <2> inbox \o store \o Pending = Sent \o Pending
    BY DEF Sent
  <2> QED BY DEF FramesInSync
<1>1. Chain(screen, Sent, Base) /\ Sent \in Seq(Frame) /\ block \in Frame
  BY SentType DEF SyncInv, Typed
<1>2. CASE Encoded
  <2>1. Sent \o Pending = Append(Sent, block)
    BY <1>1, <1>2, AppendIsConcat DEF Pending, Encoded
  <2>2. Base = block.from /\ block.to = image
    BY <1>2 DEF Base, SyncInv
  <2> QED
    BY <1>1, <2>1, <2>2, ChainAppend
<1>3. CASE ~Encoded
  <2>1. Sent \o Pending = Sent
    BY <1>1, <1>3, ConcatEmptySeq DEF Pending, Encoded
  <2> QED
    BY <1>1, <1>3, <2>1 DEF Base
<1> QED
  BY <1>2, <1>3

\* The frames under way always form a chain from the picture the user sees to the
\* picture the encoder remembers (bitmap::set, diff::render, pipe).
THEOREM SyncCorrect == Spec => []FramesInSync
  BY SyncInit, SyncInductive, SyncImplies, TypesCorrect, PTL DEF Spec

-----------------------------------------------------------------------------
(* The screen only moves forward *)

\* Pictures reach the cache and the encoder in the order they were drawn: what the
\* renderer is told to encode is never older than what it sent last.  (The swap
\* leaves an older picture in the cache, which ready = FALSE keeps from being sent;
\* after stop ready goes up without a picture, but then nothing is encoded.)
OrderInv ==
    /\ image <= canvas /\ cache <= canvas /\ canvas <= scene
    /\ (ready /\ alive) \/ rpc = "encode" => image <= cache

LEMMA OrderInductive == Typed /\ MutexInv /\ OrderInv /\ [Next]_vars => OrderInv'
<1> SUFFICES ASSUME Typed, MutexInv, OrderInv, [Next]_vars PROVE OrderInv'
  OBVIOUS
<1>0. scene \in Nat /\ canvas \in Nat /\ image \in Nat /\ cache \in Nat
  BY BoundsAssumption DEF Typed, Scene
<1> USE DEF OrderInv, uivars, diffvars, rendvars, pipevars, readvars
<1>1. CASE Deface \/ SendOther \/ RebuildScene \/ Winsz
  BY <1>0, <1>1 DEF Deface, SendOther, RebuildScene, Winsz
<1>2. CASE DiffSend \/ DiffLock \/ DiffBusy
  BY <1>2 DEF DiffSend, DiffLock, DiffBusy
<1>3. CASE DiffCommit
  BY <1>0, <1>3 DEF DiffCommit, Notified
<1>4. CASE BeginStop \/ StopRetry \/ StopUnbusy \/ StopJoin
  BY <1>4 DEF BeginStop, StopRetry, StopUnbusy, StopJoin
<1>5. CASE StopNotify
  BY <1>5 DEF StopNotify, Notified, MutexInv, Owned
<1>6. CASE RenderLock \/ RenderWait \/ RenderSpurious \/ RenderBegin \/ RenderEnd
  BY <1>6 DEF RenderLock, RenderWait, RenderSpurious, RenderBegin, RenderEnd
<1>7. CASE EncodeAborted
  BY <1>7 DEF EncodeAborted
<1>8. CASE EncodeDone
  BY <1>0, <1>8 DEF EncodeDone, MutexInv, Owned
<1>9. CASE RenderBusy \/ FifoSend \/ SocketSend \/ SocketWrite \/ RenderAwait
  BY <1>9 DEF RenderBusy, FifoSend, SocketSend, SocketWrite, RenderAwait
<1>10. CASE Recv \/ Apply \/ Shut
  BY <1>10 DEF Recv, Apply, Shut
<1>11. CASE UNCHANGED vars
  BY <1>11 DEF vars
<1> QED
  BY NextCases, <1>1, <1>2, <1>3, <1>4, <1>5, <1>6, <1>7, <1>8, <1>9, <1>10, <1>11

\* Every frame leads from a picture to one drawn later.
Rises(f) == f.from < f.to /\ f.to <= scene

RiseInv ==
    /\ \A i \in 1..Len(store) : Rises(store[i])
    /\ \A i \in 1..Len(inbox) : Rises(inbox[i])
    /\ Encoded => Rises(block)

LEMMA RiseKept ==
    ASSUME Typed, RiseInv, UNCHANGED <<inbox, store>>,
           scene' \in Nat, scene <= scene',
           Encoded' => (Encoded /\ block' = block) \/ Rises(block)'
    PROVE  RiseInv'
<1>0. scene \in Nat /\ \A f \in Frame : f.to \in Nat
  BY BoundsAssumption DEF Typed, Scene, Frame
<1>1. \A f \in Frame : Rises(f) => f.from < f.to /\ f.to <= scene'
  BY <1>0 DEF Rises
<1>2. \A i \in 1..Len(store) : store[i] \in Frame
  BY DEF Typed
<1>3. \A i \in 1..Len(inbox) : inbox[i] \in Frame
  BY DEF Typed
<1>4. block \in Frame
  BY DEF Typed
<1> QED
  BY <1>1, <1>2, <1>3, <1>4 DEF RiseInv, Rises

LEMMA RiseInductive ==
    Typed /\ MutexInv /\ OrderInv /\ RiseInv /\ [Next]_vars => RiseInv'
<1> SUFFICES ASSUME Typed, MutexInv, OrderInv, RiseInv, [Next]_vars PROVE RiseInv'
  OBVIOUS
<1>0. scene \in Nat /\ canvas \in Nat /\ image \in Nat /\ cache \in Nat
  BY BoundsAssumption DEF Typed, Scene
<1> USE DEF uivars, diffvars, rendvars, pipevars, readvars
<1>1. CASE Deface
  <2>1. scene' \in Nat /\ scene <= scene'
    BY <1>0, <1>1 DEF Deface, Scene
  <2> QED BY <1>1, <2>1, RiseKept DEF Deface, Encoded
<1>2. CASE Winsz
  <2>1. scene' \in Nat /\ scene <= scene'
    BY <1>0, <1>2 DEF Winsz
  <2> QED BY <1>2, <2>1, RiseKept DEF Winsz, Encoded
<1>3. CASE SendOther \/ RebuildScene \/ DiffSend \/ DiffLock \/ DiffBusy
  BY <1>0, <1>3, RiseKept DEF SendOther, RebuildScene, DiffSend, DiffLock, DiffBusy, Encoded
<1>4. CASE DiffCommit
  BY <1>0, <1>4, RiseKept DEF DiffCommit, Notified, Encoded
<1>5. CASE BeginStop \/ StopRetry \/ StopUnbusy \/ StopJoin
  BY <1>0, <1>5, RiseKept DEF BeginStop, StopRetry, StopUnbusy, StopJoin, Encoded
<1>6. CASE StopNotify
  BY <1>0, <1>6, RiseKept DEF StopNotify, Notified, Encoded
<1>7. CASE RenderLock \/ RenderWait \/ RenderSpurious \/ RenderBegin \/ RenderEnd \/ EncodeAborted
  BY <1>0, <1>7, RiseKept DEF RenderLock, RenderWait, RenderSpurious, RenderBegin, RenderEnd,
     EncodeAborted, Encoded
<1>8. CASE EncodeDone
  <2>1. UNCHANGED <<inbox, store, scene>>
    BY <1>8 DEF EncodeDone
  <2>2. Encoded' => block' = [from |-> image, to |-> cache] /\ cache # image
    BY <1>8 DEF EncodeDone, Encoded
  <2>3. image <= cache /\ cache <= scene
    BY <1>0, <1>8 DEF EncodeDone, OrderInv
  <2>4. Encoded' => Rises(block)'
    BY <1>0, <2>1, <2>2, <2>3 DEF Rises
  <2> QED
    BY <1>0, <2>1, <2>4, RiseKept
<1>9. CASE RenderBusy \/ SocketSend \/ RenderAwait
  BY <1>0, <1>9, RiseKept DEF RenderBusy, SocketSend, RenderAwait, Encoded
<1>10. CASE FifoSend \/ SocketWrite
  <2>1. /\ Encoded /\ ~Encoded' /\ store' = Delivered /\ UNCHANGED <<inbox, scene>>
    BY <1>10 DEF FifoSend, SocketWrite, Encoded
  <2>2. \A i \in 1..Len(store') : store'[i] = block \/ \E j \in 1..Len(store) : store'[i] = store[j]
    BY <2>1 DEF Delivered, Typed
  <2> QED
    BY <2>1, <2>2 DEF RiseInv, Rises
<1>11. CASE Recv
  <2>1. PICK n \in 0..Len(store) : /\ inbox' = SubSeq(store, 1, n)
                                   /\ store' = SubSeq(store, n + 1, Len(store))
    BY <1>11, BatchRange DEF Recv, Typed
  <2>2. UNCHANGED <<scene, rpc, block>>
    BY <1>11 DEF Recv
  <2>3. \A i \in 1..Len(inbox') : \E j \in 1..Len(store) : inbox'[i] = store[j]
    BY <2>1 DEF Typed
  <2>4. \A i \in 1..Len(store') : \E j \in 1..Len(store) : store'[i] = store[j]
    BY <2>1 DEF Typed
  <2> QED
    BY <2>2, <2>3, <2>4 DEF RiseInv, Rises, Encoded
<1>12. CASE Apply
  <2>1. inbox' = Tail(inbox) /\ inbox # <<>> /\ UNCHANGED <<store, scene, rpc, block>>
    BY <1>12 DEF Apply
  <2>2. \A i \in 1..Len(inbox') : \E j \in 1..Len(inbox) : inbox'[i] = inbox[j]
    BY <2>1 DEF Typed
  <2> QED
    BY <2>1, <2>2 DEF RiseInv, Rises, Encoded
<1>13. CASE Shut
  BY <1>0, <1>13, RiseKept DEF Shut, Encoded
<1>14. CASE UNCHANGED vars
  BY <1>0, <1>14, RiseKept DEF vars, Encoded
<1> QED
  BY NextCases, <1>1, <1>2, <1>3, <1>4, <1>5, <1>6, <1>7, <1>8, <1>9, <1>10, <1>11,
     <1>12, <1>13, <1>14

\* What the step proof of the refinement stands on.
PipeInv == Typed /\ MutexInv /\ SyncInv /\ OrderInv /\ RiseInv

LEMMA PipeInvariant == Spec => []PipeInv
<1>1. Init => OrderInv /\ RiseInv
  BY BoundsAssumption DEF Init, OrderInv, RiseInv, Encoded
<1> QED
  BY <1>1, SyncInit, SyncInductive, OrderInductive, RiseInductive, TypesCorrect,
     MutexCorrect, PTL DEF Spec, PipeInv

\* Applying a frame moves the screen forward, to a picture that was drawn.
LEMMA ApplyShows == PipeInv /\ Apply => View!Show
<1> SUFFICES ASSUME PipeInv, Apply PROVE View!Show
  OBVIOUS
<1>1. /\ inbox # <<>> /\ inbox \in Seq(Frame) /\ store \in Seq(Frame)
      /\ screen' = Head(inbox).to /\ UNCHANGED <<scene, linked, alive>>
  BY DEF Apply, PipeInv, Typed, uivars, diffvars, rendvars, pipevars
<1>2. Head(inbox) \in Frame /\ Rises(Head(inbox))
  BY <1>1 DEF PipeInv, RiseInv
<1>3. Head(inbox).from = screen
  <2>1. Sent # <<>> /\ Sent[1] = Head(inbox) /\ Sent \in Seq(Frame)
    BY <1>1, TailBefore, SentType DEF Sent, PipeInv
  <2>2. PICK last \in Scene : Chain(screen, Sent, last)
    BY DEF PipeInv, SyncInv
  <2> QED BY <2>1, <2>2 DEF Chain
<1>4. screen \in Nat /\ Head(inbox).to \in Nat /\ scene \in Nat
  BY <1>2, BoundsAssumption DEF PipeInv, Typed, Scene, Frame
<1> QED
  BY <1>1, <1>2, <1>3, <1>4 DEF View!Show, Rises

\* Every step of the pipe is a step of what the user may rely on, or none at all:
\* a change of the picture, a frame applied, the end of the connection.
LEMMA StepRefines == PipeInv /\ [Next]_vars => [View!Next]_(View!vars)
<1> SUFFICES ASSUME PipeInv, [Next]_vars PROVE View!Next \/ UNCHANGED <<scene, screen, linked /\ alive>>
  BY DEF View!vars
<1>0. scene \in 0..MaxScene /\ MaxScene \in Nat
  BY BoundsAssumption DEF PipeInv, Typed, Scene
<1> USE DEF uivars, diffvars, rendvars, pipevars, readvars
<1>1. CASE Deface
  BY <1>0, <1>1 DEF Deface, Scene, View!Next, View!Draw
<1>2. CASE Winsz
  BY <1>0, <1>2 DEF Winsz, View!Next, View!Draw
<1>3. CASE BeginStop
  <2>1. ~(linked /\ alive)' /\ UNCHANGED <<scene, screen>>
    BY <1>3 DEF BeginStop
  <2> QED BY <2>1 DEF View!Next, View!Close
<1>4. CASE Shut
  <2>1. ~(linked /\ alive)' /\ UNCHANGED <<scene, screen>>
    BY <1>4 DEF Shut
  <2> QED BY <2>1 DEF View!Next, View!Close
<1>5. CASE Apply
  BY <1>5, ApplyShows DEF View!Next
<1>6. CASE SendOther \/ RebuildScene \/ DiffSend \/ DiffLock \/ DiffBusy \/ DiffCommit
  BY <1>6 DEF SendOther, RebuildScene, DiffSend, DiffLock, DiffBusy, DiffCommit
<1>7. CASE StopRetry \/ StopNotify \/ StopUnbusy \/ StopJoin
  BY <1>7 DEF StopRetry, StopNotify, StopUnbusy, StopJoin
<1>8. CASE \/ RenderLock \/ RenderWait \/ RenderSpurious \/ RenderBegin \/ RenderEnd
           \/ EncodeAborted \/ RenderBusy \/ FifoSend \/ SocketSend \/ SocketWrite \/ RenderAwait
  BY <1>8 DEF RenderLock, RenderWait, RenderSpurious, RenderBegin, RenderEnd, EncodeAborted,
     RenderBusy, FifoSend, SocketSend, SocketWrite, RenderAwait
<1>9. CASE EncodeDone
  BY <1>9 DEF EncodeDone
<1>10. CASE Recv
  BY <1>10 DEF Recv
<1>11. CASE UNCHANGED vars
  BY <1>11 DEF vars
<1> QED
  BY NextCases, <1>1, <1>2, <1>3, <1>4, <1>5, <1>6, <1>7, <1>8, <1>9, <1>10, <1>11

\* The pipe implements LatestFrame but for its liveness: the user sees pictures in
\* the order they were drawn, each at most once, and none that was not drawn.
THEOREM ShowsInOrder == Spec => View!Safety
<1>1. Init => View!Init
  BY DEF Init, View!Init
<1> QED
  BY <1>1, PipeInvariant, StepRefines, PTL DEF Spec, View!Safety
==============================================================================
