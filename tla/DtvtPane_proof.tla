--------------------------- MODULE DtvtPane_proof ---------------------------
(***************************************************************************)
(* What a pane may rely on whatever the application, the user and the      *)
(* client do: the stream to the application is kept, and threads are       *)
(* joined safely.  ShapeInv says where the threads are when a task that    *)
(* shutdown_fx has deferred is queued, and what that task finds.           *)
(***************************************************************************)
EXTENDS DtvtPane, SequenceTheorems, TLAPS

Tasks == {"close", "leave"}
Kinds == {"cfg", "event", "close"}

\* None of the tasks q is one of shutdown_fx.
NoLeave(q) == \A i \in DOMAIN q : q[i] # "leave"

\* The reading thread queues such a task last, after the writing thread; the
\* tasks join it; only its pastes wait for the clipboard.
ShapeInv == /\ worker # "idle" => jobs # <<>>
            /\ reader = "ended" \/ NoLeave(jobs)
            /\ reader = "ended" => writer \in {"none", "ended"}
            /\ reader \in {"prepare", "attach"} => writer = "none"
            /\ worker = "leave" => reader = "ended"
            /\ quit => reader = "ended"
            /\ clip # "none" => reader = "pasted"

\* The tasks after one more is queued, and after the first is done.
LEMMA TaskFacts ==
  ASSUME NEW q \in Seq(Tasks), NEW x \in Tasks
  PROVE  /\ Append(q, x) \in Seq(Tasks) /\ Append(q, x) # <<>>
         /\ q # <<>> => Head(Append(q, x)) = Head(q)
         /\ NoLeave(q) /\ x # "leave" => NoLeave(Append(q, x))
         /\ NoLeave(q) /\ q # <<>> => Head(q) # "leave"
<1> DEFINE r == Append(q, x)
<1>1. /\ r \in Seq(Tasks) /\ Len(r) = Len(q) + 1 /\ r[Len(q) + 1] = x
      /\ \A i \in 1..Len(q) : r[i] = q[i]
  OBVIOUS
<1>2. Len(q) \in Nat /\ DOMAIN q = 1..Len(q) /\ DOMAIN r = 1..Len(r)
  BY <1>1, LenProperties
<1>3. \A s \in Seq(Tasks) : s # <<>> => Len(s) > 0 /\ Head(s) = s[1]
  OBVIOUS
<1> HIDE DEF r
<1>4. r # <<>>
  BY <1>1, <1>2, EmptySeq
<1>5. q # <<>> => Head(r) = Head(q)
  BY <1>1, <1>2, <1>3, <1>4
<1>6. NoLeave(q) /\ x # "leave" => NoLeave(r)
  BY <1>1, <1>2 DEF NoLeave
<1>7. NoLeave(q) /\ q # <<>> => Head(q) # "leave"
  BY <1>2, <1>3 DEF NoLeave
<1> QED
  BY <1>1, <1>4, <1>5, <1>6, <1>7 DEF r

LEMMA RestFacts ==
  ASSUME NEW q \in Seq(Tasks), q # <<>>
  PROVE  Tail(q) \in Seq(Tasks) /\ Head(q) \in Tasks /\ (NoLeave(q) => NoLeave(Tail(q)))
<1>1. Tail(q) \in Seq(Tasks) /\ Head(q) \in Tasks
  OBVIOUS
<1>2. \A i \in DOMAIN Tail(q) : i + 1 \in DOMAIN q /\ Tail(q)[i] = q[i + 1]
  OBVIOUS
<1> QED
  BY <1>1, <1>2 DEF NoLeave

\* A packet is put behind the others, and a waiting writing thread goes on.
LEMMA OutputFacts ==
  ASSUME TypeOK, NEW kind \in Kinds, Output(kind)
  PROVE  /\ writebuf' \in Seq(Packets) /\ made' \in Seq(Packets)
         /\ cache' = cache /\ sent' = sent /\ missed' = missed
         /\ writer # "doze"
         /\ writer' = (IF writer = "sleep" THEN "test" ELSE writer)
<1>1. <<kind, Len(made)>> \in Packets
  BY DEF TypeOK, Packets, Kinds
<1> QED
  BY <1>1 DEF Output, TypeOK

\* A request to close changes these things only.
LEMMA StopFacts ==
  ASSUME TypeOK, NEW fast \in BOOLEAN, NEW now \in BOOLEAN, NEW rest \in Seq(Tasks),
         Stop(fast, now, rest)
  PROVE  /\ tail' \in {"none", "open", "closed"} /\ active' \in BOOLEAN
         /\ jobs' \in {rest, Append(rest, "close")} /\ jobs' \in Seq(Tasks)
         /\ Output("close") \/ UNCHANGED ioVars
         /\ UNCHANGED <<shown, attached, link, app, quit>>
         /\ ~fast \/ jobs' # <<>>
<1>1. Append(rest, "close") \in Seq(Tasks) /\ Append(rest, "close") # <<>>
  BY TaskFacts DEF Tasks
<1>2. /\ tail' \in {"none", "open", "closed"} /\ active' \in BOOLEAN
      /\ UNCHANGED <<shown, attached, link, app, quit>>
  BY DEF Stop, TypeOK
<1>3. jobs' \in {rest, Append(rest, "close")} /\ (~fast \/ jobs' # <<>>)
  BY <1>1 DEF Stop, Kind
<1>4. Output("close") \/ UNCHANGED ioVars
  BY DEF Stop
<1> QED
  BY <1>1, <1>2, <1>3, <1>4

\* Who takes or gives back the UI lock, and what else the actions do, keeps the
\* types and the shape.
LEMMA ShapeCorrect == Spec => [](TypeOK /\ ShapeInv)
<1> USE BoundsAssumption
<1>1. Init => TypeOK /\ ShapeInv
  <2> SUFFICES ASSUME Init PROVE TypeOK /\ ShapeInv
    OBVIOUS
  <2>1. /\ <<>> \in Seq(Packets) /\ <<>> \in Seq({"close", "leave"})
        /\ <<>> \in Seq({"clipdata", "request_img"}) /\ NoLeave(<<>>)
    BY DEF NoLeave
  <2>2. TypeOK
    <3>1. /\ active \in BOOLEAN /\ shown \in BOOLEAN /\ attached \in BOOLEAN
          /\ linked \in BOOLEAN /\ dodged \in BOOLEAN /\ quit \in BOOLEAN /\ missed \in BOOLEAN
          /\ client \in BOOLEAN
      BY DEF Init
    <3>2. stops \in 0..MaxStops
      BY DEF Init
    <3> QED
      BY <2>1, <3>1, <3>2 DEF Init, TypeOK
  <2>3. ShapeInv
    BY <2>1 DEF Init, ShapeInv
  <2> QED
    BY <2>2, <2>3
<1>2. TypeOK /\ ShapeInv /\ [Next]_vars => (TypeOK /\ ShapeInv)'
  <2> SUFFICES ASSUME TypeOK, ShapeInv, [Next]_vars
               PROVE  TypeOK' /\ ShapeInv'
    OBVIOUS
  <2> USE DEF link, paneVars, ioVars, gateVars, paneSide
  <2>1. CASE Test
    <3>1. /\ UNCHANGED <<ui, paneVars, sent, made, reader, jobs, worker, clip,
                         gateVars, stops>>
          /\ missed' \in BOOLEAN /\ writer = "test" /\ writer' \in {"ended", "doze", "send"}
      BY <2>1 DEF Test
    <3>2. writebuf' \in Seq(Packets) /\ cache' \in Seq(Packets)
      BY <2>1 DEF Test, Swap, TypeOK
    <3> QED
      BY <3>1, <3>2 DEF TypeOK, ShapeInv
  <2>2. CASE Sleep \/ Stir
    BY <2>2 DEF Sleep, Stir, TypeOK, ShapeInv
  <2>3. CASE Send
    <3>1. sent \o cache \in Seq(Packets) /\ <<>> \in Seq(Packets)
      BY ConcatProperties DEF TypeOK
    <3> QED
      <4>1. /\ UNCHANGED <<ui, active, shown, tail, app, quit, writebuf, made, missed,
                           jobs, worker, clip, gateVars, stops>>
            /\ writer = "send" /\ writer' \in {"test", "ended"}
        BY <2>3 DEF Send
      <4>2. sent' \in Seq(Packets) /\ cache' \in Seq(Packets)
        BY <2>3, <3>1 DEF Send, TypeOK
      <4>3. attached' \in BOOLEAN /\ linked' \in BOOLEAN /\ dodged' \in BOOLEAN
        BY <2>3 DEF Send, Abort, TypeOK
      <4>4. reader' = reader \/ (reader = "recv" /\ reader' = "detach")
        BY <2>3 DEF Send, Abort
      <4> QED
        BY <4>1, <4>2, <4>3, <4>4 DEF TypeOK, ShapeInv
  <2>4. CASE Prepare
    <3>1. /\ <<<<"cfg", 0>>>> \o writebuf \in Seq(Packets)
          /\ <<<<"cfg", 0>>>> \o made \in Seq(Packets)
      <4>1. <<<<"cfg", 0>>>> \in Seq(Packets)
        BY DEF Packets
      <4> QED
        BY <4>1, ConcatProperties DEF TypeOK
    <3>2. writebuf' \in Seq(Packets) /\ made' \in Seq(Packets)
      BY <2>4, <3>1 DEF Prepare, TypeOK
    <3>3. CASE jobs' = jobs /\ reader' = "attach" /\ app' = "running"
      BY <2>4, <3>2, <3>3 DEF Prepare, TypeOK, ShapeInv
    <3>4. CASE jobs' = Append(jobs, "leave") /\ reader' = "ended" /\ app' = "gone"
      <4>1. /\ jobs' \in Seq({"close", "leave"}) /\ jobs' # <<>>
            /\ jobs # <<>> => Head(jobs') = Head(jobs)
        BY <3>4, TaskFacts DEF TypeOK, Tasks
      <4> QED
        BY <2>4, <3>2, <3>4, <4>1 DEF Prepare, TypeOK, ShapeInv
    <3>5. \/ jobs' = jobs /\ reader' = "attach" /\ app' = "running"
          \/ jobs' = Append(jobs, "leave") /\ reader' = "ended" /\ app' = "gone"
      BY ONLY <2>4 DEF Prepare
    <3> QED
      BY <3>3, <3>4, <3>5
  <2>5. CASE Attach \/ Detach \/ Read \/ Enter \/ Hangup
    <3>1. /\ UNCHANGED <<ui, active, shown, link, tail, app, quit, writebuf, cache, sent,
                         made, missed, jobs, worker, clip, gateVars, stops>>
          /\ \/ reader = "attach" /\ reader' = "read" /\ writer' = "test"
             \/ reader = "read" /\ reader' \in {"enter", "detach"} /\ writer' = writer
             \/ reader = "enter" /\ reader' = "recv" /\ writer' = writer
             \/ reader = "recv" /\ reader' = "detach" /\ writer' = writer
             \/ reader = "detach" /\ reader' = "notify" /\ writer' = writer
      BY <2>5 DEF Attach, Detach, Read, Enter, Hangup, ReaderAt
    <3>2. attached' \in BOOLEAN
      BY <2>5 DEF Attach, Detach, Read, Enter, Hangup, TypeOK
    <3> QED
      BY <3>1, <3>2 DEF TypeOK, ShapeInv
  <2>6. CASE Message
    <3>1. /\ UNCHANGED <<ui, active, attached, link, tail, app, quit, ioVars, jobs,
                         worker, clip, gateVars, stops>>
          /\ reader = "recv" /\ reader' \in {"detach", "request", "lock", "read"}
      BY <2>6 DEF Message
    <3>2. shown' \in BOOLEAN
      BY <2>6 DEF Message, TypeOK
    <3>3. TypeOK'
      BY <3>1, <3>2 DEF TypeOK
    <3>4. ShapeInv'
      BY <3>1 DEF ShapeInv
    <3> QED
      BY <3>3, <3>4
  <2>7. CASE Wake
    <3>1. writer' \in {writer, "test"} /\ (writer' = writer \/ writer = "sleep")
      BY <2>7 DEF Wake, Notify
    <3>2. missed' \in BOOLEAN
      BY <2>7 DEF Wake, Notify, TypeOK
    <3> QED
      BY <2>7, <3>1, <3>2 DEF Wake, ReaderAt, TypeOK, ShapeInv
  <2>8. CASE Shutdown
    <3>1. /\ jobs' \in Seq({"close", "leave"}) /\ jobs' # <<>>
          /\ jobs # <<>> => Head(jobs') = Head(jobs)
      BY <2>8, TaskFacts DEF Shutdown, TypeOK, Tasks
    <3> QED
      BY <2>8, <3>1 DEF Shutdown, ReaderAt, TypeOK, ShapeInv
  <2>9. CASE Key \/ Request \/ Input
    <3>1. Output("event") \/ UNCHANGED ioVars
      BY <2>9 DEF Key, Request, Input
    <3>2. /\ writebuf' \in Seq(Packets) /\ made' \in Seq(Packets)
          /\ cache' = cache /\ sent' = sent /\ missed' = missed
          /\ writer' = writer \/ (writer = "sleep" /\ writer' = "test")
      BY <3>1, OutputFacts DEF Kinds, TypeOK
    <3>3. /\ UNCHANGED <<ui, paneVars, jobs, worker, clip, gateVars, stops>>
          /\ \/ reader' = reader
             \/ reader = "lock" /\ reader' = "request"
             \/ reader = "request" /\ reader' = "read"
      BY <2>9 DEF Key, Request, Input, ReaderAt
    <3> QED
      BY <3>2, <3>3 DEF TypeOK, ShapeInv
  <2>10. CASE Paste
    <3>1. inbox' \in Seq({"clipdata", "request_img"})
      BY <2>10 DEF Paste, TypeOK
    <3>2. clip' \in {"none", "wait", "done"}
      BY <2>10 DEF Paste
    <3> QED
      BY <2>10, <3>1, <3>2 DEF Paste, ReaderAt, TypeOK, ShapeInv
  <2>11. CASE Pasted
    <3>1. Output("event") \/ UNCHANGED ioVars
      BY <2>11 DEF Pasted
    <3>2. /\ writebuf' \in Seq(Packets) /\ made' \in Seq(Packets)
          /\ cache' = cache /\ sent' = sent /\ missed' = missed
          /\ writer' = writer \/ (writer = "sleep" /\ writer' = "test")
      BY <3>1, OutputFacts DEF Kinds, TypeOK
    <3> QED
      BY <2>11, <3>2 DEF Pasted, Unlock, ReaderAt, TypeOK, ShapeInv
  <2>12. CASE Close \/ AskClose
    <3>1. \E fast, now \in BOOLEAN : Stop(fast, now, jobs)
      BY <2>12 DEF Close, AskClose, TypeOK
    <3>2. /\ tail' \in {"none", "open", "closed"} /\ active' \in BOOLEAN
          /\ jobs' \in {jobs, Append(jobs, "close")}
          /\ Output("close") \/ UNCHANGED ioVars
          /\ UNCHANGED <<shown, attached, link, app, quit>>
      <4>1. jobs \in Seq(Tasks)
        BY DEF TypeOK, Tasks
      <4> QED
        BY <3>1, <4>1, StopFacts
    <3>3. /\ writebuf' \in Seq(Packets) /\ made' \in Seq(Packets)
          /\ cache' = cache /\ sent' = sent /\ missed' = missed
          /\ writer' = writer \/ (writer = "sleep" /\ writer' = "test")
      BY <3>2, OutputFacts DEF Kinds, TypeOK
    <3>4. /\ jobs' \in Seq({"close", "leave"})
          /\ jobs # <<>> => jobs' # <<>> /\ Head(jobs') = Head(jobs)
          /\ NoLeave(jobs) => NoLeave(jobs')
      BY <3>2, TaskFacts DEF TypeOK, Tasks
    <3>5. /\ UNCHANGED <<ui, worker, clip, gateVars>>
          /\ reader' = reader \/ (reader = "lock" /\ reader' = "request")
          /\ stops' \in 0..MaxStops
      <4>1. CASE Close
        BY <4>1 DEF Close, ReaderAt, TypeOK
      <4>2. CASE AskClose
        BY <4>2 DEF AskClose, TypeOK
      <4> QED
        BY <2>12, <4>1, <4>2
    <3> QED
      BY <3>2, <3>3, <3>4, <3>5 DEF TypeOK, ShapeInv
  <2>13. CASE Take
    BY <2>13, RestFacts DEF Take, TypeOK, ShapeInv, Tasks
  <2>14. CASE Payoff \/ Join
    <3>1. /\ UNCHANGED <<ui, active, shown, link, tail, app, quit, ioVars, reader,
                         jobs, clip, gateVars, stops>>
          /\ attached' \in BOOLEAN
      BY <2>14 DEF Payoff, Join, TypeOK
    <3>2. /\ worker # "idle" /\ worker' \in {"notify", "join", "leave"}
          /\ worker' = "leave" => reader = "ended"
      BY <2>14 DEF Payoff, Join, Gone, WorkerAt
    <3> QED
      BY <3>1, <3>2 DEF TypeOK, ShapeInv
  <2>15. CASE Hasten
    <3>1. writer' \in {writer, "test"} /\ (writer' = writer \/ writer = "sleep")
      BY <2>15 DEF Hasten, Notify
    <3>2. missed' \in BOOLEAN
      BY <2>15 DEF Hasten, Notify, TypeOK
    <3> QED
      <4>1. /\ UNCHANGED <<ui, active, shown, attached, tail, app, quit, writebuf, cache,
                           sent, made, jobs, clip, gateVars, stops>>
            /\ linked' \in BOOLEAN /\ dodged' \in BOOLEAN
            /\ reader' = reader \/ (reader = "recv" /\ reader' = "detach")
            /\ worker = "notify" /\ worker' = "join"
        BY <2>15 DEF Hasten, Abort, WorkerAt, TypeOK
      <4> QED
        BY <3>1, <3>2, <4>1 DEF TypeOK, ShapeInv
  <2>16. CASE Leave
    <3>1. jobs \in Seq(Tasks) /\ jobs # <<>> /\ Tail(jobs) \in Seq(Tasks)
      BY <2>16, RestFacts DEF Leave, WorkerAt, TypeOK, ShapeInv, Tasks
    <3>2. /\ tail' \in {"none", "open", "closed"} /\ active' \in BOOLEAN
          /\ jobs' \in Seq(Tasks)
          /\ Output("close") \/ UNCHANGED ioVars
          /\ UNCHANGED <<shown, attached, link, app, quit>>
      BY <2>16, <3>1, StopFacts DEF Leave, TypeOK
    <3>3. /\ writebuf' \in Seq(Packets) /\ made' \in Seq(Packets)
          /\ cache' = cache /\ sent' = sent /\ missed' = missed
          /\ writer' = writer \/ (writer = "sleep" /\ writer' = "test")
      BY <3>2, OutputFacts DEF Kinds, TypeOK
    <3>4. /\ UNCHANGED <<reader, clip, gateVars, stops>>
          /\ worker = "leave" /\ worker' = "idle" /\ ui' = "free"
          /\ Head(jobs) = "leave"
      BY <2>16 DEF Leave, Unlock, WorkerAt
    <3>5. ui # "reader" /\ reader = "ended"
      BY <3>4 DEF TypeOK, ShapeInv
    <3> QED
      BY <3>2, <3>3, <3>4, <3>5 DEF TypeOK, ShapeInv, Tasks
  <2>17. CASE Quit
    <3>1. Tail(jobs) \in Seq({"close", "leave"}) /\ reader = "ended"
      BY <2>17, RestFacts DEF Quit, WorkerAt, TypeOK, ShapeInv, Tasks
    <3> QED
      BY <2>17, <3>1 DEF Quit, WorkerAt, TypeOK, ShapeInv
  <2>18. CASE Exit
    BY <2>18 DEF Exit, TypeOK, ShapeInv
  <2>19. CASE AskImage \/ Lose
    <3>1. /\ UNCHANGED <<paneSide, clip, gate>>
          /\ client' \in BOOLEAN
      BY <2>19 DEF AskImage, Lose, TypeOK
    <3>2. inbox' \in Seq({"clipdata", "request_img"})
      <4>1. /\ Append(inbox, "request_img") \in Seq({"clipdata", "request_img"})
            /\ <<>> \in Seq({"clipdata", "request_img"})
        BY DEF TypeOK
      <4>2. inbox' \in {inbox, <<>>, Append(inbox, "request_img")}
        BY <2>19 DEF AskImage, Lose
      <4> QED
        BY <4>1, <4>2 DEF TypeOK
    <3> QED
      BY <3>1, <3>2 DEF TypeOK, ShapeInv
  <2>20. CASE Receive
    <3>1. Tail(inbox) \in Seq({"clipdata", "request_img"})
      BY <2>20 DEF Receive, TypeOK
    <3>2. clip' \in {clip, "done"} /\ (clip' = clip \/ clip = "wait")
      BY <2>20 DEF Receive, Woken
    <3>3. gate' \in {"read", "image"}
      BY <2>20 DEF Receive
    <3> QED
      BY <2>20, <3>1, <3>2, <3>3 DEF Receive, TypeOK, ShapeInv
  <2>21. CASE Image \/ StopLink \/ Doubt
    <3>1. clip' \in {clip, "done"} /\ (clip' = clip \/ clip = "wait")
      BY <2>21 DEF Image, StopLink, Doubt, Ended, Woken
    <3> QED
      BY <2>21, <3>1 DEF Image, StopLink, Doubt, TypeOK, ShapeInv
  <2>22. CASE UNCHANGED vars
    BY <2>22 DEF vars, TypeOK, ShapeInv
  <2> QED
    BY <2>1, <2>2, <2>3, <2>4, <2>5, <2>6, <2>7, <2>8, <2>9, <2>10, <2>11, <2>12, <2>13,
       <2>14, <2>15, <2>16, <2>17, <2>18, <2>19, <2>20, <2>21, <2>22
       DEF Next, Writer, Reader, Locked, Worker
<1> QED
  BY <1>1, <1>2, PTL DEF Spec

\* The threads of a pane, the worker, the gate and what they pass to each
\* other stay of their kinds, and the UI lock is held over several steps only
\* by a paste and by shutdown_fx.
THEOREM TypeCorrect == Spec => []TypeOK
BY ShapeCorrect, PTL

\* Nobody joins a thread that needs a lock he holds, and no thread and no
\* handler outlives its pane (vtty::payoff, dtvt::stop, shutdown_fx).
THEOREM JoinsCorrect == Spec => []JoinsSafely
<1>1. TypeOK /\ ShapeInv => JoinsSafely
  <2> SUFFICES ASSUME TypeOK, ShapeInv PROVE JoinsSafely
    OBVIOUS
  <2>1. ui = "worker" => reader = "ended"
    BY TaskFacts DEF TypeOK, ShapeInv, Tasks
  <2> QED
    BY <2>1 DEF TypeOK, ShapeInv, JoinsSafely
<1> QED
  BY <1>1, ShapeCorrect, PTL

----------------------------------------------------------------------------
\* The cache is empty whenever writebuf is about to be taken, and nothing is
\* sent before there is a writing thread.
CacheInv == /\ writer = "none" => sent = <<>> /\ cache = <<>>
            /\ writer \in {"test", "doze", "sleep"} => cache = <<>>

LEMMA Streams ==
  ASSUME NEW T, NEW s \in Seq(T), NEW c \in Seq(T), NEW w \in Seq(T)
  PROVE  /\ \A x \in T : s \o c \o Append(w, x) = Append(s \o c \o w, x)
         /\ (s \o <<>>) \o w = (s \o w) \o <<>>
         /\ ((s \o c) \o <<>>) \o w = (s \o c) \o w
         /\ <<>> \o <<>> \o w = w
<1>1. s \o c \in Seq(T) /\ s \o w \in Seq(T) /\ <<>> \in Seq(T) /\ <<>> \o <<>> = <<>>
  BY ConcatProperties
<1>2. \A x \in T : (s \o c) \o Append(w, x) = Append((s \o c) \o w, x)
  <2> TAKE x \in T
  <2>1. <<x>> \in Seq(T) /\ (s \o c) \o w \in Seq(T)
    BY <1>1, ConcatProperties
  <2>2. Append(w, x) = w \o <<x>> /\ Append((s \o c) \o w, x) = ((s \o c) \o w) \o <<x>>
    BY <2>1, AppendIsConcat
  <2>3. ((s \o c) \o w) \o <<x>> = (s \o c) \o (w \o <<x>>)
    BY <1>1, <2>1, ConcatAssociative, SMTT(30)
  <2> QED
    BY <2>2, <2>3
<1>3. /\ s \o <<>> = s /\ (s \o w) \o <<>> = s \o w
      /\ (s \o c) \o <<>> = s \o c /\ <<>> \o w = w
  BY <1>1, ConcatEmptySeq
<1> QED
  BY <1>1, <1>2, <1>3

\* The application reads what was put in writebuf, in that order, each packet
\* once, the settings first (vtty::output, writer, run_dtvt_app).
THEOREM StreamCorrect == Spec => []StreamKept
<1> DEFINE Inv == CacheInv /\ StreamKept
<1>1. Init => Inv
  <2>1. <<>> \o <<>> \o <<>> = <<>>
    OBVIOUS
  <2> QED
    BY <2>1 DEF Init, CacheInv, StreamKept
<1>2. (TypeOK /\ ShapeInv) /\ Inv /\ [Next]_vars => Inv'
  <2> SUFFICES ASSUME TypeOK, ShapeInv, CacheInv, StreamKept, [Next]_vars
               PROVE  CacheInv' /\ StreamKept'
    OBVIOUS
  <2> USE DEF link, paneVars, ioVars, gateVars, paneSide
  <2>0. /\ sent \in Seq(Packets) /\ cache \in Seq(Packets) /\ writebuf \in Seq(Packets)
        /\ made \in Seq(Packets)
    BY DEF TypeOK
  <2>1. ASSUME NEW kind \in Kinds, Output(kind) PROVE CacheInv' /\ StreamKept'
    <3>1. <<kind, Len(made)>> \in Packets
      BY <2>0 DEF Packets, Kinds
    <3>2. /\ writebuf' = Append(writebuf, <<kind, Len(made)>>)
          /\ made' = Append(made, <<kind, Len(made)>>)
          /\ cache' = cache /\ sent' = sent
      BY <2>1 DEF Output
    <3>3. StreamKept'
      <4> DEFINE p == <<kind, Len(made)>>
      <4>1. sent \o cache \o Append(writebuf, p) = Append(sent \o cache \o writebuf, p)
        <5>1. p \in Packets
          BY <3>1
        <5> HIDE DEF p
        <5> QED
          BY ONLY <2>0, <5>1, Streams, SMTT(30)
      <4> QED
        BY <3>2, <4>1 DEF StreamKept
    <3>4. writer' = writer \/ (writer = "sleep" /\ writer' = "test")
      BY <2>1 DEF Output
    <3> QED
      BY <3>2, <3>3, <3>4 DEF CacheInv
  <2>2. CASE UNCHANGED ioVars
    BY <2>2 DEF CacheInv, StreamKept
  <2>3. CASE Test
    <3>1. cache = <<>> /\ sent' = sent /\ made' = made
      BY <2>3 DEF Test, CacheInv
    <3>2. \/ writer' \in {"ended", "doze"} /\ UNCHANGED <<writebuf, cache>>
          \/ writer' = "send" /\ Swap
      BY <2>3 DEF Test
    <3>3. CASE writer' \in {"ended", "doze"} /\ UNCHANGED <<writebuf, cache>>
      BY <3>1, <3>3 DEF CacheInv, StreamKept
    <3>4. CASE writer' = "send" /\ Swap
      BY <2>0, <3>1, <3>4, Streams DEF Swap, CacheInv, StreamKept
    <3> QED
      BY <3>2, <3>3, <3>4
  <2>4. CASE Sleep \/ Stir
    BY <2>4 DEF Sleep, Stir, CacheInv, StreamKept
  <2>5. CASE Send
    <3>1. writebuf' = writebuf /\ made' = made
      BY <2>5 DEF Send
    <3>2. \/ sent' = sent \o cache /\ cache' = <<>> /\ writer' = "test"
          \/ sent' = sent /\ cache' = cache /\ writer' = "ended"
      BY <2>5 DEF Send
    <3>3. ((sent \o cache) \o <<>>) \o writebuf = (sent \o cache) \o writebuf
      BY ONLY <2>0, Streams
    <3>4. StreamKept'
      BY <3>1, <3>2, <3>3 DEF StreamKept
    <3> QED
      BY <3>2, <3>4 DEF CacheInv
  <2>6. CASE Prepare
    <3>1. cache = <<>> /\ sent = <<>> /\ UNCHANGED <<cache, sent, writer>>
      BY <2>6 DEF Prepare, ShapeInv, CacheInv
    <3>2. <<<<"cfg", 0>>>> \o writebuf \in Seq(Packets)
      <4>1. <<<<"cfg", 0>>>> \in Seq(Packets)
        BY DEF Packets
      <4> QED
        BY <2>0, <4>1, ConcatProperties
    <3>3. writebuf = made
      BY <2>0, <3>1, Streams DEF StreamKept
    <3>4. writebuf' = made' /\ writebuf' \in Seq(Packets)
      BY <2>0, <2>6, <3>2, <3>3 DEF Prepare
    <3> QED
      BY <3>1, <3>4, Streams DEF CacheInv, StreamKept
  <2>7. CASE Attach
    BY <2>7 DEF Attach, ReaderAt, ShapeInv, CacheInv, StreamKept
  <2>8. CASE Wake \/ Hasten
    <3>1. /\ UNCHANGED <<writebuf, made, cache, sent>>
          /\ writer' = writer \/ (writer = "sleep" /\ writer' = "test")
      BY <2>8 DEF Wake, Hasten, Notify
    <3> QED
      BY <3>1 DEF CacheInv, StreamKept
  <2>9. CASE Key \/ Request \/ Pasted \/ Input \/ Close \/ AskClose \/ Leave
    <3>1. \/ Output("event") \/ Output("close") \/ UNCHANGED ioVars
      BY <2>9 DEF Key, Request, Pasted, Input, Close, AskClose, Leave, Stop
    <3> QED
      BY <2>1, <2>2, <3>1 DEF Kinds
  <2>10. CASE Read \/ Enter \/ Hangup \/ Message \/ Paste \/ Detach \/ Shutdown \/ Payoff \/ Join \/ Take \/ Quit
    BY <2>2, <2>10 DEF Read, Enter, Hangup, Message, Paste, Detach, Shutdown, Payoff, Join, Take, Quit
  <2>11. CASE Exit \/ AskImage \/ Lose \/ Receive \/ Image \/ StopLink \/ Doubt
    BY <2>2, <2>11 DEF Exit, AskImage, Lose, Receive, Image, StopLink, Doubt
  <2>12. CASE UNCHANGED vars
    BY <2>2, <2>12 DEF vars
  <2> QED
    BY <2>3, <2>4, <2>5, <2>6, <2>7, <2>8, <2>9, <2>10, <2>11, <2>12
       DEF Next, Writer, Reader, Locked, Worker
<1>3. Spec => []Inv
  BY <1>1, <1>2, ShapeCorrect, PTL DEF Spec
<1> QED
  BY <1>3, PTL
=============================================================================
