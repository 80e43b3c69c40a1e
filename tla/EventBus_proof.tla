--------------------------- MODULE EventBus_proof ---------------------------
(***************************************************************************)
(* Proofs about EventBus: the shape of the shared vectors, and that every  *)
(* signal is delivered as EventDelivery promises.                          *)
(*                                                                         *)
(* The invariant says that the segments of the signals in progress lie end *)
(* to end in qcopy (SegmentsNested), each in the order of delivery, and    *)
(* that no subscription whose hook is held has lost its place in a list.   *)
(* Order gives that a subscription is in a segment once, so that taking    *)
(* the next entry of the segment is taking the least of those that wait.   *)
(***************************************************************************)
EXTENDS EventBus, FiniteSetTheorems, SequenceTheorems, TLAPS

Ordered(q, F) ==
    \A d \in 1..Len(F) : \A i, j \in (F[d].head + 1)..F[d].tail :
        i < j => Before(F[d].tier, q[i], q[j])

\* A segment ends before those of all later frames begin.
Apart(F) == \A c, d \in 1..Len(F) : c < d => F[c].tail <= F[d].head

CallState == [event : Events, state : CallStates]

(* The stacks q, u and F of a state with its subscriptions.                *)
Shape(q, u, F) ==
    /\ q \in Seq(Numbers) /\ u \in Seq(CallState) /\ F \in Seq(Frame)
    /\ Len(u) = Len(F) /\ Len(F) <= MaxDepth
    /\ Nested(q, F) /\ Apart(F) /\ Ordered(q, F)

AllBusy(F) == \A d \in 1..Len(F) : F[d].busy

IInv ==
    /\ SubsOK
    /\ listed \subseteq Numbers /\ LivingListed
    /\ Shape(qcopy, queue, frames)
    /\ handled \in BOOLEAN

----------------------------------------------------------------------------
\* What Append and the front of a sequence are.
LEMMA AppendFacts ==
  ASSUME NEW T, NEW a \in Seq(T), NEW b \in T
  PROVE  /\ Append(a, b) \in Seq(T) /\ Len(Append(a, b)) = Len(a) + 1
         /\ Append(a, b)[Len(a) + 1] = b
         /\ \A i \in 1..Len(a) : Append(a, b)[i] = a[i]
OBVIOUS

LEMMA FrontFacts ==
  ASSUME NEW T, NEW a \in Seq(T), NEW n \in 0..Len(a)
  PROVE  /\ SubSeq(a, 1, n) \in Seq(T) /\ Len(SubSeq(a, 1, n)) = n
         /\ \A i \in 1..n : SubSeq(a, 1, n)[i] = a[i]
         /\ n = 0 => SubSeq(a, 1, n) = <<>>
OBVIOUS

LEMMA IInvType == IInv => TypeOK /\ SegmentsNested
BY DEF IInv, Shape, TypeOK, SegmentsNested, CallState

\* A frame's numbers; its segment lies within q.
LEMMA Segment ==
  ASSUME NEW q, NEW u, NEW F, Shape(q, u, F), NEW d \in 1..Len(F)
  PROVE  /\ F[d] \in Frame
         /\ F[d].head \in Nat /\ F[d].tail \in Nat /\ F[d].iter \in Nat
         /\ F[d].head <= F[d].tail
         /\ F[d].tail <= Len(q)
<1>1. ASSUME NEW c \in 1..Len(F)
      PROVE  /\ F[c] \in Frame /\ F[c].head \in Nat /\ F[c].tail \in Nat /\ F[c].iter \in Nat
             /\ F[c].head <= F[c].tail
  <2>1. F[c] \in Frame
    BY DEF Shape
  <2>2. F[c].head < F[c].iter /\ F[c].iter <= F[c].tail + 1
    BY DEF Shape, Nested
  <2> QED
    BY <2>1, <2>2 DEF Frame
<1>2. Len(F) \in Nat /\ Len(F) \in 1..Len(F) /\ F[Len(F)].tail = Len(q)
  BY DEF Shape, Nested
<1>3. d < Len(F) => F[d].tail <= F[Len(F)].head
  BY <1>2 DEF Shape, Apart
<1> QED
  BY <1>1, <1>2, <1>3

\* A signal returns: its frame, call state and segment go.
LEMMA Pop ==
  ASSUME NEW q, NEW u, NEW F, Shape(q, u, F), F # <<>>
  PROVE  LET q1 == SubSeq(q, 1, F[Len(F)].head)
             u1 == SubSeq(u, 1, Len(u) - 1)
             F1 == SubSeq(F, 1, Len(F) - 1)
         IN  Shape(q1, u1, F1) /\ AllBusy(F1) /\ Len(F1) < MaxDepth
<1> DEFINE h == F[Len(F)].head
           q1 == SubSeq(q, 1, h)
           u1 == SubSeq(u, 1, Len(u) - 1)
           F1 == SubSeq(F, 1, Len(F) - 1)
<1>1. /\ q \in Seq(Numbers) /\ u \in Seq(CallState) /\ F \in Seq(Frame)
      /\ Len(F) \in Nat \ {0} /\ Len(u) = Len(F) /\ Len(F) <= MaxDepth
  BY DEF Shape
<1>2. h \in Nat /\ h <= Len(q)
  BY <1>1, Segment
<1>3. /\ q1 \in Seq(Numbers) /\ Len(q1) = h
      /\ \A i \in 1..h : q1[i] = q[i]
  BY <1>1, <1>2, FrontFacts
<1>4. /\ u1 \in Seq(CallState) /\ F1 \in Seq(Frame)
      /\ Len(u1) = Len(F) - 1 /\ Len(F1) = Len(F) - 1
      /\ \A d \in 1..Len(F1) : F1[d] = F[d]
  <2>1. Len(F) - 1 \in 0..Len(F) /\ Len(u) - 1 = Len(F) - 1
    BY <1>1
  <2>2. /\ F1 \in Seq(Frame) /\ Len(F1) = Len(F) - 1
        /\ \A d \in 1..Len(F1) : F1[d] = F[d]
    BY <1>1, <2>1, FrontFacts
  <2>3. u1 \in Seq(CallState) /\ Len(u1) = Len(F) - 1
    BY <1>1, <2>1, FrontFacts
  <2> QED
    BY <2>2, <2>3
<1>5. \A d \in 1..Len(F1) : d \in 1..Len(F) /\ d < Len(F)
  BY <1>1, <1>4
<1> HIDE DEF h, q1, u1, F1
<1>6. Nested(q1, F1)
  <2>1. Len(F) = 1 => h = 0
    BY <1>1 DEF Shape, Nested, h
  <2>2. Len(F) > 1 => F[Len(F) - 1].tail = h
    BY <1>1 DEF Shape, Nested, h
  <2>3. F1 = <<>> => q1 = <<>>
    <3>1. F1 = <<>> => Len(q1) = 0
      BY <1>1, <1>3, <1>4, <2>1, EmptySeq
    <3> QED
      BY <1>3, <3>1, EmptySeq
  <2>4. F1 # <<>> => F1[Len(F1)].tail = Len(q1)
    BY <1>1, <1>3, <1>4, <2>2, SMTT(30)
  <2>5. ASSUME NEW d \in 1..Len(F1)
        PROVE  /\ F1[d].head = IF d = 1 THEN 0 ELSE F1[d - 1].tail
               /\ F1[d].head < F1[d].iter /\ F1[d].iter <= F1[d].tail + 1
               /\ F1[d].busy => F1[d].iter <= F1[d].tail
               /\ d < Len(F1) => F1[d].busy
    <3>0. d > 1 => d - 1 \in 1..Len(F1)
      BY <1>1, <1>4
    <3>1. F1[d] = F[d] /\ (d > 1 => F1[d - 1] = F[d - 1])
      BY <1>4, <3>0
    <3> QED
      BY <1>1, <1>5, <3>1 DEF Shape, Nested
  <2> QED
    BY <2>3, <2>4, <2>5 DEF Nested
<1>7. Apart(F1)
  BY <1>4, <1>5 DEF Shape, Apart
<1>8. Ordered(q1, F1)
  <2> SUFFICES ASSUME NEW d \in 1..Len(F1),
                      NEW i \in (F1[d].head + 1)..F1[d].tail, NEW j \in (F1[d].head + 1)..F1[d].tail, i < j
               PROVE  Before(F1[d].tier, q1[i], q1[j])
    BY DEF Ordered
  <2>1. F1[d] = F[d] /\ F[d].tail <= h /\ F[d].head \in Nat /\ F[d].tail \in Nat
    <3>1. d \in 1..Len(F) /\ d < Len(F) /\ Len(F) \in 1..Len(F) /\ F1[d] = F[d]
      BY <1>1, <1>4, <1>5
    <3>2. F[d].head \in Nat /\ F[d].tail \in Nat
      BY <3>1, Segment
    <3>3. F[d].tail <= h
      BY <3>1 DEF Shape, Apart, h
    <3> QED
      BY <3>1, <3>2, <3>3
  <2>2. i \in 1..h /\ j \in 1..h
    BY <1>2, <2>1, SMTT(30)
  <2> QED
    BY <1>3, <1>5, <2>1, <2>2 DEF Shape, Ordered
<1>9. AllBusy(F1)
  BY <1>4, <1>5 DEF Shape, Nested, AllBusy
<1>10. Shape(q1, u1, F1) /\ Len(F1) < MaxDepth
  BY <1>1, <1>3, <1>4, <1>6, <1>7, <1>8, EventAssumption DEF Shape
<1> QED
  BY <1>9, <1>10 DEF h, q1, u1, F1

\* A signal begins: S in order is put behind what is there.
LEMMA Begin ==
  ASSUME NEW q, NEW u, NEW F, Shape(q, u, F), AllBusy(F), Len(F) < MaxDepth,
         NEW t \in Tiers, NEW e \in Events, NEW rise \in Seq(Objects),
         NEW S \in SUBSET Numbers, NEW s \in [1..Cardinality(S) -> S], S # {}, IsFiniteSet(S),
         InOrder(s, S, t)
  PROVE  LET f  == [tier |-> t, event |-> e, head |-> Len(q), iter |-> Len(q) + 1,
                    tail |-> Len(q) + Len(s), busy |-> FALSE, rise |-> rise]
             u1 == Append(u, [event |-> e, state |-> "not_handled"])
         IN  Shape(q \o s, u1, Append(F, f))
<1> DEFINE f  == [tier |-> t, event |-> e, head |-> Len(q), iter |-> Len(q) + 1,
                  tail |-> Len(q) + Len(s), busy |-> FALSE, rise |-> rise]
           q1 == q \o s
           u1 == Append(u, [event |-> e, state |-> "not_handled"])
           F1 == Append(F, f)
<1>1. /\ q \in Seq(Numbers) /\ u \in Seq(CallState) /\ F \in Seq(Frame)
      /\ Len(F) \in Nat /\ Len(u) = Len(F) /\ Len(q) \in Nat
  BY DEF Shape
<1>2. Cardinality(S) \in Nat
  BY FS_CardinalityType
<1>3. s \in Seq(Numbers) /\ Len(s) = Cardinality(S) /\ DOMAIN s = 1..Len(s)
  BY <1>2
<1>4. /\ q1 \in Seq(Numbers) /\ Len(q1) = Len(q) + Len(s)
      /\ \A i \in 1..Len(q) : q1[i] = q[i]
      /\ \A i \in (Len(q) + 1)..(Len(q) + Len(s)) : q1[i] = s[i - Len(q)]
  <2>1. /\ q1 \in Seq(Numbers) /\ Len(q1) = Len(q) + Len(s)
        /\ \A i \in 1..(Len(q) + Len(s)) : q1[i] = IF i <= Len(q) THEN q[i] ELSE s[i - Len(q)]
    BY <1>1, <1>3, ConcatProperties
  <2>2. Len(s) \in Nat
    BY <1>2, <1>3
  <2> QED
    BY <1>1, <2>1, <2>2
<1>u. u1 \in Seq(CallState) /\ Len(u1) = Len(F) + 1
  BY <1>1, AppendFacts DEF CallState, CallStates
<1>5. f \in Frame
  BY <1>1, <1>2, <1>3 DEF Frame, CallState, CallStates
<1>6. /\ F1 \in Seq(Frame) /\ Len(F1) = Len(F) + 1
      /\ F1[Len(F) + 1] = f
      /\ \A d \in 1..Len(F) : F1[d] = F[d]
  BY <1>1, <1>5, AppendFacts
<1>f. /\ f.tier = t /\ f.head = Len(q) /\ f.iter = Len(q) + 1 /\ f.tail = Len(q) + Len(s)
      /\ ~f.busy
  OBVIOUS
<1>n. f.head \in Nat /\ f.tail \in Nat /\ f.head <= f.tail /\ Len(s) \in Nat
  BY <1>1, <1>2, <1>3
<1> HIDE DEF f, q1, u1, F1
<1>7. \A d \in 1..Len(F1) : d = Len(F) + 1 \/ d \in 1..Len(F)
  BY <1>1, <1>6
<1>8. Nested(q1, F1)
  <2>1. F1 # <<>> /\ F1[Len(F1)].tail = Len(q1)
    BY <1>1, <1>4, <1>6, <1>f, EmptySeq
  <2>2. ASSUME NEW d \in 1..Len(F1)
        PROVE  /\ F1[d].head = IF d = 1 THEN 0 ELSE F1[d - 1].tail
               /\ F1[d].head < F1[d].iter /\ F1[d].iter <= F1[d].tail + 1
               /\ F1[d].busy => F1[d].iter <= F1[d].tail
               /\ d < Len(F1) => F1[d].busy
    <3>1. CASE d \in 1..Len(F)
      <4>1. F1[d] = F[d] /\ (d > 1 => F1[d - 1] = F[d - 1])
        BY <1>1, <1>6, <3>1
      <4>2. F[d].busy
        BY <3>1 DEF AllBusy
      <4>3. Nested(q, F)
        BY DEF Shape
      <4> QED
        BY <3>1, <4>1, <4>2, <4>3 DEF Nested
    <3>2. CASE d = Len(F) + 1
      <4>1. d = 1 => Len(q) = 0
        BY <1>1, <3>2 DEF Shape, Nested
      <4>2. d > 1 => F1[d - 1] = F[Len(F)] /\ F[Len(F)].tail = Len(q)
        BY <1>1, <1>6, <3>2 DEF Shape, Nested
      <4>3. F1[d] = f
        BY <1>6, <3>2
      <4> QED
        BY <1>1, <1>6, <1>f, <1>n, <3>2, <4>1, <4>2, <4>3, SMTT(30)
    <3> QED
      BY <1>7, <3>1, <3>2
  <2> QED
    BY <2>1, <2>2 DEF Nested
<1>9. Apart(F1)
  <2> SUFFICES ASSUME NEW c \in 1..Len(F1), NEW d \in 1..Len(F1), c < d
               PROVE  F1[c].tail <= F1[d].head
    BY DEF Apart
  <2>1. c \in 1..Len(F) /\ F1[c] = F[c] /\ F[c].tail <= Len(q)
    <3>1. c \in 1..Len(F) /\ F1[c] = F[c]
      BY <1>1, <1>6
    <3> QED
      BY <3>1, Segment
  <2>2. CASE d \in 1..Len(F)
    BY <1>6, <2>1, <2>2 DEF Shape, Apart
  <2>3. CASE d = Len(F) + 1
    BY <1>6, <1>f, <2>1, <2>3
  <2> QED
    BY <1>7, <2>2, <2>3
<1>10. Ordered(q1, F1)
  <2> SUFFICES ASSUME NEW d \in 1..Len(F1),
                      NEW i \in (F1[d].head + 1)..F1[d].tail, NEW j \in (F1[d].head + 1)..F1[d].tail, i < j
               PROVE  Before(F1[d].tier, q1[i], q1[j])
    BY DEF Ordered
  <2>1. CASE d \in 1..Len(F)
    <3>1. F1[d] = F[d] /\ F[d].tail <= Len(q) /\ F[d].head \in Nat /\ F[d].tail \in Nat
      BY <1>6, <2>1, Segment
    <3>2. /\ i \in (F[d].head + 1)..F[d].tail /\ j \in (F[d].head + 1)..F[d].tail
          /\ i \in 1..Len(q) /\ j \in 1..Len(q)
      BY <1>1, <3>1, SMTT(30)
    <3> QED
      BY <1>4, <2>1, <3>1, <3>2 DEF Shape, Ordered
  <2>2. CASE d = Len(F) + 1
    <3>1. F1[d] = f
      BY <1>6, <2>2
    <3>2. i \in (Len(q) + 1)..(Len(q) + Len(s)) /\ j \in (Len(q) + 1)..(Len(q) + Len(s))
      BY <1>f, <3>1
    <3>3. /\ i - Len(q) \in DOMAIN s /\ j - Len(q) \in DOMAIN s /\ i - Len(q) < j - Len(q)
          /\ q1[i] = s[i - Len(q)] /\ q1[j] = s[j - Len(q)]
      BY <1>1, <1>3, <1>4, <1>n, <3>2, SMTT(30)
    <3> QED
      BY <1>f, <3>1, <3>3 DEF InOrder
  <2> QED
    BY <1>7, <2>1, <2>2
<1>11. Shape(q1, u1, F1)
  BY <1>1, <1>4, <1>6, <1>8, <1>9, <1>10, <1>u, EventAssumption DEF Shape
<1> QED
  BY <1>11 DEF f, q1, u1, F1

\* The innermost signal goes on: its frame changes, its segment does not.
LEMMA TopStep ==
  ASSUME NEW q, NEW u, NEW F, Shape(q, u, F), F # <<>>, NEW f \in Frame,
         f.tier = F[Len(F)].tier, f.head = F[Len(F)].head, f.tail = F[Len(F)].tail,
         f.head < f.iter, f.iter <= f.tail + 1, f.busy => f.iter <= f.tail
  PROVE  Shape(q, u, [F EXCEPT ![Len(F)] = f])
<1> DEFINE F1 == [F EXCEPT ![Len(F)] = f]
<1>1. /\ q \in Seq(Numbers) /\ u \in Seq(CallState) /\ F \in Seq(Frame)
      /\ Len(u) = Len(F) /\ Len(F) <= MaxDepth /\ Len(F) \in Nat \ {0}
  BY DEF Shape
<1>2. /\ F1 \in Seq(Frame) /\ Len(F1) = Len(F) /\ F1[Len(F)] = f
      /\ \A d \in 1..Len(F) : d # Len(F) => F1[d] = F[d]
  BY <1>1, ExceptSeq
<1> HIDE DEF F1
<1>3. \A d \in 1..Len(F) : /\ F1[d].tier = F[d].tier /\ F1[d].head = F[d].head
                           /\ F1[d].tail = F[d].tail
  BY <1>2
<1>4. Nested(q, F1)
  <2>1. F1 # <<>> /\ F1[Len(F1)].tail = Len(q)
    <3>1. F1 # <<>>
      BY <1>1, <1>2, EmptySeq
    <3>2. F[Len(F)].tail = Len(q)
      BY DEF Shape, Nested
    <3> QED
      BY <1>2, <3>1, <3>2
  <2>2. ASSUME NEW d \in 1..Len(F1)
        PROVE  /\ F1[d].head = IF d = 1 THEN 0 ELSE F1[d - 1].tail
               /\ F1[d].head < F1[d].iter /\ F1[d].iter <= F1[d].tail + 1
               /\ F1[d].busy => F1[d].iter <= F1[d].tail
               /\ d < Len(F1) => F1[d].busy
    <3>1. d \in 1..Len(F) /\ (d > 1 => d - 1 \in 1..Len(F))
      BY <1>1, <1>2
    <3>2. F1[d].head = F[d].head /\ (d > 1 => F1[d - 1].tail = F[d - 1].tail)
      BY <1>3, <3>1
    <3>3. F1[d].head = IF d = 1 THEN 0 ELSE F1[d - 1].tail
      BY <3>1, <3>2 DEF Shape, Nested
    <3>4. CASE d = Len(F)
      BY <1>2, <3>3, <3>4
    <3>5. CASE d # Len(F)
      BY <1>2, <3>1, <3>3, <3>5 DEF Shape, Nested
    <3> QED
      BY <3>4, <3>5
  <2> QED
    BY <2>1, <2>2 DEF Nested
<1>5. Apart(F1)
  BY <1>2, <1>3 DEF Shape, Apart
<1>6. Ordered(q, F1)
  BY <1>2, <1>3 DEF Shape, Ordered
<1>7. Shape(q, u, F1)
  BY <1>1, <1>2, <1>4, <1>5, <1>6 DEF Shape
<1> QED
  BY <1>7 DEF F1

\* A handler answers: the call state of the innermost signal changes.
LEMMA StateStep ==
  ASSUME NEW q, NEW u, NEW F, Shape(q, u, F), F # <<>>, NEW st \in CallStates
  PROVE  /\ Shape(q, [u EXCEPT ![Len(F)].state = st], F)
         /\ \A d \in 1..Len(F) : d # Len(F) => [u EXCEPT ![Len(F)].state = st][d] = u[d]
         /\ [u EXCEPT ![Len(F)].state = st][Len(F)].state = st
<1>1. u \in Seq(CallState) /\ Len(u) = Len(F) /\ F \in Seq(Frame) /\ Len(F) \in 1..Len(u)
  BY DEF Shape
<1> DEFINE c == [u[Len(F)] EXCEPT !.state = st]
           u1 == [u EXCEPT ![Len(F)] = c]
<1>2. c \in CallState /\ c.state = st
  <2>1. u[Len(F)] \in CallState
    BY <1>1, ElementOfSeq
  <2> QED
    BY <2>1 DEF CallState
<1>3. [u EXCEPT ![Len(F)].state = st] = u1
  BY <1>1
<1> HIDE DEF c
<1>4. /\ u1 \in Seq(CallState) /\ Len(u1) = Len(u) /\ u1[Len(F)] = c
      /\ \A d \in 1..Len(F) : d # Len(F) => u1[d] = u[d]
  BY <1>1, <1>2, ExceptSeq
<1> HIDE DEF u1
<1> QED
  BY <1>1, <1>2, <1>3, <1>4 DEF Shape

\* A subscription is made: the numbers that there were keep their order.
LEMMA Grow ==
  ASSUME IInv, NEW x \in Sub, subs' = Append(subs, x), Len(subs) < MaxSubs,
         UNCHANGED <<qcopy, queue, frames, handled>>
  PROVE  /\ subs' \in Seq(Sub) /\ Len(subs') = Len(subs) + 1 /\ Len(subs') <= MaxSubs
         /\ subs'[Len(subs) + 1] = x
         /\ \A n \in Numbers : subs'[n] = subs[n]
         /\ Numbers' = Numbers \cup {Len(subs) + 1}
         /\ Shape(qcopy, queue, frames)' /\ handled' \in BOOLEAN
<1>1. /\ subs \in Seq(Sub) /\ Len(subs) \in Nat
      /\ qcopy \in Seq(Numbers) /\ frames \in Seq(Frame)
  BY DEF IInv, SubsOK, Shape
<1>2. /\ subs' \in Seq(Sub) /\ Len(subs') = Len(subs) + 1 /\ Len(subs') <= MaxSubs
      /\ subs'[Len(subs) + 1] = x
      /\ \A n \in Numbers : subs'[n] = subs[n]
  BY <1>1, AppendFacts, EventAssumption DEF Numbers
<1>3. Numbers' = Numbers \cup {Len(subs) + 1} /\ Numbers \subseteq Numbers'
  BY <1>1, <1>2 DEF Numbers
<1>4. qcopy \in Seq(Numbers')
  BY <1>1, <1>3, SeqMonotonic
<1>5. Ordered(qcopy, frames)'
  <2> SUFFICES ASSUME NEW d \in 1..Len(frames),
                      NEW i \in (frames[d].head + 1)..frames[d].tail,
                      NEW j \in (frames[d].head + 1)..frames[d].tail, i < j
               PROVE  Before(frames[d].tier, qcopy[i], qcopy[j])'
    BY DEF Ordered
  <2>1. /\ frames[d].head \in Nat /\ frames[d].tail \in Nat
        /\ frames[d].tail <= Len(qcopy)
    BY Segment DEF IInv
  <2>2. qcopy[i] \in Numbers /\ qcopy[j] \in Numbers
    BY <1>1, <2>1, ElementOfSeq
  <2>3. Before(frames[d].tier, qcopy[i], qcopy[j])
    BY DEF IInv, Shape, Ordered
  <2> QED
    BY <1>2, <2>2, <2>3 DEF Before
<1>6. Shape(qcopy, queue, frames)'
  BY <1>4, <1>5 DEF IInv, Shape, Nested, Apart
<1> QED
  BY <1>2, <1>3, <1>6 DEF IInv

\* What is left of the stacks while a signal is sent: all calls are busy.
Ready(q, u, F) == Shape(q, u, F) /\ AllBusy(F) /\ Len(F) < MaxDepth

Lists == SubsOK /\ listed \subseteq Numbers /\ LivingListed

\* A signal is sent along a line of objects, from any such stacks.
LEMMA SendKeeps ==
  ASSUME Lists, UNCHANGED <<subs, alive>>, NEW q, NEW u, NEW F, Ready(q, u, F),
         NEW line \in Seq(Objects), NEW t \in Tiers, NEW e \in Events, NEW before \in BOOLEAN,
         Send(q, u, F, line, t, e, before)
  PROVE  IInv'
<1>1. ASSUME NEW i \in DOMAIN line
      PROVE  /\ Expired(line[i], t, e) \subseteq {n \in listed : ~Living(n)}
             /\ Selected(line[i], t, e) \in SUBSET Numbers
             /\ IsFiniteSet(Selected(line[i], t, e))
  <2>1. Numbers \in SUBSET Int /\ IsFiniteSet(Numbers)
    BY FS_Interval DEF Lists, SubsOK, Numbers
  <2>2. Selected(line[i], t, e) \in SUBSET Numbers
    BY DEF Lists, Selected, InLists
  <2>3. IsFiniteSet(Selected(line[i], t, e))
    BY <2>1, <2>2, FS_Subset
  <2> QED
    BY <2>2, <2>3 DEF Expired, InLists, Held
<1>2. ASSUME listed \ listed' \subseteq {n \in listed : ~Living(n)}, listed' \subseteq listed
      PROVE  (SubsOK /\ listed \subseteq Numbers /\ LivingListed)'
  <2>1. SubsOK' /\ Numbers' = Numbers
    BY DEF Lists, SubsOK, Numbers
  <2>2. listed' \subseteq Numbers'
    BY <1>2, <2>1 DEF Lists
  <2>3. LivingListed'
    BY <1>2, <2>1 DEF Lists, LivingListed, Living, Hook
  <2> QED
    BY <2>1, <2>2, <2>3
<1>3. ASSUME NEW a, NEW b, NEW c, Shape(a, b, c)
      PROVE  (qcopy' = a /\ queue' = b /\ frames' = c) => Shape(qcopy, queue, frames)'
  BY <1>3 DEF Shape, Ordered, Before, Numbers, Nested, Apart
<1>4. CASE /\ \A i \in DOMAIN line : Selected(line[i], t, e) = {}
           /\ listed' = listed \ UNION {Expired(line[i], t, e) : i \in DOMAIN line}
           /\ handled' = FALSE
           /\ qcopy' = q /\ queue' = u /\ frames' = F
  <2>1. (SubsOK /\ listed \subseteq Numbers /\ LivingListed)'
    BY <1>1, <1>2, <1>4
  <2>2. Shape(qcopy, queue, frames)'
    BY <1>3, <1>4 DEF Ready
  <2> QED
    BY <1>4, <2>1, <2>2 DEF IInv
<1>5. ASSUME NEW i \in DOMAIN line,
             Selected(line[i], t, e) # {},
             listed' = listed \ UNION {Expired(line[j], t, e) : j \in 1..i},
             handled' = IF i = 1 THEN before ELSE FALSE,
             NEW s \in [1..Cardinality(Selected(line[i], t, e)) -> Selected(line[i], t, e)],
             InOrder(s, Selected(line[i], t, e), t),
             Push(q, u, F, t, e, s, SubSeq(line, i + 1, Len(line)))
      PROVE  IInv'
  <2>1. 1..i \subseteq DOMAIN line
    BY LenProperties
  <2>2. (SubsOK /\ listed \subseteq Numbers /\ LivingListed)'
    BY <1>1, <1>2, <1>5, <2>1
  <2>3. SubSeq(line, i + 1, Len(line)) \in Seq(Objects)
    BY LenProperties
  <2>4. Shape(qcopy', queue', frames')
    BY <1>1, <1>5, <2>3, Begin DEF Ready, Push
  <2>5. Shape(qcopy, queue, frames)'
    BY <1>3, <2>4
  <2>6. handled' \in BOOLEAN
    BY <1>5
  <2> QED
    BY <2>2, <2>5, <2>6 DEF IInv
<1> QED
  BY <1>4, <1>5 DEF Send

----------------------------------------------------------------------------
LEMMA InitInv == Init => IInv
<1> SUFFICES ASSUME Init PROVE IInv
  OBVIOUS
<1>1. Len(AtStart) \in Nat /\ AtStart \in Seq(Keys) /\ Len(AtStart) <= MaxSubs
  BY EventAssumption
<1>2. subs = [n \in 1..Len(AtStart) |-> [key |-> AtStart[n], hook |-> n]]
  BY DEF Init, SubsInit
<1>3. subs \in Seq(Sub) /\ Len(subs) = Len(AtStart)
  BY <1>1, <1>2, ElementOfSeq DEF Sub
<1>4. SubsOK
  BY <1>1, <1>2, <1>3 DEF SubsOK, Numbers, Init, SubsInit
<1>5. listed \subseteq Numbers /\ LivingListed
  BY DEF Init, LivingListed
<1>6. Shape(qcopy, queue, frames)
  BY EventAssumption, EmptySeq DEF Init, Shape, Nested, Apart, Ordered
<1> QED
  BY <1>4, <1>5, <1>6 DEF IInv, Init

\* The steps that change what is subscribed.
LEMMA ChangeKeeps ==
  ASSUME IInv, \/ \E k \in Keys : \/ Subscribe(k)
                                  \/ \E n \in Numbers : Duplicate(n, k)
                                  \/ EraseScripts(k)
               \/ \E h \in alive : Unsubscribe(h)
               \/ \E o \in Objects : Destroy(o)
  PROVE  IInv'
<1>1. SubsOK /\ listed \subseteq Numbers /\ LivingListed /\ Len(subs) \in Nat
  BY DEF IInv, SubsOK
<1>2. ASSUME NEW S, DropHooks(S), UNCHANGED stacks, listed' \subseteq listed,
             \A n \in listed \ listed' : subs[n].hook \notin alive \ S
      PROVE  IInv'
  <2>1. SubsOK' /\ Numbers' = Numbers
    BY <1>1, <1>2 DEF DropHooks, SubsOK, Numbers
  <2>2. LivingListed'
    BY <1>1, <1>2, <2>1 DEF DropHooks, LivingListed, Living, Hook
  <2>3. Shape(qcopy, queue, frames)' /\ handled' \in BOOLEAN
    BY <1>2, <2>1 DEF DropHooks, IInv, Shape, Ordered, Before, Numbers, Nested, Apart, stacks
  <2> QED
    BY <1>1, <1>2, <2>1, <2>2, <2>3 DEF IInv
<1>3. ASSUME NEW k \in Keys, Subscribe(k) PROVE IInv'
  <2> DEFINE x == [key |-> k, hook |-> Len(subs) + 1]
  <2>1. /\ subs' = Append(subs, x) /\ Len(subs) < MaxSubs
        /\ alive' = alive \cup {Len(subs) + 1} /\ listed' = listed \cup {Len(subs) + 1}
        /\ UNCHANGED <<qcopy, queue, frames, handled>>
    BY <1>3 DEF Subscribe, NewSub, stacks
  <2>2. x \in Sub /\ x.hook = Len(subs) + 1
    BY <1>1 DEF Sub
  <2> HIDE DEF x
  <2>3. /\ subs' \in Seq(Sub) /\ Len(subs') = Len(subs) + 1 /\ Len(subs') <= MaxSubs
        /\ subs'[Len(subs) + 1] = x
        /\ \A n \in Numbers : subs'[n] = subs[n]
        /\ Numbers' = Numbers \cup {Len(subs) + 1}
        /\ Shape(qcopy, queue, frames)' /\ handled' \in BOOLEAN
    BY <2>1, <2>2, Grow
  <2>4. SubsOK'
    <3>1. ASSUME NEW m \in Numbers' PROVE subs'[m].hook \in 1..m
      <4>1. CASE m \in Numbers
        BY <1>1, <2>3, <4>1 DEF SubsOK
      <4>2. CASE m = Len(subs) + 1
        BY <1>1, <2>2, <2>3, <4>2
      <4> QED
        BY <2>3, <4>1, <4>2
    <3>2. alive' \subseteq Numbers'
      BY <1>1, <2>1, <2>3 DEF SubsOK
    <3> QED
      BY <2>3, <3>1, <3>2 DEF SubsOK
  <2>5. LivingListed'
    <3> SUFFICES ASSUME NEW n \in Numbers, Living(n)' PROVE n \in listed
      BY <2>1, <2>3 DEF LivingListed
    <3>1. subs[n].hook \in alive
      <4>1. subs[n].hook \in 1..n /\ n \in 1..Len(subs)
        BY <1>1 DEF SubsOK, Numbers
      <4>2. subs[n].hook # Len(subs) + 1
        BY <1>1, <4>1
      <4> QED
        BY <2>1, <2>3, <4>2 DEF Living, Hook
    <3> QED
      BY <1>1, <3>1 DEF LivingListed, Living, Hook
  <2> QED
    BY <1>1, <2>1, <2>3, <2>4, <2>5 DEF IInv
<1>4. ASSUME NEW n \in Numbers, NEW k \in Keys, Duplicate(n, k) PROVE IInv'
  <2> DEFINE x == [subs[n] EXCEPT !.key = k]
  <2>1. /\ subs' = Append(subs, x) /\ Len(subs) < MaxSubs
        /\ alive' = alive /\ listed' = listed \cup {Len(subs) + 1}
        /\ UNCHANGED <<qcopy, queue, frames, handled>>
    BY <1>4 DEF Duplicate, CopySub, stacks
  <2>2. x \in Sub /\ x.hook \in 1..(Len(subs) + 1)
    <3>1. subs[n] \in Sub /\ subs[n].hook \in 1..n /\ n \in 1..Len(subs)
      BY <1>1, ElementOfSeq DEF SubsOK, Numbers
    <3>2. x \in Sub /\ x.hook = subs[n].hook
      BY <3>1 DEF Sub
    <3> QED
      BY <1>1, <3>1, <3>2
  <2> HIDE DEF x
  <2>3. /\ subs' \in Seq(Sub) /\ Len(subs') = Len(subs) + 1 /\ Len(subs') <= MaxSubs
        /\ subs'[Len(subs) + 1] = x
        /\ \A m \in Numbers : subs'[m] = subs[m]
        /\ Numbers' = Numbers \cup {Len(subs) + 1}
        /\ Shape(qcopy, queue, frames)' /\ handled' \in BOOLEAN
    BY <2>1, <2>2, Grow
  <2>4. SubsOK'
    <3>1. ASSUME NEW m \in Numbers' PROVE subs'[m].hook \in 1..m
      <4>1. CASE m \in Numbers
        BY <1>1, <2>3, <4>1 DEF SubsOK
      <4>2. CASE m = Len(subs) + 1
        BY <2>2, <2>3, <4>2
      <4> QED
        BY <2>3, <4>1, <4>2
    <3>2. alive' \subseteq Numbers'
      BY <1>1, <2>1, <2>3 DEF SubsOK
    <3> QED
      BY <2>3, <3>1, <3>2 DEF SubsOK
  <2>5. LivingListed'
    BY <1>1, <2>1, <2>3 DEF LivingListed, Living, Hook
  <2> QED
    BY <1>1, <2>1, <2>3, <2>4, <2>5 DEF IInv
<1>5. ASSUME NEW k \in Keys, EraseScripts(k) PROVE IInv'
  BY <1>1, <1>2, <1>5 DEF EraseScripts, ScriptsAt, Living, Hook, Held
<1>6. ASSUME NEW h \in alive, Unsubscribe(h) PROVE IInv'
  BY <1>2, <1>6 DEF Unsubscribe, stacks
<1>7. ASSUME NEW o \in Objects, Destroy(o) PROVE IInv'
  BY <1>1, <1>2, <1>7 DEF Destroy, HooksAt, Living, Hook
<1> QED
  BY <1>3, <1>4, <1>5, <1>6, <1>7

\* The innermost signal, and what it leaves when it returns.
LEMMA TopFacts ==
  ASSUME IInv, frames # <<>>
  PROVE  /\ Depth \in 1..Len(frames) /\ Depth = Len(frames) /\ Len(queue) = Depth
         /\ Top \in Frame /\ Top = frames[Len(frames)]
         /\ queue[Depth] \in CallState
         /\ Top.head < Top.iter /\ Top.iter <= Top.tail + 1 /\ Top.tail = Len(qcopy)
         /\ Top.busy => Top.iter <= Top.tail
<1>1. /\ frames \in Seq(Frame) /\ queue \in Seq(CallState) /\ Len(queue) = Len(frames)
      /\ Nested(qcopy, frames)
  BY DEF IInv, Shape
<1>2. Len(frames) \in 1..Len(frames)
  BY <1>1, EmptySeq
<1>3. frames[Len(frames)] \in Frame /\ queue[Len(frames)] \in CallState
  BY <1>1, <1>2, ElementOfSeq
<1> QED
  BY <1>1, <1>2, <1>3 DEF Depth, Top, Nested

\* The steps of a signal in progress that do not send another.
LEMMA LoopKeeps ==
  ASSUME IInv, Call \/ Skip \/ Finish \/ Expire \/ Passover
  PROVE  IInv'
<1> USE TopFacts
<1>1. frames # <<>> /\ UNCHANGED <<subs, alive, listed, qcopy, handled>>
  BY DEF Call, Skip, Finish, Expire, Passover
<1>2. ASSUME Shape(qcopy, queue', frames') PROVE IInv'
  BY <1>1, <1>2 DEF IInv, SubsOK, LivingListed, Living, Hook, Numbers, Shape, Ordered, Before
<1>3. ASSUME NEW f \in Frame, NEW v, Shape(qcopy, v, frames), queue' = v, SetTop(f),
             f.tier = Top.tier, f.head = Top.head, f.tail = Top.tail,
             f.head < f.iter, f.iter <= f.tail + 1, f.busy => f.iter <= f.tail
      PROVE  IInv'
  BY <1>1, <1>2, <1>3, TopStep DEF SetTop
<1>4. ASSUME NEW st \in CallStates
      PROVE  Shape(qcopy, [queue EXCEPT ![Depth].state = st], frames)
  BY <1>1, StateStep DEF IInv
<1>5. Shape(qcopy, queue, frames)
  BY DEF IInv
<1>6. CASE Call
  <2> DEFINE f == [Top EXCEPT !.busy = TRUE]
  <2>1. /\ f \in Frame /\ f.tier = Top.tier /\ f.head = Top.head /\ f.tail = Top.tail
        /\ f.iter = Top.iter
    BY <1>1 DEF Frame
  <2>2. SetTop(f) /\ queue' = [queue EXCEPT ![Depth].state = "proceed"] /\ Top.iter <= Top.tail
    BY <1>6 DEF Call, SetState
  <2> HIDE DEF f
  <2> QED
    BY <1>1, <1>3, <1>4, <2>1, <2>2 DEF CallStates
<1>7. CASE Skip
  <2> DEFINE f == [Top EXCEPT !.iter = @ + 1]
  <2>1. /\ f \in Frame /\ f.tier = Top.tier /\ f.head = Top.head /\ f.tail = Top.tail
        /\ f.iter = Top.iter + 1 /\ f.busy = Top.busy
    BY <1>1 DEF Frame
  <2>2. SetTop(f) /\ queue' = queue /\ Top.iter <= Top.tail /\ ~Top.busy
    BY <1>7 DEF Skip
  <2>3. Top.iter \in Nat /\ Top.tail \in Nat /\ Top.head \in Nat
    BY <1>1 DEF Frame
  <2> HIDE DEF f
  <2> QED
    BY <1>1, <1>3, <1>5, <2>1, <2>2, <2>3
<1>8. CASE Finish
  <2> DEFINE i == IF queue[Depth].state = "fullstop" THEN Top.tail + 1 ELSE Top.iter + 1
             f == [Top EXCEPT !.busy = FALSE, !.iter = i]
  <2>1. Top.iter \in Nat /\ Top.tail \in Nat /\ Top.head \in Nat /\ Top.iter <= Top.tail
    BY <1>1, <1>8 DEF Frame, Finish
  <2>2. i \in Nat /\ Top.head < i /\ i <= Top.tail + 1
    BY <1>1, <2>1
  <2>3. SetTop(f) /\ queue' = queue
    BY <1>8 DEF Finish
  <2> HIDE DEF i
  <2>4. /\ f \in Frame /\ f.tier = Top.tier /\ f.head = Top.head /\ f.tail = Top.tail
        /\ f.iter = i /\ ~f.busy
    BY <1>1, <2>2 DEF Frame
  <2> HIDE DEF f
  <2> QED
    BY <1>1, <1>3, <1>5, <2>2, <2>3, <2>4
<1>9. CASE Expire \/ Passover
  <2>1. PICK st \in CallStates : queue' = [queue EXCEPT ![Depth].state = st] /\ frames' = frames
    BY <1>9 DEF Expire, Passover, SetState, CallStates
  <2> QED
    BY <1>2, <1>4, <2>1
<1> QED
  BY <1>6, <1>7, <1>8, <1>9

\* The code that may act has every call around it busy.
LEMMA FreeReady ==
  ASSUME IInv, Free
  PROVE  Lists /\ AllBusy(frames) /\ Shape(qcopy, queue, frames)
<1>1. \A d \in 1..Len(frames) : frames[d].busy
  <2> SUFFICES ASSUME NEW d \in 1..Len(frames) PROVE frames[d].busy
    OBVIOUS
  <2>1. frames \in Seq(Frame) /\ frames # <<>>
    BY EmptySeq DEF IInv, Shape
  <2>2. d < Len(frames) => frames[d].busy
    BY DEF IInv, Shape, Nested
  <2>3. d = Len(frames) => frames[d].busy
    BY <2>1 DEF Free, Top, Depth
  <2>4. d < Len(frames) \/ d = Len(frames)
    BY <2>1
  <2> QED
    BY <2>2, <2>3, <2>4
<1> QED
  BY <1>1 DEF IInv, Lists, AllBusy

LEMMA SignalKeeps ==
  ASSUME IInv, NEW o \in Objects, NEW t \in Tiers, NEW e \in Events,
         Signal(<<o>>, t, e) \/ Signal(Up[o], t, e)
  PROVE  IInv'
<1>1. <<o>> \in Seq(Objects) /\ Up[o] \in Seq(Objects) /\ handled \in BOOLEAN
  BY EventAssumption DEF IInv
<1>2. Lists /\ Ready(qcopy, queue, frames) /\ UNCHANGED <<subs, alive>>
  BY FreeReady DEF Signal, Ready, Depth
<1> QED
  BY <1>1, <1>2, SendKeeps DEF Signal

\* What Return leaves when the signal goes no further.
Back == /\ qcopy' = Popped(qcopy, Top.head) /\ queue' = Unqueued(queue)
        /\ frames' = SubSeq(frames, 1, Depth - 1)
        /\ UNCHANGED listed
        /\ handled' = Taken(queue)

Onward == Send(Popped(qcopy, Top.head), Unqueued(queue), SubSeq(frames, 1, Depth - 1),
               Top.rise, Top.tier, Top.event, Taken(queue))

LEMMA ReturnForms ==
  ASSUME IInv, Return
  PROVE  /\ Lists /\ frames # <<>> /\ UNCHANGED <<subs, alive>>
         /\ Ready(Popped(qcopy, Top.head), Unqueued(queue), SubSeq(frames, 1, Depth - 1))
         /\ Top.rise \in Seq(Objects) /\ Top.tier \in Tiers /\ Top.event \in Events
         /\ Taken(queue) \in BOOLEAN
         /\ Top.rise # <<>> /\ ~Taken(queue) => Onward
         /\ Top.rise = <<>> \/ Taken(queue) => Back
<1>1. frames # <<>> /\ UNCHANGED <<subs, alive>> /\ Lists
  BY DEF Return, IInv, Lists
<1>2. Ready(Popped(qcopy, Top.head), Unqueued(queue), SubSeq(frames, 1, Depth - 1))
  BY <1>1, Pop DEF IInv, Popped, Unqueued, Top, Depth, Ready
<1>3. Top.rise \in Seq(Objects) /\ Top.tier \in Tiers /\ Top.event \in Events
  BY <1>1, TopFacts DEF Frame
<1>4. Taken(queue) \in BOOLEAN
  BY DEF Taken
<1> QED
  BY <1>1, <1>2, <1>3, <1>4 DEF Return, Onward, Back

LEMMA ReturnKeeps == ASSUME IInv, Return PROVE IInv'
<1>1. CASE Onward
  BY <1>1, ReturnForms, SendKeeps DEF Onward
<1>2. CASE Back
  <2>1. UNCHANGED <<subs, alive, listed>> /\ Lists
    BY <1>2, ReturnForms DEF Back
  <2>2. Shape(qcopy', queue', frames')
    BY <1>2, ReturnForms DEF Back, Ready
  <2>3. handled' \in BOOLEAN
    BY <1>2, ReturnForms DEF Back
  <2> QED
    BY <2>1, <2>2, <2>3, SMTT(30)
    DEF Lists, IInv, SubsOK, LivingListed, Living, Hook, Numbers, Shape, Ordered, Before
<1> QED
  BY <1>1, <1>2, ReturnForms

LEMMA NextInv == IInv /\ [Next]_vars => IInv'
<1> SUFFICES ASSUME IInv, [Next]_vars PROVE IInv'
  OBVIOUS
<1>1. CASE UNCHANGED vars
  <2>1. /\ subs' = subs /\ alive' = alive /\ listed' = listed /\ qcopy' = qcopy
        /\ queue' = queue /\ frames' = frames /\ handled' = handled
    BY <1>1 DEF vars
  <2> QED
    BY <2>1 DEF IInv, SubsOK, LivingListed, Living, Hook, Numbers, Shape, Ordered, Before
<1>2. CASE Call \/ Skip \/ Finish \/ Expire \/ Passover
  BY <1>2, LoopKeeps
<1>3. CASE Return
  BY <1>3, ReturnKeeps
<1>4. CASE \E o \in Objects, t \in Tiers, e \in Events : Signal(<<o>>, t, e) \/ Signal(Up[o], t, e)
  BY <1>4, SignalKeeps
<1>5. CASE \/ \E k \in Keys : \/ Subscribe(k)
                              \/ \E n \in Numbers : Duplicate(n, k)
                              \/ EraseScripts(k)
           \/ \E h \in alive : Unsubscribe(h)
           \/ \E o \in Objects : Destroy(o)
  BY <1>5, ChangeKeeps
<1> QED
  BY <1>1, <1>2, <1>3, <1>4, <1>5 DEF Next

(* The inductive invariant holds of every state of the event bus.          *)
THEOREM Invariance == Spec => []IInv
BY InitInv, NextInv, PTL DEF Spec

(* All variables have their types, for any objects, events and depth.      *)
THEOREM TypeCorrect == Spec => []TypeOK
BY Invariance, IInvType, PTL

(* No signal disturbs the segment of one around it or leaves anything      *)
(* behind, whatever the handlers do: head, tail and iter stay good indices *)
(* into qcopy, which other calls of _notify extend and cut.                *)
THEOREM SegmentsStayNested == Spec => []SegmentsNested
BY Invariance, IInvType, PTL

(* A subscription that is held is never lost from its list.                *)
THEOREM LivingStayListed == Spec => []LivingListed
<1>1. IInv => LivingListed
  BY DEF IInv
<1> QED
  BY <1>1, Invariance, PTL

----------------------------------------------------------------------------
(* The refinement.  View gives, for any stacks, the calls that they stand  *)
(* for.                                                                    *)
View(q, u, F) == [d \in 1..Len(F) |-> Seen(q, u[d], F[d])]

LEMMA ViewFacts ==
  ASSUME NEW q, NEW u, NEW F, Shape(q, u, F)
  PROVE  /\ \E T : View(q, u, F) \in Seq(T)
         /\ Len(View(q, u, F)) = Len(F)
         /\ \A d \in 1..Len(F) : View(q, u, F)[d] = Seen(q, u[d], F[d])
<1> DEFINE T == {Seen(q, u[d], F[d]) : d \in 1..Len(F)}
           v == View(q, u, F)
<1>1. Len(F) \in Nat
  BY DEF Shape
<1>2. v \in [1..Len(F) -> T]
  BY DEF View
<1>3. v \in Seq(T) /\ Len(v) = Len(F)
  BY <1>1, <1>2
<1>4. \A d \in 1..Len(F) : v[d] = Seen(q, u[d], F[d])
  BY DEF View
<1> QED
  BY <1>3, <1>4

LEMMA CallsFacts ==
  ASSUME IInv
  PROVE  /\ Calls = View(qcopy, queue, frames) /\ Len(Calls) = Len(frames)
         /\ \A d \in 1..Len(frames) : Calls[d] = Seen(qcopy, queue[d], frames[d])
         /\ DOMAIN Calls = 1..Len(frames)
         /\ Calls # <<>> <=> frames # <<>>
<1>1. Calls = View(qcopy, queue, frames) /\ DOMAIN Calls = 1..Len(frames)
  BY DEF Calls, View, Depth
<1>2. frames \in Seq(Frame) /\ Shape(qcopy, queue, frames)
  BY DEF IInv, Shape
<1>3. /\ \E T : Calls \in Seq(T)
      /\ Len(Calls) = Len(frames)
      /\ \A d \in 1..Len(frames) : Calls[d] = Seen(qcopy, queue[d], frames[d])
  BY <1>1, <1>2, ViewFacts
<1>4. Calls # <<>> <=> frames # <<>>
  BY <1>2, <1>3, EmptySeq
<1> QED
  BY <1>1, <1>3, <1>4

\* Of a signal that waits for a handler, the handler has a number.
LEMMA NowFacts ==
  ASSUME NEW q, NEW u, NEW F, Shape(q, u, F), NEW d \in 1..Len(F)
  PROVE  /\ F[d].busy => F[d].iter \in 1..Len(q) /\ Now(q, F[d]) \in Numbers
         /\ F[d].busy <=> Now(q, F[d]) # 0
<1>1. /\ F[d].head \in Nat /\ F[d].tail \in Nat /\ F[d].iter \in Nat /\ F[d].tail <= Len(q)
  BY Segment
<1>2. F[d].head < F[d].iter /\ (F[d].busy => F[d].iter <= F[d].tail)
  BY DEF Shape, Nested
<1>3. F[d].busy => F[d].iter \in 1..Len(q)
  BY <1>1, <1>2
<1>4. F[d].busy => Now(q, F[d]) \in Numbers
  BY <1>3, ElementOfSeq DEF Shape, Now
<1>5. 0 \notin Numbers
  BY DEF Numbers
<1> QED
  BY <1>3, <1>4, <1>5 DEF Now

LEMMA TopCall ==
  ASSUME IInv, frames # <<>>
  PROVE  /\ Delivery!Top = Seen(qcopy, queue[Depth], Top)
         /\ Delivery!Top.now = Now(qcopy, Top) /\ Delivery!Top.state = queue[Depth].state
         /\ Delivery!Top.tier = Top.tier /\ Delivery!Top.event = Top.event
         /\ Delivery!Top.rise = Top.rise /\ Delivery!Top.todo = Waiting(qcopy, Top)
         /\ Top.busy <=> Now(qcopy, Top) # 0
<1>1. Delivery!Top = Seen(qcopy, queue[Depth], Top)
  BY CallsFacts, TopFacts DEF Delivery!Top, Top, Depth
<1>2. Top.busy <=> Now(qcopy, Top) # 0
  BY TopFacts, NowFacts DEF IInv
<1>3. /\ Delivery!Top.now = Now(qcopy, Top) /\ Delivery!Top.state = queue[Depth].state
      /\ Delivery!Top.tier = Top.tier /\ Delivery!Top.event = Top.event
      /\ Delivery!Top.rise = Top.rise /\ Delivery!Top.todo = Waiting(qcopy, Top)
  BY <1>1 DEF Seen
<1> QED
  BY <1>1, <1>2, <1>3

\* Both see the same handlers run.
LEMMA RunningSame == ASSUME IInv PROVE Delivery!Running = Running
<1>1. /\ Len(Calls) = Len(frames) /\ Shape(qcopy, queue, frames)
      /\ \A d \in 1..Len(frames) : Calls[d] = Seen(qcopy, queue[d], frames[d])
  BY CallsFacts DEF IInv
<1>2. \A d \in 1..Len(frames) :
          /\ Calls[d].now # 0 <=> frames[d].busy
          /\ frames[d].busy => Calls[d].now = qcopy[frames[d].iter]
  <2> SUFFICES ASSUME NEW d \in 1..Len(frames)
               PROVE  /\ Calls[d].now # 0 <=> frames[d].busy
                      /\ frames[d].busy => Calls[d].now = qcopy[frames[d].iter]
    OBVIOUS
  <2>1. Calls[d].now = Now(qcopy, frames[d])
    <3>1. Calls[d] = Seen(qcopy, queue[d], frames[d])
      BY <1>1
    <3> QED
      BY <3>1 DEF Seen
  <2>2. frames[d].busy <=> Now(qcopy, frames[d]) # 0
    BY <1>1, NowFacts
  <2> QED
    BY <2>1, <2>2 DEF Now
<1> DEFINE B == {c \in 1..Len(frames) : frames[c].busy}
<1>3. {c \in 1..Len(Calls) : Calls[c].now # 0} = B
  BY <1>1, <1>2
<1>4. \A d \in B : Calls[d].now = qcopy[frames[d].iter]
  BY <1>2
<1>5. Delivery!Running = {Hook(Calls[d].now) : d \in B}
  BY <1>3 DEF Delivery!Running, Delivery!Hook, Hook
<1>6. Running = {Hook(qcopy[frames[d].iter]) : d \in B}
  BY DEF Running, Depth
<1> HIDE DEF B
<1> QED
  BY <1>4, <1>5, <1>6

LEMMA FreeRefines == ASSUME IInv, Free PROVE Delivery!Free
BY CallsFacts, TopCall DEF Free, Delivery!Free

LEMMA ChangeRefines ==
  ASSUME IInv, \/ \E k \in Keys : \/ Subscribe(k)
                                  \/ \E n \in Numbers : Duplicate(n, k)
                                  \/ EraseScripts(k)
               \/ \E h \in alive : Unsubscribe(h)
               \/ \E o \in Objects : Destroy(o)
  PROVE  Delivery!Change
<1>1. Free /\ UNCHANGED stacks
  BY DEF Subscribe, Duplicate, EraseScripts, Unsubscribe, Destroy
<1>2. Delivery!Free /\ UNCHANGED <<Calls, handled>>
  BY <1>1, FreeRefines DEF stacks, Calls, Depth, Seen, Waiting, Now
<1>3. \/ \E k \in Keys : NewSub(k)
      \/ \E n \in Numbers, k \in Keys : CopySub(n, k)
      \/ \E S \in SUBSET alive : DropHooks(S)
  <2>1. \A S : DropHooks(S) => S \in SUBSET alive
    BY DEF DropHooks
  <2> QED
    BY <2>1 DEF Subscribe, Duplicate, EraseScripts, Unsubscribe, Destroy
<1>4. \/ \E k \in Keys : Delivery!NewSub(k)
      \/ \E n \in Delivery!Numbers, k \in Keys : Delivery!CopySub(n, k)
      \/ \E S \in SUBSET alive : Delivery!DropHooks(S)
  BY <1>3 DEF NewSub, CopySub, DropHooks, Numbers, Living, Hook, Script,
              Delivery!NewSub, Delivery!CopySub, Delivery!DropHooks, Delivery!Numbers,
              Delivery!Living, Delivery!Hook, Delivery!Script
<1> QED
  BY <1>2, <1>4 DEF Delivery!Change

\* A step of the innermost signal changes its call and no other.
LEMMA PutStep ==
  ASSUME IInv, IInv', frames # <<>>, qcopy' = qcopy, Len(frames') = Len(frames),
         \A j \in 1..Len(frames) : j # Depth => frames'[j] = frames[j] /\ queue'[j] = queue[j],
         NEW d, NEW st, NEW b,
         LET f == frames'[Depth]
         IN  /\ f.tier = Top.tier /\ f.event = Top.event /\ f.rise = Top.rise
             /\ Now(qcopy, f) = b /\ queue'[Depth].state = st /\ Waiting(qcopy, f) = d
  PROVE  Delivery!Put(d, st, b)
<1> DEFINE c == [tier |-> Top.tier, event |-> Top.event, todo |-> d, state |-> st,
                 now |-> b, rise |-> Top.rise]
<1>0. c = Seen(qcopy, queue'[Depth], frames'[Depth])
  BY DEF Seen
<1>c. c = [tier |-> Delivery!Top.tier, event |-> Delivery!Top.event, todo |-> d, state |-> st,
           now |-> b, rise |-> Delivery!Top.rise]
  BY TopCall
<1> HIDE DEF c
<1>1. Len(Calls) = Depth /\ DOMAIN Calls = 1..Len(frames) /\ Calls = [j \in 1..Len(frames) |-> Calls[j]]
  BY CallsFacts, TopFacts DEF Calls
<1>2. Calls' = [j \in 1..Len(frames) |-> Seen(qcopy, queue'[j], frames'[j])]
  BY DEF Calls, Depth, Seen, Waiting, Now
<1>3. \A j \in 1..Len(frames) : Calls[j] = Seen(qcopy, queue[j], frames[j])
  BY CallsFacts
<1>4. \A j \in 1..Len(frames) : Seen(qcopy, queue'[j], frames'[j]) = IF j = Depth THEN c ELSE Calls[j]
  BY <1>0, <1>3
<1>5. Calls' = [j \in 1..Len(frames) |-> IF j = Depth THEN c ELSE Calls[j]]
  BY <1>2, <1>4
<1>6. [Calls EXCEPT ![Depth] = c] = [j \in 1..Len(frames) |-> IF j = Depth THEN c ELSE Calls[j]]
  BY <1>1
<1> QED
  BY <1>1, <1>5, <1>6, <1>c DEF Delivery!Put

\* The next entry of the segment is the least of those that wait.
LEMMA NextWaiting ==
  ASSUME IInv, frames # <<>>, ~Top.busy, Top.iter <= Top.tail
  PROVE  /\ qcopy[Top.iter] \in Waiting(qcopy, Top)
         /\ {qcopy[i] : i \in (Top.iter + 1)..Top.tail} = Waiting(qcopy, Top) \ {qcopy[Top.iter]}
         /\ Delivery!Foremost(qcopy[Top.iter])
<1>1. /\ Top.iter \in Nat /\ Top.tail \in Nat /\ Top.head \in Nat
      /\ Top.head < Top.iter /\ Top.tail = Len(qcopy) /\ qcopy \in Seq(Numbers)
  BY TopFacts DEF Frame, IInv, Shape
<1>2. Waiting(qcopy, Top) = {qcopy[i] : i \in Top.iter..Top.tail}
  BY DEF Waiting
<1>3. \A i \in (Top.iter + 1)..Top.tail : Before(Top.tier, qcopy[Top.iter], qcopy[i])
  <2>1. \A i, j \in (Top.head + 1)..Top.tail : i < j => Before(Top.tier, qcopy[i], qcopy[j])
    BY TopFacts DEF IInv, Shape, Ordered
  <2> QED
    BY <1>1, <2>1
<1>4. \A n \in Numbers : ~Before(Top.tier, n, n)
  <2> SUFFICES ASSUME NEW n \in Numbers PROVE ~Before(Top.tier, n, n)
    OBVIOUS
  <2>1. subs[n] \in Sub /\ n \in Int
    BY ElementOfSeq DEF IInv, SubsOK, Numbers
  <2>2. Len(subs[n].key.group) \in Nat
    BY <2>1, EventAssumption DEF Sub
  <2> QED
    BY <2>1, <2>2 DEF Before
<1>5. \A i \in Top.iter..Top.tail : qcopy[i] \in Numbers
  BY <1>1, ElementOfSeq
<1>6. \A i \in (Top.iter + 1)..Top.tail : qcopy[i] # qcopy[Top.iter]
  BY <1>1, <1>3, <1>4, <1>5
<1>7. Top.iter..Top.tail = {Top.iter} \cup ((Top.iter + 1)..Top.tail)
  BY <1>1
<1>8. {qcopy[i] : i \in (Top.iter + 1)..Top.tail} = Waiting(qcopy, Top) \ {qcopy[Top.iter]}
  BY <1>2, <1>6, <1>7
<1>9. Delivery!Foremost(qcopy[Top.iter])
  <2>1. \A m \in Waiting(qcopy, Top) \ {qcopy[Top.iter]} : Before(Top.tier, qcopy[Top.iter], m)
    BY <1>3, <1>8
  <2> QED
    BY <2>1, TopCall DEF Delivery!Foremost, Delivery!Before, Before
<1> QED
  BY <1>2, <1>7, <1>8, <1>9

LEMMA LoopRefines ==
  ASSUME IInv, IInv', Call \/ Skip \/ Finish \/ Expire \/ Passover
  PROVE  Delivery!Call \/ Delivery!Finish \/ Delivery!Answer
<1>1. /\ frames # <<>> /\ qcopy' = qcopy /\ UNCHANGED <<subs, alive, handled>>
      /\ Calls # <<>>
  BY CallsFacts DEF Call, Skip, Finish, Expire, Passover
<1>2. /\ frames \in Seq(Frame) /\ queue \in Seq(CallState) /\ Len(queue) = Len(frames)
      /\ Depth \in 1..Len(frames) /\ Top \in Frame /\ Top = frames[Depth]
  BY <1>1, TopFacts DEF IInv, Shape
<1>3. ASSUME NEW f, SetTop(f)
      PROVE  /\ Len(frames') = Len(frames) /\ frames'[Depth] = f
             /\ \A d \in 1..Len(frames) : d # Depth => frames'[d] = frames[d]
  BY <1>2, <1>3 DEF SetTop
<1>4. ASSUME NEW st, SetState(st)
      PROVE  /\ queue'[Depth].state = st
             /\ \A d \in 1..Len(frames) : d # Depth => queue'[d] = queue[d]
  <2>1. queue[Depth] \in CallState
    BY <1>1, TopFacts
  <2> QED
    BY <1>2, <1>4, <2>1 DEF SetState, CallState
<1>5. ASSUME NEW f, frames'[Depth] = f, Len(frames') = Len(frames),
             \A j \in 1..Len(frames) : j # Depth => frames'[j] = frames[j] /\ queue'[j] = queue[j],
             f.tier = Top.tier, f.event = Top.event, f.rise = Top.rise,
             NEW d, Waiting(qcopy, f) = d, NEW st, queue'[Depth].state = st,
             NEW b, Now(qcopy, f) = b
      PROVE  Delivery!Put(d, st, b)
  BY <1>1, <1>5, PutStep
<1>t. /\ Delivery!Top = Seen(qcopy, queue[Depth], Top)
      /\ Delivery!Top.now = Now(qcopy, Top) /\ Delivery!Top.todo = Waiting(qcopy, Top)
      /\ Delivery!Top.state = queue[Depth].state
      /\ Top.busy <=> Delivery!Top.now # 0
  BY <1>1, TopCall
<1>h. \A n : Held(n) <=> Delivery!Living(n) \/ Delivery!Hook(n) \in Delivery!Running
  BY RunningSame DEF Held, Living, Hook, Delivery!Living, Delivery!Hook
<1>6. CASE Call
  <2> DEFINE n == qcopy[Top.iter]
             f == [Top EXCEPT !.busy = TRUE]
  <2>1. ~Top.busy /\ Top.iter <= Top.tail /\ Held(n) /\ SetState("proceed") /\ SetTop(f)
    BY <1>6 DEF Call
  <2>2. /\ n \in Delivery!Top.todo /\ Delivery!Foremost(n)
        /\ {qcopy[i] : i \in (Top.iter + 1)..Top.tail} = Delivery!Top.todo \ {n}
    BY <1>1, <1>t, <2>1, NextWaiting
  <2>3. /\ f.tier = Top.tier /\ f.event = Top.event /\ f.rise = Top.rise
        /\ f.iter = Top.iter /\ f.tail = Top.tail /\ f.busy
    BY <1>2 DEF Frame
  <2>4. frames'[Depth] = f /\ queue'[Depth].state = "proceed"
    BY <1>3, <1>4, <2>1
  <2>5. Waiting(qcopy, f) = Delivery!Top.todo \ {n}
    BY <2>2, <2>3 DEF Waiting
  <2> HIDE DEF f, n
  <2>6. Now(qcopy, f) = n
    BY <2>3 DEF Now, n
  <2>7. Delivery!Put(Delivery!Top.todo \ {n}, "proceed", n)
    BY <1>3, <1>4, <1>5, <2>1, <2>3, <2>4, <2>5, <2>6
  <2> QED
    BY <1>1, <1>h, <1>t, <2>1, <2>2, <2>7 DEF Delivery!Call
<1>7. CASE Skip
  <2> DEFINE n == qcopy[Top.iter]
             f == [Top EXCEPT !.iter = @ + 1]
  <2>1. ~Top.busy /\ Top.iter <= Top.tail /\ ~Held(n) /\ queue' = queue /\ SetTop(f)
    BY <1>7 DEF Skip
  <2>2. /\ n \in Delivery!Top.todo /\ Delivery!Foremost(n)
        /\ {qcopy[i] : i \in (Top.iter + 1)..Top.tail} = Delivery!Top.todo \ {n}
    BY <1>1, <1>t, <2>1, NextWaiting
  <2>3. /\ f.tier = Top.tier /\ f.event = Top.event /\ f.rise = Top.rise
        /\ f.iter = Top.iter + 1 /\ f.tail = Top.tail /\ f.busy = Top.busy
    BY <1>2 DEF Frame
  <2>4. frames'[Depth] = f /\ queue'[Depth].state = Delivery!Top.state
    BY <1>3, <1>t, <2>1
  <2>5. Waiting(qcopy, f) = Delivery!Top.todo \ {n}
    BY <2>1, <2>2, <2>3 DEF Waiting
  <2> HIDE DEF f, n
  <2>6. Now(qcopy, f) = 0
    BY <2>1, <2>3 DEF Now
  <2>7. Delivery!Put(Delivery!Top.todo \ {n}, Delivery!Top.state, 0)
    BY <1>3, <1>5, <2>1, <2>3, <2>4, <2>5, <2>6
  <2> QED
    BY <1>1, <1>h, <1>t, <2>1, <2>2, <2>7 DEF Delivery!Call
<1>8. CASE Finish
  <2> DEFINE i == IF queue[Depth].state = "fullstop" THEN Top.tail + 1 ELSE Top.iter + 1
             w == IF Delivery!Top.state = "fullstop" THEN {} ELSE Delivery!Top.todo
             f == [Top EXCEPT !.busy = FALSE, !.iter = i]
  <2>1. Top.busy /\ queue' = queue /\ SetTop(f)
    BY <1>8 DEF Finish
  <2>2. {qcopy[j] : j \in i..Top.tail} = w
    <3>1. Top.tail \in Int
      BY <1>2 DEF Frame
    <3>2. (Top.tail + 1)..Top.tail = {}
      BY <3>1
    <3> QED
      BY <1>t, <2>1, <3>2 DEF Waiting
  <2> HIDE DEF i, w
  <2>3. /\ f.tier = Top.tier /\ f.event = Top.event /\ f.rise = Top.rise
        /\ f.iter = i /\ f.tail = Top.tail /\ f.busy = FALSE
    BY <1>2 DEF Frame
  <2>4. frames'[Depth] = f /\ queue'[Depth].state = Delivery!Top.state
    BY <1>3, <1>t, <2>1
  <2>5. Waiting(qcopy, f) = w
    BY <2>2, <2>3 DEF Waiting
  <2> HIDE DEF f
  <2>6. Now(qcopy, f) = 0
    BY <2>3 DEF Now
  <2>7. Delivery!Put(w, Delivery!Top.state, 0)
    BY <1>3, <1>5, <2>1, <2>3, <2>4, <2>5, <2>6
  <2> QED
    BY <1>1, <1>t, <2>1, <2>7 DEF Delivery!Finish, w
<1>9. CASE Expire \/ Passover
  <2>1. PICK st \in {"fullstop", "not_handled"} : SetState(st) /\ frames' = frames /\ Top.busy
    BY <1>9 DEF Expire, Passover
  <2>2. Delivery!Put(Delivery!Top.todo, st, Delivery!Top.now)
    BY <1>2, <1>4, <1>5, <1>t, <2>1
  <2> QED
    BY <1>1, <1>t, <2>1, <2>2 DEF Delivery!Answer
<1> QED
  BY <1>6, <1>7, <1>8, <1>9

\* Sending a signal from any stacks is sending it from the calls they stand
\* for; whoever is subscribed and held hears it.
LEMMA SendRefines ==
  ASSUME Lists, Delivery!Running = Running, UNCHANGED <<subs, alive>>,
         NEW q, NEW u, NEW F, Ready(q, u, F),
         NEW line \in Seq(Objects), NEW t \in Tiers, NEW e \in Events, NEW before \in BOOLEAN,
         Send(q, u, F, line, t, e, before)
  PROVE  Delivery!Send(View(q, u, F), line, t, e, before)
<1>1. ASSUME NEW o
      PROVE  \E L \in SUBSET Delivery!Lingering(o, t, e) :
                 Selected(o, t, e) = Delivery!Hearers(o, t, e) \cup L
  <2> DEFINE L == {n \in Selected(o, t, e) : ~Living(n)}
  <2>1. L \subseteq Delivery!Lingering(o, t, e)
    BY DEF Lists, Selected, InLists, Held, KeysOf, Holder, Groups, Living, Hook, Numbers,
           Delivery!Lingering, Delivery!Subscribed, Delivery!KeysOf, Delivery!Holder,
           Delivery!Groups, Delivery!Living, Delivery!Hook, Delivery!Numbers
  <2>2. {n \in Selected(o, t, e) : Living(n)} = Delivery!Hearers(o, t, e)
    BY DEF Lists, LivingListed, Selected, InLists, Held, KeysOf, Holder, Groups, Living, Hook,
           Numbers, Delivery!Hearers, Delivery!Subscribed, Delivery!KeysOf, Delivery!Holder,
           Delivery!Groups, Delivery!Living, Delivery!Hook, Delivery!Numbers
  <2>3. Selected(o, t, e) = Delivery!Hearers(o, t, e) \cup L
    BY <2>2
  <2> HIDE DEF L
  <2> QED
    BY <2>1, <2>3
<1>2. DOMAIN line = 1..Len(line)
  BY LenProperties
<1>3. CASE /\ \A i \in DOMAIN line : Selected(line[i], t, e) = {}
           /\ handled' = FALSE
           /\ qcopy' = q /\ queue' = u /\ frames' = F
  <2>1. Calls' = View(q, u, F)
    BY <1>3 DEF Calls, View, Depth, Seen, Waiting, Now
  <2>2. \A i \in 1..Len(line) : Delivery!Hearers(line[i], t, e) = {}
    BY <1>1, <1>2, <1>3
  <2> QED
    BY <1>3, <2>1, <2>2 DEF Delivery!Send
<1>4. ASSUME NEW i \in DOMAIN line,
             Selected(line[i], t, e) # {},
             \A j \in 1..(i - 1) : Selected(line[j], t, e) = {},
             handled' = IF i = 1 THEN before ELSE FALSE,
             NEW s \in [1..Cardinality(Selected(line[i], t, e)) -> Selected(line[i], t, e)],
             InOrder(s, Selected(line[i], t, e), t),
             Push(q, u, F, t, e, s, SubSeq(line, i + 1, Len(line)))
      PROVE  Delivery!Send(View(q, u, F), line, t, e, before)
  <2> DEFINE S == Selected(line[i], t, e)
             c == [tier |-> t, event |-> e, todo |-> S, state |-> "not_handled",
                   now |-> 0, rise |-> SubSeq(line, i + 1, Len(line))]
             f == [tier |-> t, event |-> e, head |-> Len(q), iter |-> Len(q) + 1,
                   tail |-> Len(q) + Len(s), busy |-> FALSE,
                   rise |-> SubSeq(line, i + 1, Len(line))]
             a == [event |-> e, state |-> "not_handled"]
  <2>1. /\ q \in Seq(Numbers) /\ F \in Seq(Frame) /\ u \in Seq(CallState) /\ Len(u) = Len(F)
        /\ Len(F) \in Nat /\ Len(q) \in Nat /\ Shape(q, u, F)
    BY DEF Ready, Shape
  <2>2. S \in SUBSET Numbers /\ IsFiniteSet(S)
    <3>1. S \in SUBSET Numbers
      BY DEF Lists, Selected, InLists
    <3>2. IsFiniteSet(Numbers)
      BY FS_Interval DEF Lists, SubsOK, Numbers
    <3> QED
      BY <3>1, <3>2, FS_Subset
  <2>3. /\ Cardinality(S) \in Nat /\ s \in Seq(Numbers) /\ DOMAIN s = 1..Len(s)
        /\ Len(s) \in Nat /\ \A j \in 1..Len(s) : s[j] \in S
    BY <2>2, FS_CardinalityType
  <2>4. /\ qcopy' = q \o s /\ queue' = Append(u, a) /\ frames' = Append(F, f)
    BY <1>4 DEF Push
  <2>5. \A j \in 1..(Len(q) + Len(s)) : (q \o s)[j] = IF j <= Len(q) THEN q[j] ELSE s[j - Len(q)]
    BY <2>1, <2>3, ConcatProperties
  <2>6. /\ Len(Append(F, f)) = Len(F) + 1 /\ Append(F, f)[Len(F) + 1] = f
        /\ \A d \in 1..Len(F) : Append(F, f)[d] = F[d]
    <3>1. F \in Seq(Frame \cup {f}) /\ f \in Frame \cup {f}
      BY <2>1, SeqMonotonic
    <3> QED
      BY <3>1, AppendFacts
  <2>7. /\ Append(u, a)[Len(F) + 1] = a
        /\ \A d \in 1..Len(F) : Append(u, a)[d] = u[d]
    <3>1. u \in Seq(CallState \cup {a}) /\ a \in CallState \cup {a}
      BY <2>1, SeqMonotonic
    <3> QED
      BY <2>1, <3>1, AppendFacts
  <2>8. Waiting(q \o s, f) = S
    <3>1. Waiting(q \o s, f) = {(q \o s)[j] : j \in (Len(q) + 1)..(Len(q) + Len(s))}
      BY DEF Waiting
    <3>2. \A j \in (Len(q) + 1)..(Len(q) + Len(s)) :
              j - Len(q) \in 1..Len(s) /\ (q \o s)[j] = s[j - Len(q)]
      BY <2>1, <2>3, <2>5
    <3>3. \A j \in 1..Len(s) : /\ j + Len(q) \in (Len(q) + 1)..(Len(q) + Len(s))
                               /\ (q \o s)[j + Len(q)] = s[j]
      BY <2>1, <2>3, <2>5
    <3>4. \A n \in S : \E j \in 1..Len(s) : s[j] = n
      BY <1>4, <2>3 DEF InOrder
    <3>5. ASSUME NEW n \in S PROVE n \in Waiting(q \o s, f)
      <4>1. PICK j \in 1..Len(s) : s[j] = n
        BY <3>4, <3>5
      <4> QED
        BY <3>1, <3>3, <4>1
    <3>6. ASSUME NEW n \in Waiting(q \o s, f) PROVE n \in S
      <4>1. PICK j \in (Len(q) + 1)..(Len(q) + Len(s)) : n = (q \o s)[j]
        BY <3>1, <3>6
      <4> HIDE DEF S
      <4> QED
        BY <2>3, <3>2, <4>1
    <3> HIDE DEF S, f
    <3> QED
      BY <3>5, <3>6
  <2>9. Seen(q \o s, a, f) = c
    BY <2>8 DEF Seen, Now
  <2> HIDE DEF f, a, c, S
  <2>10. \A d \in 1..Len(F) : Seen(q \o s, u[d], F[d]) = Seen(q, u[d], F[d])
    <3> SUFFICES ASSUME NEW d \in 1..Len(F) PROVE Waiting(q \o s, F[d]) = Waiting(q, F[d])
      <4>1. \A d \in 1..Len(F) : Now(q \o s, F[d]) = Now(q, F[d])
        BY <2>1, <2>3, <2>5, NowFacts, SMTT(30) DEF Now
      <4> QED
        BY <4>1 DEF Seen
    <3>1. /\ F[d].head \in Nat /\ F[d].tail \in Nat /\ F[d].iter \in Nat /\ F[d].tail <= Len(q)
          /\ 0 < F[d].iter
      <4>1. /\ F[d].head \in Nat /\ F[d].tail \in Nat /\ F[d].iter \in Nat /\ F[d].tail <= Len(q)
        BY <2>1, Segment
      <4>2. F[d].head < F[d].iter
        BY <2>1 DEF Shape, Nested
      <4> QED
        BY <4>1, <4>2
    <3> DEFINE I == (IF F[d].busy THEN F[d].iter + 1 ELSE F[d].iter)..F[d].tail
    <3>2. I \subseteq 1..Len(q)
      BY <2>1, <3>1
    <3>3. \A j \in I : (q \o s)[j] = q[j]
      BY <2>1, <2>3, <2>5, <3>2
    <3>4. Waiting(q \o s, F[d]) = {(q \o s)[j] : j \in I} /\ Waiting(q, F[d]) = {q[j] : j \in I}
      BY DEF Waiting
    <3> HIDE DEF I
    <3> QED
      BY <3>3, <3>4
  <2>11. Calls' = Append(View(q, u, F), c)
    <3> DEFINE v == View(q, u, F)
    <3>1. PICK T : v \in Seq(T)
      BY <2>1, ViewFacts
    <3>2. /\ Len(v) = Len(F)
          /\ \A d \in 1..Len(F) : v[d] = Seen(q, u[d], F[d])
      BY <2>1, ViewFacts
    <3> HIDE DEF v
    <3>3. v \in Seq(T \cup {c}) /\ c \in T \cup {c}
      BY <3>1, SeqMonotonic
    <3>4. /\ Append(v, c) \in Seq(T \cup {c}) /\ Len(Append(v, c)) = Len(F) + 1
          /\ Append(v, c)[Len(F) + 1] = c
          /\ \A d \in 1..Len(F) : Append(v, c)[d] = v[d]
      BY <3>2, <3>3, AppendFacts
    <3>5. Calls' = [d \in 1..(Len(F) + 1) |-> Seen(q \o s, Append(u, a)[d], Append(F, f)[d])]
      BY <2>4, <2>6 DEF Calls, Depth, Seen, Waiting, Now
    <3>6. \A d \in 1..(Len(F) + 1) : Seen(q \o s, Append(u, a)[d], Append(F, f)[d]) = Append(v, c)[d]
      <4> SUFFICES ASSUME NEW d \in 1..(Len(F) + 1)
                   PROVE  Seen(q \o s, Append(u, a)[d], Append(F, f)[d]) = Append(v, c)[d]
        OBVIOUS
      <4>1. CASE d = Len(F) + 1
        BY <2>6, <2>7, <2>9, <3>4, <4>1
      <4>2. CASE d \in 1..Len(F)
        BY <2>6, <2>7, <2>10, <3>2, <3>4, <4>2
      <4>3. d = Len(F) + 1 \/ d \in 1..Len(F)
        BY <2>1
      <4> QED
        BY <4>1, <4>2, <4>3
    <3>7. Append(v, c) = [d \in 1..(Len(F) + 1) |-> Append(v, c)[d]]
      BY <3>4, LenProperties
    <3>8. Calls' = Append(v, c)
      BY <3>5, <3>6, <3>7
    <3> QED
      BY <3>8 DEF v
  <2>12. /\ \E L \in SUBSET Delivery!Lingering(line[i], t, e) : Delivery!Hearers(line[i], t, e) \cup L = S
         /\ \A j \in 1..(i - 1) : Delivery!Hearers(line[j], t, e) = {}
    BY <1>1, <1>4 DEF S
  <2>13. Delivery!Rest(line, i) = SubSeq(line, i + 1, Len(line))
    BY DEF Delivery!Rest
  <2> QED
    BY <1>2, <1>4, <2>11, <2>12, <2>13 DEF Delivery!Send, c, S
<1> QED
  BY <1>3, <1>4 DEF Send

LEMMA SignalRefines ==
  ASSUME IInv, NEW o \in Objects, NEW t \in Tiers, NEW e \in Events,
         Signal(<<o>>, t, e) \/ Signal(Up[o], t, e)
  PROVE  Delivery!Signal
<1>1. <<o>> \in Seq(Objects) /\ Up[o] \in Seq(Objects) /\ handled \in BOOLEAN
  BY EventAssumption DEF IInv
<1>2. Lists /\ Ready(qcopy, queue, frames) /\ UNCHANGED <<subs, alive>>
  BY FreeReady DEF Signal, Ready, Depth
<1>3. Delivery!Free /\ Len(Calls) < MaxDepth /\ Calls = View(qcopy, queue, frames)
  BY FreeRefines, CallsFacts DEF Signal, Depth
<1>4. Delivery!Send(Calls, <<o>>, t, e, handled) \/ Delivery!Send(Calls, Up[o], t, e, handled)
  BY <1>1, <1>2, <1>3, RunningSame, SendRefines DEF Signal
<1> QED
  BY <1>2, <1>3, <1>4 DEF Delivery!Signal

LEMMA ReturnRefines ==
  ASSUME IInv, Return
  PROVE  Delivery!Return
<1> DEFINE q == Popped(qcopy, Top.head)
           u == Unqueued(queue)
           F == SubSeq(frames, 1, Depth - 1)
<1>1. /\ Lists /\ frames # <<>> /\ UNCHANGED <<subs, alive>> /\ Ready(q, u, F)
      /\ Top.rise \in Seq(Objects) /\ Top.tier \in Tiers /\ Top.event \in Events
      /\ Taken(queue) \in BOOLEAN
      /\ (Top.rise # <<>> /\ ~Taken(queue) => Onward)
      /\ (Top.rise = <<>> \/ Taken(queue) => Back)
  BY ReturnForms
<1>2. /\ Depth \in 1..Len(frames) /\ Depth = Len(frames) /\ Len(queue) = Depth
      /\ qcopy \in Seq(Numbers) /\ frames \in Seq(Frame) /\ queue \in Seq(CallState)
      /\ Shape(qcopy, queue, frames)
  BY <1>1, TopFacts DEF IInv, Shape
<1>3. /\ Top.head \in 0..Len(qcopy) /\ Depth - 1 \in 0..Len(frames)
  BY <1>1, <1>2, TopFacts, SMTT(30) DEF Frame
<1>4. /\ Len(q) = Top.head /\ \A i \in 1..Top.head : q[i] = qcopy[i]
      /\ Len(F) = Depth - 1 /\ \A d \in 1..(Depth - 1) : F[d] = frames[d]
      /\ \A d \in 1..(Depth - 1) : u[d] = queue[d]
  <2>1. Len(q) = Top.head /\ \A i \in 1..Top.head : q[i] = qcopy[i]
    BY <1>2, <1>3, FrontFacts DEF Popped
  <2>2. Len(F) = Depth - 1 /\ \A d \in 1..(Depth - 1) : F[d] = frames[d]
    BY <1>2, <1>3, FrontFacts
  <2>3. \A d \in 1..(Depth - 1) : u[d] = queue[d]
    BY <1>2, <1>3, FrontFacts DEF Unqueued
  <2> QED
    BY <2>1, <2>2, <2>3
<1> HIDE DEF q, u, F
<1>5. View(q, u, F) = SubSeq(Calls, 1, Len(Calls) - 1)
  <2>1. PICK T : Calls \in Seq(T)
    BY <1>2, CallsFacts, ViewFacts
  <2>2. Len(Calls) = Depth /\ Depth - 1 \in 0..Len(Calls)
    BY <1>2, <1>3, CallsFacts
  <2> DEFINE w == SubSeq(Calls, 1, Depth - 1)
  <2>3. /\ w \in Seq(T) /\ Len(w) = Depth - 1
        /\ \A d \in 1..(Depth - 1) : w[d] = Calls[d]
    BY <2>1, <2>2, FrontFacts
  <2> HIDE DEF w
  <2>4. w = [d \in 1..(Depth - 1) |-> w[d]]
    BY <2>3, LenProperties
  <2>5. ASSUME NEW d \in 1..(Depth - 1) PROVE Seen(q, u[d], F[d]) = w[d]
    <3>1. d \in 1..Len(frames) /\ d < Len(frames) /\ Len(frames) \in 1..Len(frames)
      BY <1>2
    <3>2. /\ F[d] = frames[d] /\ u[d] = queue[d]
          /\ w[d] = Seen(qcopy, queue[d], frames[d])
      BY <1>4, <2>3, <3>1, CallsFacts
    <3>3. /\ frames[d].head \in Nat /\ frames[d].tail \in Nat /\ frames[d].iter \in Nat
      BY <1>2, <3>1, Segment
    <3>4. frames[d].head < frames[d].iter /\ frames[d].tail <= Top.head
      BY <1>2, <3>1 DEF Shape, Nested, Apart, Top
    <3> DEFINE I == (IF frames[d].busy THEN frames[d].iter + 1 ELSE frames[d].iter)..frames[d].tail
    <3>5. I \subseteq 1..Top.head
      BY <1>3, <3>3, <3>4
    <3>6. \A j \in I : q[j] = qcopy[j]
      BY <1>4, <3>5
    <3>7. /\ Waiting(q, frames[d]) = {q[j] : j \in I}
          /\ Waiting(qcopy, frames[d]) = {qcopy[j] : j \in I}
      BY DEF Waiting
    <3> HIDE DEF I
    <3>8. Waiting(q, frames[d]) = Waiting(qcopy, frames[d])
      BY <3>6, <3>7
    <3>9. Now(q, frames[d]) = Now(qcopy, frames[d])
      <4>1. frames[d].busy => frames[d].iter <= frames[d].tail
        BY <1>2, <3>1 DEF Shape, Nested
      <4> QED
        BY <1>3, <1>4, <3>3, <3>4, <4>1 DEF Now
    <3> QED
      BY <3>2, <3>8, <3>9 DEF Seen
  <2>6. View(q, u, F) = [d \in 1..(Depth - 1) |-> Seen(q, u[d], F[d])]
    BY <1>4 DEF View
  <2>7. View(q, u, F) = w
    BY <2>4, <2>5, <2>6
  <2> QED
    BY <2>2, <2>7 DEF w
<1>6. /\ Calls # <<>> /\ (Top.busy <=> Delivery!Top.now # 0) /\ Delivery!Top.state = queue[Depth].state
      /\ Delivery!Top.tier = Top.tier /\ Delivery!Top.event = Top.event
      /\ Delivery!Top.rise = Top.rise /\ Delivery!Top.todo = Waiting(qcopy, Top)
  BY <1>1, CallsFacts, TopCall
<1>7. Delivery!Top.now = 0 /\ Delivery!Top.todo = {}
  <2>1. ~Top.busy /\ Top.iter > Top.tail /\ Top.iter \in Nat /\ Top.tail \in Nat
    BY <1>1, TopFacts DEF Return, Frame
  <2>2. Top.iter..Top.tail = {}
    BY <2>1
  <2> QED
    BY <1>6, <2>1, <2>2 DEF Waiting
<1> DEFINE taken == Delivery!Top.state # "not_handled"
           stack == SubSeq(Calls, 1, Len(Calls) - 1)
<1>8. Taken(queue) = taken
  BY <1>2, <1>6 DEF Taken
<1> HIDE DEF taken, stack
<1>9. CASE Delivery!Top.rise # <<>> /\ ~taken
  <2>1. Send(q, u, F, Top.rise, Top.tier, Top.event, Taken(queue))
    BY <1>1, <1>6, <1>8, <1>9 DEF Onward, q, u, F
  <2>2. Delivery!Send(stack, Delivery!Top.rise, Delivery!Top.tier, Delivery!Top.event, taken)
    BY <1>1, <1>5, <1>6, <1>8, <2>1, RunningSame, SendRefines DEF stack
  <2> QED
    BY <1>1, <1>6, <1>7, <1>9, <2>2 DEF Delivery!Return, taken, stack
<1>10. CASE ~(Delivery!Top.rise # <<>> /\ ~taken)
  <2>1. Back
    BY <1>1, <1>6, <1>8, <1>10
  <2>2. Calls' = View(q, u, F)
    BY <2>1 DEF Back, Calls, View, Depth, Seen, Waiting, Now, q, u, F
  <2>3. Calls' = stack /\ handled' = taken
    BY <1>5, <1>8, <2>1, <2>2 DEF stack, Back
  <2> QED
    BY <1>1, <1>6, <1>7, <1>10, <2>3 DEF Delivery!Return, taken, stack
<1> QED
  BY <1>9, <1>10

(* Every signal is delivered as if it were alone: each step of _notify, of *)
(* riseup and of the handlers is a step of EventDelivery or changes        *)
(* nothing of what that sees.                                              *)
THEOREM DeliversAll == Spec => Delivers
<1>1. Init => Delivery!Init
  <2> SUFFICES ASSUME Init PROVE Delivery!Init
    OBVIOUS
  <2>1. Calls = <<>>
    BY DEF Init, Calls, Depth
  <2>2. Delivery!SubsInit
    BY DEF Init, SubsInit, Delivery!SubsInit
  <2> QED
    BY <2>1, <2>2 DEF Init, Delivery!Init
<1>2. IInv /\ IInv' /\ [Next]_vars => [Delivery!Next]_(Delivery!vars)
  <2> SUFFICES ASSUME IInv, IInv', [Next]_vars PROVE [Delivery!Next]_(Delivery!vars)
    OBVIOUS
  <2>1. CASE UNCHANGED vars
    BY <2>1 DEF vars, Delivery!vars, Calls, Depth, Seen, Waiting, Now
  <2>2. CASE Call \/ Skip \/ Finish \/ Expire \/ Passover
    BY <2>2, LoopRefines DEF Delivery!Next
  <2>3. CASE Return
    BY <2>3, ReturnRefines DEF Delivery!Next
  <2>4. CASE \E o \in Objects, t \in Tiers, e \in Events : Signal(<<o>>, t, e) \/ Signal(Up[o], t, e)
    BY <2>4, SignalRefines DEF Delivery!Next
  <2>5. CASE \/ \E k \in Keys : \/ Subscribe(k)
                                \/ \E n \in Numbers : Duplicate(n, k)
                                \/ EraseScripts(k)
             \/ \E h \in alive : Unsubscribe(h)
             \/ \E o \in Objects : Destroy(o)
    BY <2>5, ChangeRefines DEF Delivery!Next
  <2> QED
    BY <2>1, <2>2, <2>3, <2>4, <2>5 DEF Next
<1> QED
  BY <1>1, <1>2, Invariance, PTL DEF Spec, Delivers, Delivery!Spec
============================================================================
