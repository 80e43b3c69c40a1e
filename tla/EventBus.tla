------------------------------ MODULE EventBus ------------------------------
(***************************************************************************)
(* Event delivery as it is done (auth::_select, _notify, base::riseup).    *)
(*                                                                         *)
(* All signals in progress share two vectors: qcopy, with the handlers     *)
(* that each has selected, one segment per signal, and queue, with their   *)
(* events and call states.  A signal is the call stack's frame of _notify: *)
(* its segment (head, tail) and its place in it (iter, from 1).  Lists are *)
(* rid of expired handlers only when they are next selected.               *)
(*                                                                         *)
(* All this runs under the UI lock, so there is one call stack.  What the  *)
(* handlers do between two calls is any mix of the actions below.          *)
(***************************************************************************)
EXTENDS EventSubs

VARIABLES listed,    \* the subscriptions that still have a place in a list
          qcopy,     \* auth::qcopy
          queue,     \* auth::queue
          frames,    \* the frames of _notify, with the riseup they belong to
          handled    \* auth::handled

vars == <<subs, alive, listed, qcopy, queue, frames, handled>>

CallStates == {"proceed", "fullstop", "not_handled"}
Frame == [tier : Tiers, event : Events, head : Nat, iter : Nat, tail : Nat,
          busy : BOOLEAN, rise : Seq(Objects)]

(* The bus holds what auth holds: hooks of living objects, a queue with    *)
(* one state per running signal, cursors inside it.                        *)
TypeOK ==
    /\ SubsOK
    /\ listed \subseteq Numbers
    /\ qcopy \in Seq(Numbers)
    /\ queue \in Seq([event : Events, state : CallStates])
    /\ frames \in Seq(Frame)
    /\ Len(queue) = Len(frames) /\ Len(frames) <= MaxDepth
    /\ handled \in BOOLEAN

Depth == Len(frames)
Top   == frames[Depth]
Free  == frames # <<>> => Top.busy       \* who holds the UI lock may act

(* A hook is kept while its handler runs, be it let go by its owner: the   *)
(* weak pointers to it in the lists and in qcopy can be locked.            *)
Running == {Hook(qcopy[frames[d].iter]) : d \in {c \in 1..Depth : frames[c].busy}}
Held(n) == Living(n) \/ Hook(n) \in Running

----------------------------------------------------------------------------
(* _refresh_and_copy of the lists of a signal: expired ones are removed,   *)
(* the others copied in order.                                             *)
InLists(o, t, e)  == {n \in listed : subs[n].key \in KeysOf(o, t, e)}
Selected(o, t, e) == {n \in InLists(o, t, e) : Held(n)}

(* Mutant: the handlers copied are removed from the list as well.          *)
Expired_Moved(o, t, e) == InLists(o, t, e)

Expired(o, t, e) == {n \in InLists(o, t, e) : ~Held(n)}

InOrder(s, S, t) ==
    /\ \A n \in S : \E i \in DOMAIN s : s[i] = n
    /\ \A i, j \in DOMAIN s : i < j => Before(t, s[i], s[j])

(* What remains of the stacks when this call begins is q, u and stack.     *)
Push(q, u, stack, t, e, s, rise) ==
    /\ qcopy'  = q \o s
    /\ queue'  = Append(u, [event |-> e, state |-> "not_handled"])
    /\ frames' = Append(stack, [tier |-> t, event |-> e, head |-> Len(q), iter |-> Len(q) + 1,
                                tail |-> Len(q) + Len(s), busy |-> FALSE,
                                rise |-> rise])

(* base::signal and riseup along line: objects where nothing is selected   *)
(* return at once, the first other one keeps the call.                     *)
Send(q, u, stack, line, t, e, before) ==
    \/ /\ \A i \in DOMAIN line : Selected(line[i], t, e) = {}
       /\ listed' = listed \ UNION {Expired(line[i], t, e) : i \in DOMAIN line}
       /\ handled' = FALSE
       /\ qcopy' = q /\ queue' = u /\ frames' = stack
    \/ \E i \in DOMAIN line :
          LET S == Selected(line[i], t, e)
          IN  /\ S # {}
              /\ \A j \in 1..(i - 1) : Selected(line[j], t, e) = {}
              /\ listed' = listed \ UNION {Expired(line[j], t, e) : j \in 1..i}
              /\ handled' = IF i = 1 THEN before ELSE FALSE
              /\ \E s \in [1..Cardinality(S) -> S] :
                    /\ InOrder(s, S, t)
                    /\ Push(q, u, stack, t, e, s, SubSeq(line, i + 1, Len(line)))

----------------------------------------------------------------------------
Init ==
    /\ SubsInit
    /\ listed = Numbers
    /\ qcopy = <<>> /\ queue = <<>> /\ frames = <<>>
    /\ handled = FALSE

stacks == <<qcopy, queue, frames, handled>>

Subscribe(k) ==
    /\ Free
    /\ NewSub(k)
    /\ listed' = listed \cup {Len(subs) + 1}
    /\ UNCHANGED stacks

Duplicate(n, k) ==
    /\ Free
    /\ CopySub(n, k)
    /\ listed' = listed \cup {Len(subs) + 1}
    /\ UNCHANGED stacks

(* A hook is reset; its places in the lists stay until they are selected.  *)
Unsubscribe(h) ==
    /\ Free
    /\ DropHooks({h})
    /\ UNCHANGED <<listed, stacks>>

(* An object dies, with its reactor and its sensors.                       *)
Destroy(o) ==
    /\ Free
    /\ DropHooks(HooksAt(o))
    /\ listed' = {n \in listed : subs[n].key.at # o}
    /\ UNCHANGED stacks

(* bell::erase_script_handlers.                                            *)
EraseScripts(k) ==
    /\ Free
    /\ DropHooks(ScriptsAt(k))
    /\ listed' = {n \in listed : subs[n].key = k => Held(n) /\ ~Script(n)}
    /\ UNCHANGED stacks

(* base::signal, with line the object itself, and riseup.                  *)
Signal(line, t, e) ==
    /\ Free /\ Depth < MaxDepth
    /\ Send(qcopy, queue, frames, line, t, e, handled)
    /\ UNCHANGED <<subs, alive>>

SetState(st) == queue' = [queue EXCEPT ![Depth].state = st]
SetTop(f)    == frames' = [frames EXCEPT ![Depth] = f]

(* The loop of _notify: a handler that is still held is called ...         *)
Call ==
    /\ frames # <<>> /\ ~Top.busy /\ Top.iter <= Top.tail
    /\ Held(qcopy[Top.iter])
    /\ SetState("proceed")
    /\ SetTop([Top EXCEPT !.busy = TRUE])
    /\ UNCHANGED <<subs, alive, listed, qcopy, handled>>

(* Mutant: the place of an expired handler is not left behind.             *)
Skip_Stay ==
    /\ frames # <<>> /\ ~Top.busy /\ Top.iter <= Top.tail
    /\ ~Held(qcopy[Top.iter])
    /\ UNCHANGED vars

(* ... one that is gone meanwhile is passed by.                            *)
Skip ==
    /\ frames # <<>> /\ ~Top.busy /\ Top.iter <= Top.tail
    /\ ~Held(qcopy[Top.iter])
    /\ SetTop([Top EXCEPT !.iter = @ + 1])
    /\ UNCHANGED <<subs, alive, listed, qcopy, queue, handled>>

Finish ==
    /\ frames # <<>> /\ Top.busy
    /\ SetTop([Top EXCEPT !.busy = FALSE,
                          !.iter = IF queue[Depth].state = "fullstop" THEN Top.tail + 1 ELSE @ + 1])
    /\ UNCHANGED <<subs, alive, listed, qcopy, queue, handled>>

(* bell::expire and passover, called by the handler that runs.             *)
Expire ==
    /\ frames # <<>> /\ Top.busy
    /\ SetState("fullstop")
    /\ UNCHANGED <<subs, alive, listed, qcopy, frames, handled>>

Passover ==
    /\ frames # <<>> /\ Top.busy
    /\ SetState("not_handled")
    /\ UNCHANGED <<subs, alive, listed, qcopy, frames, handled>>

(* Mutant: the segment of a signal stays when it ends.                     *)
Popped_None(q, head) == q

(* qcopy.resize(head).                                                     *)
Popped(q, head) == SubSeq(q, 1, head)

(* Mutant: the event and call state of the signal stay on the queue.       *)
Unqueued_None(u) == u

(* queue.pop_back().                                                       *)
Unqueued(u) == SubSeq(u, 1, Len(u) - 1)

(* Mutant: the call state is read after the pop, and so is the outer one.  *)
Taken_Late(u) == Len(u) > 1 /\ u[Len(u) - 1].state # "not_handled"

Taken(u) == u[Len(u)].state # "not_handled"

(* _notify returns; riseup goes on to the parent if nobody took it.        *)
Return ==
    /\ frames # <<>> /\ ~Top.busy /\ Top.iter > Top.tail
    /\ LET taken == Taken(queue)
           q     == Popped(qcopy, Top.head)
           u     == Unqueued(queue)
           stack == SubSeq(frames, 1, Depth - 1)
       IN  IF Top.rise # <<>> /\ ~taken
           THEN Send(q, u, stack, Top.rise, Top.tier, Top.event, taken)
           ELSE /\ qcopy' = q /\ queue' = u /\ frames' = stack
                /\ UNCHANGED listed
                /\ handled' = taken
    /\ UNCHANGED <<subs, alive>>

Next ==
    \/ \E k \in Keys : \/ Subscribe(k)
                       \/ \E n \in Numbers : Duplicate(n, k)
                       \/ EraseScripts(k)
    \/ \E h \in alive : Unsubscribe(h)
    \/ \E o \in Objects : \/ Destroy(o)
                          \/ \E t \in Tiers, e \in Events :
                                Signal(<<o>>, t, e) \/ Signal(Up[o], t, e)
    \/ Call \/ Skip \/ Finish \/ Expire \/ Passover \/ Return

Spec == Init /\ [][Next]_vars

(* Code runs: _notify takes its next step, and every handler returns after *)
(* finitely many steps of its own, however often it is interrupted by the  *)
(* signals it sends.                                                       *)
Fairness ==
    /\ WF_vars(Call) /\ WF_vars(Skip) /\ WF_vars(Return)
    /\ \A d \in 1..MaxDepth : SF_vars(Finish /\ Depth = d)

FairSpec == Spec /\ Fairness

----------------------------------------------------------------------------
(* The segments of the signals in progress lie end to end in qcopy, in the *)
(* order of nesting, and nothing else is there: no signal, however it ends *)
(* and whatever its handlers do, disturbs the segment of one around it or  *)
(* leaves anything behind.                                                 *)
Nested(q, F) ==
    /\ F = <<>> => q = <<>>
    /\ F # <<>> => F[Len(F)].tail = Len(q)
    /\ \A d \in 1..Len(F) :
          /\ F[d].head = IF d = 1 THEN 0 ELSE F[d - 1].tail
          /\ F[d].head < F[d].iter /\ F[d].iter <= F[d].tail + 1
          /\ F[d].busy => F[d].iter <= F[d].tail
          /\ d < Len(F) => F[d].busy

SegmentsNested == Nested(qcopy, frames)

(* A subscription whose hook is held has its place in a list, and so a     *)
(* signal selects it.                                                      *)
LivingListed == \A n \in Numbers : Living(n) => n \in listed

(* Every signal delivers as if it were alone with a list of its own: each  *)
(* handler subscribed when it was sent is called once, in order, unless it *)
(* is gone by then or the signal was stopped, nobody who subscribed later  *)
(* is called (but one that runs with its hook let go may hear the signals  *)
(* that it sends), and the sender gets this signal's result, no other's.   *)
Waiting(q, f) == {q[i] : i \in (IF f.busy THEN f.iter + 1 ELSE f.iter)..f.tail}
Now(q, f)     == IF f.busy THEN q[f.iter] ELSE 0
Seen(q, c, f) == [tier |-> f.tier, event |-> f.event, todo |-> Waiting(q, f),
                  state |-> c.state, now |-> Now(q, f), rise |-> f.rise]
Calls == [d \in 1..Depth |-> Seen(qcopy, queue[d], frames[d])]

Delivery == INSTANCE EventDelivery WITH calls <- Calls
Delivers == Delivery!Spec

(* Every signal ends: its handlers may send signals and change the lists   *)
(* they are in, and still each is passed once.                             *)
SignalsEnd == frames # <<>> ~> frames = <<>>
============================================================================
