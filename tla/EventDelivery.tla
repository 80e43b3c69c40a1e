--------------------------- MODULE EventDelivery ---------------------------
(***************************************************************************)
(* What a signal promises its subscribers and its sender, when handlers    *)
(* may subscribe, unsubscribe and signal while they are called.            *)
(*                                                                         *)
(* Every signal has a set of its own of those still to be called: who was  *)
(* subscribed when it was sent.  Each is called once, in order, unless its *)
(* hook is gone by then or a handler has stopped this signal.  The sender  *)
(* learns whether the last one called let it pass; a riseup goes on to the *)
(* parent while nobody takes it.  A handler that lets its own hook go is   *)
(* not gone before it returns: the signals that it sends may reach it.     *)
(***************************************************************************)
EXTENDS EventSubs

VARIABLES calls,     \* the signals being delivered, the innermost last
          handled    \* the outcome of the last one that ended

vars == <<subs, alive, calls, handled>>

Running == {Hook(calls[d].now) : d \in {c \in 1..Len(calls) : calls[c].now # 0}}

Subscribed(o, t, e) == {n \in Numbers : subs[n].key \in KeysOf(o, t, e)}
Hearers(o, t, e)    == {n \in Subscribed(o, t, e) : Living(n)}
Lingering(o, t, e)  == {n \in Subscribed(o, t, e) : ~Living(n) /\ Hook(n) \in Running}

Top  == calls[Len(calls)]
Free == calls # <<>> => Top.now # 0
Put(todo, state, now) ==
    calls' = [calls EXCEPT ![Len(calls)] =
                 [tier |-> Top.tier, event |-> Top.event, todo |-> todo,
                  state |-> state, now |-> now, rise |-> Top.rise]]

Rest(line, i) == SubSeq(line, i + 1, Len(line))

(* The first object of the line that has hearers takes the signal.         *)
Send(stack, line, t, e, before) ==
    \/ /\ \A i \in 1..Len(line) : Hearers(line[i], t, e) = {}
       /\ calls' = stack
       /\ handled' = FALSE
    \/ \E i \in 1..Len(line) : \E L \in SUBSET Lingering(line[i], t, e) :
          /\ Hearers(line[i], t, e) \cup L # {}
          /\ \A j \in 1..(i - 1) : Hearers(line[j], t, e) = {}
          /\ calls' = Append(stack, [tier |-> t, event |-> e,
                                     todo |-> Hearers(line[i], t, e) \cup L,
                                     state |-> "not_handled", now |-> 0,
                                     rise |-> Rest(line, i)])
          /\ handled' = IF i = 1 THEN before ELSE FALSE

Init == SubsInit /\ calls = <<>> /\ handled = FALSE

Change ==
    /\ Free
    /\ \/ \E k \in Keys : NewSub(k)
       \/ \E n \in Numbers, k \in Keys : CopySub(n, k)
       \/ \E S \in SUBSET alive : DropHooks(S)
    /\ UNCHANGED <<calls, handled>>

Signal ==
    /\ Free /\ Len(calls) < MaxDepth
    /\ \E o \in Objects, t \in Tiers, e \in Events :
          \/ Send(calls, <<o>>, t, e, handled)
          \/ Send(calls, Up[o], t, e, handled)
    /\ UNCHANGED <<subs, alive>>

Foremost(n) == \A m \in Top.todo \ {n} : Before(Top.tier, n, m)

Call ==
    /\ calls # <<>> /\ Top.now = 0
    /\ \E n \in Top.todo :
          /\ Foremost(n)
          /\ \/ (Living(n) \/ Hook(n) \in Running) /\ Put(Top.todo \ {n}, "proceed", n)
             \/ ~Living(n) /\ Hook(n) \notin Running /\ Put(Top.todo \ {n}, Top.state, 0)
    /\ UNCHANGED <<subs, alive, handled>>

Finish ==
    /\ calls # <<>> /\ Top.now # 0
    /\ Put(IF Top.state = "fullstop" THEN {} ELSE Top.todo, Top.state, 0)
    /\ UNCHANGED <<subs, alive, handled>>

(* A handler stops the signal that it is called for, or lets it pass.      *)
Answer ==
    /\ calls # <<>> /\ Top.now # 0
    /\ \E st \in {"fullstop", "not_handled"} : Put(Top.todo, st, Top.now)
    /\ UNCHANGED <<subs, alive, handled>>

Return ==
    /\ calls # <<>> /\ Top.now = 0 /\ Top.todo = {}
    /\ LET taken == Top.state # "not_handled"
           stack == SubSeq(calls, 1, Len(calls) - 1)
       IN  IF Top.rise # <<>> /\ ~taken
           THEN Send(stack, Top.rise, Top.tier, Top.event, taken)
           ELSE calls' = stack /\ handled' = taken
    /\ UNCHANGED <<subs, alive>>

Next == Change \/ Signal \/ Call \/ Finish \/ Answer \/ Return

Spec == Init /\ [][Next]_vars
============================================================================
