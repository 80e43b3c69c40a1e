----------------------------- MODULE EventSubs -----------------------------
(***************************************************************************)
(* Subscriptions to events (events.hpp: bell, auth::_subscribe, the order  *)
(* in which _select visits them).                                          *)
(*                                                                         *)
(* An event is a path: a group of groups, and last the event itself.  One  *)
(* subscribes at an object, for a tier, to an event or to a whole group;   *)
(* the subscription lasts as long as its hook.  Subscriptions are numbered *)
(* as they are made, so a number tells its place in its list.              *)
(***************************************************************************)
EXTENDS Integers, Sequences, FiniteSets

CONSTANTS Objects,   \* the objects (bell)
          Up,        \* Up[o]: o and its ancestors, as base::riseup visits them
          Tiers,     \* the tiers
          Order,     \* tier::order: "fwd", "rev" or "none"
          Shared,    \* the tiers kept in one reactor for all (tier::general)
          Nobody,    \* the owner of that reactor
          Events,    \* the events that are signalled
          Keys,      \* the lists that are subscribed to: where, tier, group
          Scripted,  \* those whose handlers are scripts
          AtStart,   \* the subscriptions that have been made: their lists
          MaxSubs,   \* how many subscriptions are made
          MaxDepth   \* how deep signals nest

ASSUME EventAssumption ==
    /\ Up \in [Objects -> Seq(Objects)]
    /\ \A o \in Objects : Len(Up[o]) > 0
    /\ Order \in [Tiers -> {"fwd", "rev", "none"}]
    /\ \A e \in Events : e \in Seq(Nat) /\ Len(e) > 1
    /\ IsFiniteSet(Keys) /\ Scripted \subseteq Keys
    /\ \A k \in Keys : /\ k = [at |-> k.at, tier |-> k.tier, group |-> k.group]
                       /\ k.at \in Objects \cup {Nobody} /\ k.tier \in Tiers
                       /\ k.group \in Seq(Nat)
    /\ AtStart \in Seq(Keys)
    /\ MaxSubs \in Nat /\ Len(AtStart) <= MaxSubs /\ MaxDepth \in Nat

VARIABLES subs,    \* all subscriptions made: where (at), to what, its hook
          alive    \* the hooks that are held

Groups(t, e) == IF Order[t] = "none" THEN {e} ELSE {SubSeq(e, 1, i) : i \in 2..Len(e)}
Holder(o, t) == IF t \in Shared THEN Nobody ELSE o
Sub     == [key : Keys, hook : Nat]
Numbers == 1..Len(subs)

(* The lists that _select visits for a signal.                             *)
KeysOf(o, t, e) == {k \in Keys : k.at = Holder(o, t) /\ k.tier = t /\ k.group \in Groups(t, e)}

(* A concrete event comes before its group, or after it (tier::order);     *)
(* within a list, the earlier subscription comes first.                    *)
Before(t, m, n) ==
    LET a == Len(subs[m].key.group)
        b == Len(subs[n].key.group)
    IN  \/ a = b /\ m < n
        \/ Order[t] = "fwd" /\ a > b
        \/ Order[t] = "rev" /\ a < b

Hook(n)   == subs[n].hook
Living(n) == Hook(n) \in alive

(* What the code that holds the UI lock may do to the subscriptions.       *)
SubsInit ==
    /\ subs = [n \in 1..Len(AtStart) |-> [key |-> AtStart[n], hook |-> n]]
    /\ alive = 1..Len(AtStart)

SubsOK ==
    /\ subs \in Seq(Sub) /\ Len(subs) <= MaxSubs
    /\ \A n \in Numbers : subs[n].hook \in 1..n
    /\ alive \subseteq Numbers

(* bell::submit: a new hook.                                               *)
NewSub(k) ==
    /\ Len(subs) < MaxSubs
    /\ subs' = Append(subs, [key |-> k, hook |-> Len(subs) + 1])
    /\ alive' = alive \cup {Len(subs) + 1}

Script(n) == subs[subs[n].hook].key \in Scripted

(* bell::dup_handler: the hook of a subscription serves another event      *)
(* (never done with a script).                                             *)
CopySub(n, k) ==
    /\ Len(subs) < MaxSubs /\ n \in Numbers /\ Living(n) /\ ~Script(n)
    /\ k.at \in {subs[n].key.at, Nobody}
    /\ subs' = Append(subs, [subs[n] EXCEPT !.key = k])
    /\ UNCHANGED alive

(* Hooks are let go: one by its owner, or all of an object when it dies.   *)
DropHooks(S) ==
    /\ S # {} /\ S \subseteq alive
    /\ alive' = alive \ S
    /\ UNCHANGED subs

ScriptsAt(k) == {subs[n].hook : n \in {m \in Numbers : subs[m].key = k /\ Script(m) /\ Living(m)}}
HooksAt(o)   == {subs[n].hook : n \in {m \in Numbers : subs[m].key.at = o /\ Living(m)}}
============================================================================
