----------------------------- MODULE MCEventBus -----------------------------
(***************************************************************************)
(* Two objects, one the parent of the other; an event and its group.       *)
(***************************************************************************)
EXTENDS EventBus, TLC
CONSTANTS child, parent, general, release, preview
MCObjects == {child, parent}
MCUp == child :> <<child, parent>> @@ parent :> <<parent>>
MCOrder == release :> "fwd" @@ preview :> "rev"
MCEvents == {<<1, 1, 1>>}
Item(o, t)  == [at |-> o, tier |-> t, group |-> <<1, 1, 1>>]
Group(o, t) == [at |-> o, tier |-> t, group |-> <<1, 1>>]
MCKeys == {Item(child, release), Group(child, release), Group(parent, release),
           Item(parent, preview), Group(parent, preview)}
MCScripted == {Group(child, release)}
MCAtStart == <<Group(child, release), Item(parent, preview)>>
=============================================================================
