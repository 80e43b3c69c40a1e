---------------------------- MODULE MCFocusTree ----------------------------
EXTENDS FocusTree, TLC
CONSTANTS gate, hall, slot, term, dtvt, pane, g1, g2, none
MCHome == gate :> gate @@ hall :> gate @@ slot :> gate
            @@ term :> slot @@ dtvt :> slot
MCObjects == {gate, hall, slot, term, dtvt}
MCAtStart == {gate, slot, term, dtvt}
MCEndpoints == {hall, term}
MCRelays == {dtvt}
MCDefaults == {hall}
MCVeers == {<<term, dtvt>>}
MCMovable == {slot}
MCPlaces == {gate, hall}
MCGears == {g1, g2}
Twins == Permutations(MCGears)

\* The bound on the two gears: what is explored further is where they have chains at
\* five objects at most, counted together.
FewChains ==
    Cardinality({x \in MCGears \X MCObjects : chains[x[1]].state[x[2]] # "none"}) <= 5

----------------------------------------------------------------------------
\* A slot beside a hall, moved into it, and a pane that is focused when it opens:
\* two gears that only ever take the focus.  Every step is a step of Next.
CountHome    == MCHome @@ pane :> gate
CountObjects == MCObjects \cup {pane}
CountAtStart == MCAtStart \cup {hall}
CountDefaults == {pane}
CountEndpoints == {pane}
CountPlaces  == {hall}
Taking ==
    \/ \E g \in Gears : \/ Join(g) \/ Leave(g) \/ GateFocus(g)
                        \/ \E o \in {hall, term} : Set(g, o, TRUE, FALSE)
    \/ Open(pane) \/ Move(slot, hall) \/ \E v \in Veers : Switch(v)
CountSpec == Init /\ [][Taking]_vars
============================================================================
