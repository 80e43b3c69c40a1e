----------------------------- MODULE FocusTree -----------------------------
(***************************************************************************)
(* The keyboard focus tree (pro::focus, controls.hpp).                     *)
(*                                                                         *)
(* Every object that may take part in focus keeps, for every gear (the     *)
(* keyboard of a user), a chain: its own focus state and a list of records *)
(* that link it to objects below it, each with a status.  A default chain  *)
(* is kept under the empty gear id: a new gear copies it, and the chains   *)
(* of a dead gear become it.  A keystroke enters at the gate and follows   *)
(* the live links, so a gear's tree has to stay in one piece while objects *)
(* are opened, closed, moved and swapped and several gears focus and       *)
(* unfocus them.                                                           *)
(*                                                                         *)
(* All handlers run under the UI lock: one request is one action, and the  *)
(* signals nested in it are the composition of the operators below.  What  *)
(* a signal visits, descending the links or rising to the gate, is the     *)
(* smallest set that it does not leave (Reach).                            *)
(***************************************************************************)
EXTENDS Integers, FiniteSets

CONSTANTS Objects,     \* every object with a pro::focus that may ever exist
          Gate,        \* the gate, the root of the tree
          Home,        \* Home[o]: the object o is attached to when it opens
          AtStart,     \* the objects that are open when the gate starts
          First,       \* the one of them that paves the default path
          Endpoints,   \* mode::focused and mode::focusable
          Relays,      \* mode::relay (dtvt, gui: the border of a process)
          Defaults,    \* objects that pave the default path when they start
          Veers,       \* <<front, back>>: two applets in one slot, one shown
          Movable,     \* the objects that can be moved and replaced
          Places,      \* the objects they can be moved to
          Gears,       \* the gears
          Default,     \* the empty gear id
          MaxChanges   \* how often objects are opened, closed, moved, swapped

ASSUME FocusAssumption ==
    /\ IsFiniteSet(Objects) /\ Gate \in Objects
    /\ Home \in [Objects -> Objects]
    /\ {Gate, First} \subseteq AtStart /\ AtStart \subseteq Objects
    /\ Endpoints \cup Relays \cup Defaults \cup Movable \cup Places \subseteq Objects
    /\ Veers \subseteq Objects \X Objects
    /\ IsFiniteSet(Gears) /\ Default \notin Gears
    /\ MaxChanges \in Nat

VARIABLES
    scene,    \* the objects that exist and the parent of each
    chains,   \* chains[g]: the states and the link records of gear g
    count,    \* count[o]: the number of gears active at o
    gears,    \* the gears that are connected
    hidden,   \* of each pair in Veers the one that is not shown
    told,     \* told[g]: the last sysfocus exchanged with the client, "on" or
              \* "off"; "stopped" when the gate itself stopped what it reported
    severed,  \* a request cut has left an applet below its object active
    changes   \* objects opened, closed, moved or swapped so far

vars == <<scene, chains, count, gears, hidden, told, severed, changes>>

Ids      == Gears \cup {Default}
Sysfocus == {"on", "off", "stopped"}
Statuses == {"dead", "live", "idle"}
Links    == Objects \X Objects \X Statuses
Scenes   == [alive : SUBSET Objects, parent : [Objects -> Objects]]
Chains   == [state : [Objects -> Statuses \cup {"none"}],   \* "none": no chain
             link  : SUBSET Links]

Edge(r) == <<r[1], r[2]>>

(* chain.next: an object is linked at most once, and only by an object     *)
(* that has a chain.                                                       *)
ListOK(c) == \A r \in c.link : /\ c.state[r[1]] # "none"
                               /\ \A x \in c.link : Edge(x) = Edge(r) => x = r

(* The scene is a tree under the gate, and an object links an object at   *)
(* most once in a chain (focus chains and counts of baseui and pro::focus).*)
TypeOK ==
    /\ scene \in Scenes
    /\ chains \in [Ids -> Chains]
    /\ \A g \in Ids : ListOK(chains[g])
    /\ count \in [Objects -> Int]
    /\ gears \in SUBSET Gears
    /\ hidden \in SUBSET Objects
    /\ told \in [Gears -> Sysfocus]
    /\ severed \in BOOLEAN
    /\ changes \in 0..MaxChanges

----------------------------------------------------------------------------
(* Walking the tree.  w is a scene; f is the work on one gear's chains: a  *)
(* member of Chains with the objects that were counted twice.              *)

Closed(R, X) == \A e \in R : e[1] \in X => e[2] \in X

(* What can be reached from S along R: the smallest set with S in it that  *)
(* R does not leave.                                                       *)
Reach(R, S) ==
    LET T    == {e[2] : e \in R} \ S
        left == {X \in SUBSET T : Closed(R, S \cup X)}
    IN  S \cup {o \in T : \A X \in left : o \in X}

(* The steps of a signal that rises and that the objects of stops do not   *)
(* pass on, and the line it may take: from o up to the gate.               *)
Rising(w, stops) == {<<x, w.parent[x]>> : x \in Objects \ ({Gate} \cup stops)}
Line(w, o)       == Reach(Rising(w, {}), {o})

(* The gate roots what is open at first, and is not the border of another  *)
(* process; nothing is attached below such a border.                       *)
ASSUME SceneAssumption ==
    /\ \A o \in AtStart : Gate \in Line([parent |-> Home], o)
    /\ \A o \in AtStart \ {Gate} : Home[o] \in AtStart
    /\ Gate \notin Relays /\ Places \cap Relays = {}
    /\ \A o \in Objects \ {Gate} : Home[o] \notin Relays

(* The applets of a slot.  They are alone in it, stay in it and have       *)
(* nothing attached to them; the one that is hidden at first paves no path. *)
Slotted == UNION {{v[1], v[2]} : v \in Veers}

ASSUME SlotAssumption ==
    /\ Slotted \cap (Movable \cup Places \cup {Gate}) = {}
    /\ \A o \in Objects \ {Gate} : Home[o] \notin Slotted
    /\ \A v \in Veers : /\ Home[v[1]] = Home[v[2]]
                        /\ Home[v[1]] \notin Places \cup {Gate}
                        /\ \A o \in Objects \ {v[1], v[2]} : Home[o] # Home[v[1]]
                        /\ v[2] \notin Defaults \cup {First}
    /\ \A v, u \in Veers : v[1] # u[2]

Below(w, S) == w.alive \cap Reach({<<e[2], e[1]>> : e \in Rising(w, {})}, S)

(* The ancestors of o that a signal rising from it visits.                 *)
Visited(w, o, stops) ==
    IF o = Gate THEN {} ELSE Reach(Rising(w, stops), {w.parent[o]})

(* The records of the line: from an ancestor to the next object below it.  *)
Toward(w, o) == {<<w.parent[x], x>> : x \in Line(w, o) \ {Gate}}

LiveObjects(f) == {o \in Objects : f.state[o] = "live"}
Records(f, o) == {r \in f.link : r[1] = o}

----------------------------------------------------------------------------
(* notify_focus_state of every object of S.                                *)
Notify(f, S, st) ==
    [f EXCEPT !.state = [o \in Objects |-> IF o \in S THEN st ELSE @[o]]]

(* The objects of S walk their records (chain_t::foreach): those whose     *)
(* object is gone are dropped, New gives the status of the others.         *)
Walk(w, f, S, New) ==
    [f EXCEPT !.link = {r \in @ : r[1] \notin S}
                  \cup {<<r[1], r[2], New[r]>> : r \in {x \in @ : x[1] \in S /\ x[2] \in w.alive}}]

(* get_chain: an object of S without a chain gets a dead one.              *)
Chained(f, S) ==
    [f EXCEPT !.state =
        [o \in Objects |-> IF o \in S /\ @[o] = "none" THEN "dead" ELSE @[o]]]

(* Mutant: only the objects signalled go idle, not their branches.         *)
Release_Shallow(w, f, S) == Notify(f, S, "idle")

(* release set::off sent to the objects of S: their live branches go idle. *)
Release(w, f, S) ==
    LET R   == {Edge(r) : r \in {x \in f.link : x[3] = "live" /\ f.state[x[1]] = "live"
                                                /\ x[2] \in w.alive}}
        hit == Reach(R, S)
        New == [r \in Links |-> IF r[3] = "live" THEN "idle" ELSE r[3]]
    IN  Notify(Walk(w, f, hit \cap LiveObjects(f), New), hit, "idle")

(* request dup: the default chains d of the branch are copied.  A chain    *)
(* that the gear has already is kept (emplace) and, when live, set anew,   *)
(* and so counted again.                                                   *)
Dup(w, f, d, o) ==
    LET fresh == {x \in Objects : f.state[x] = "none"}
        link  == {r \in f.link \cup {x \in d.link : x[1] \in fresh} : r[2] \in w.alive}
        hit   == {x \in Reach({Edge(r) : r \in {x \in link : d.state[x[1]] # "none"}}, {o}) :
                        d.state[x] # "none"}
        state == [x \in Objects |-> IF x \in hit \cap fresh THEN d.state[x] ELSE f.state[x]]
    IN  [f EXCEPT !.state = state,
                  !.link  = {r \in @ : r[1] \notin hit} \cup {r \in link : r[1] \in hit},
                  !.twice = @ \cup {x \in hit \ fresh : state[x] = "live"}]

(* Mutant: the default chains are copied although the gear has its own.    *)
Activate_Again(w, g, f, d, o, first) ==
    LET F == IF d.state[o] # "none" /\ g # Default /\ first THEN Dup(w, f, d, o) ELSE f
        R == {Edge(r) : r \in {x \in F.link : x[1] \notin Relays /\ x[2] \in w.alive /\ x[3] # "dead"}}
        hit == Reach(R, {o})
        New == [r \in Links |-> IF Edge(r) \in R THEN "live" ELSE r[3]]
    IN  Notify(Walk(w, F, hit \ Relays, New), hit, "live")

(* release set::on sent to o.  Where the request begins (first) a gear     *)
(* without a chain copies the default ones.                                *)
Activate(w, g, f, d, o, first) ==
    LET F == IF /\ f.state[o] = "none" /\ d.state[o] # "none"
                /\ g # Default /\ first
             THEN Dup(w, f, d, o) ELSE f
        R == {Edge(r) : r \in {x \in F.link :
                /\ x[1] \notin Relays /\ x[2] \in w.alive
                /\ \/ x[3] # "dead"
                   \/ x[1] \notin Endpoints /\ F.state[x[1]] = "dead"}}
        hit == Reach(R, {o})
        New == [r \in Links |-> IF Edge(r) \in R THEN "live" ELSE r[3]]
    IN  Notify(Walk(w, F, hit \ Relays, New), hit, "live")

(* Mutant: also a solo request stops at the first active ancestor.         *)
Raised_Stop(w, f, o, solo) == Visited(w, o, LiveObjects(f))

(* preview set::on rising from o.  With solo::on it visits all the     *)
(* ancestors: the links of the line go live, the others die with their     *)
(* branches released.  In a group it stops at the first one that is active *)
(* already, and seals the idle links.                                      *)
Raised(w, f, o, solo) == Visited(w, o, IF solo THEN {} ELSE LiveObjects(f))

(* Mutant: the record of an object linked already is pushed again.         *)
Raise_Push(w, g, f, o, solo) ==
    LET up == Raised(w, f, o, solo)
    IN  Notify([f EXCEPT !.link = @ \cup {<<e[1], e[2], "live">> :
                                            e \in {x \in Toward(w, o) : x[1] \in up}}], up, "live")

(* Mutant: the branches beside the line are released, their links stay.    *)
Raise_Keep(w, g, f, o, solo) ==
    LET up   == Raised(w, f, o, solo)
        path == {e \in Toward(w, o) : e[1] \in up}
        L    == [f EXCEPT !.link = {r \in @ : Edge(r) \notin path} \cup {<<e[1], e[2], "live">> : e \in path}]
        others == {r[2] : r \in {x \in f.link : x[1] \in up /\ Edge(x) \notin path /\ x[2] \in w.alive}}
    IN  Notify(IF solo THEN [Release(w, L, others) EXCEPT !.link = L.link] ELSE L, up, "live")

Raise(w, g, f, o, solo) ==
    LET up     == Raised(w, f, o, solo)
        path   == {e \in Toward(w, o) : e[1] \in up}
        known  == {Edge(r) : r \in f.link} \cap path
        walked == IF solo THEN up ELSE IF g = Default THEN {} ELSE {e[1] : e \in known}
        New == [r \in Links |-> IF solo \/ r[3] = "idle" THEN "dead" ELSE r[3]]
        others == {r[2] : r \in {x \in f.link : x[1] \in up /\ Edge(x) \notin path
                                                 /\ x[2] \in w.alive}}
        L == [Walk(w, f, walked, New) EXCEPT
                !.link = {r \in @ : Edge(r) \notin path} \cup {<<e[1], e[2], "live">> : e \in path}]
    IN  Notify(IF solo THEN Release(w, L, others) ELSE L, up, "live")

(* pro::focus::set for o.  An endpoint that is focused solo *)
(* drops what it leads to; a hub, or a member of a group, turns its        *)
(* default branch on.                                                      *)
Focus(w, g, f, d, o, solo, just) ==
    LET alone == o \in Endpoints /\ ~just /\ solo
        down  == {r \in Records(f, o) : r[3] = "live" /\ r[2] \in w.alive}
        Drop == [r \in Links |-> IF r[3] = "live" THEN "dead" ELSE r[3]]
        F == IF g # Default /\ ~alone THEN Activate(w, g, f, d, o, TRUE)
             ELSE Notify(IF alone THEN Release(w, Walk(w, f, {o}, Drop), {r[2] : r \in down})
                                  ELSE f, {o}, "live")
    IN  Raise(w, g, F, o, solo)

(* preview set::off rising from o: it stops at an ancestor that is an  *)
(* endpoint or has several records (those of gone objects included).       *)
LastStep(f)      == {p \in Objects : p \in Endpoints \/ Cardinality(Records(f, p)) > 1}
Lowered(w, f, o) == Visited(w, o, LastStep(f))

Lower(w, f, o) ==
    LET up   == Lowered(w, f, o)
        last == up \cap LastStep(f)
        New == [r \in Links |-> IF Edge(r) \notin Toward(w, o) THEN r[3]
                  ELSE IF r[1] \in last THEN "dead" ELSE "idle"]
    IN  Notify(Chained(Walk(w, f, up, New), last), up \ last, "idle")

(* pro::focus::off.                                                        *)
Unfocus(w, f, o) ==
    Lower(w, IF f.state[o] = "live" THEN Release(w, f, {o}) ELSE Chained(f, {o}), o)

(* Mutant: only a live record is cut.                                      *)
Cut_Live(w, g, f, p, o) ==
    IF g # Default /\ <<p, o, "live">> \in f.link
    THEN Release(w, [f EXCEPT !.link = {r \in @ : Edge(r) # <<p, o>>}], {o}) ELSE f

(* request cut, at the parent p of o: its record of o goes, and with a     *)
(* live one the branch is released.                                        *)
Cut(w, g, f, p, o) ==
    LET C == [f EXCEPT !.link = {r \in @ : Edge(r) # <<p, o>>}]
    IN  IF g # Default /\ <<p, o, "live">> \in f.link THEN Release(w, C, {o}) ELSE C

(* Mutant: the next object is focused whether or not the former was.       *)
Hop_Always(w, g, f, d, p, prev, next) ==
    IF g # Default THEN Activate(w, g, Release(w, f, {prev}), d, next, TRUE) ELSE f

(* request hop, at the parent p of prev and next: next takes the record of *)
(* prev and, for a gear, the focus with it.                                *)
Hop(w, g, f, d, p, prev, next) ==
    LET W == Walk(w, f, {p}, [r \in Links |-> r[3]])
        H == [W EXCEPT !.link = {r \in @ : Edge(r) \notin {<<p, prev>>, <<p, next>>}}
                           \cup {<<p, next, r[3]>> : r \in {x \in @ : Edge(x) = <<p, prev>>}}]
    IN  IF g # Default /\ <<p, prev, "live">> \in f.link
        THEN Activate(w, g, Release(w, H, {prev}), d, next, TRUE) ELSE H

(* input::events::die: the chains of a gear become the default ones, and   *)
(* stay live if they were.                                                 *)
Inherit(d, f) ==
    LET own == {o \in Objects : f.state[o] # "none"}
    IN  [state |-> [o \in Objects |-> IF o \in own THEN f.state[o] ELSE d.state[o]],
         link  |-> {r \in d.link : r[1] \notin own} \cup f.link]

----------------------------------------------------------------------------
NoChains == [state |-> [o \in Objects |-> "none"], link |-> {}]

Work(c) == [state |-> c.state, link |-> c.link, twice |-> {}]
Done(f) == [state |-> f.state, link |-> f.link]

(* The work F[g] done for the gears g of G: the chains it leaves in c, and *)
(* the counters: every change from or to live is counted.                  *)
Merged(c, G, F)  == [g \in Ids |-> IF g \in G THEN Done(F[g]) ELSE c[g]]

WhoIsLive(c, o)  == {g \in Gears : c[g].state[o] = "live"}
Counted(n, c, G, F) ==
    LET m == Merged(c, G, F)
    IN  [o \in Objects |-> n[o] + Cardinality(WhoIsLive(m, o) \ WhoIsLive(c, o))
                                - Cardinality(WhoIsLive(c, o) \ WhoIsLive(m, o))
                                + Cardinality({g \in G \cap Gears : o \in F[g].twice})]
Apply(G, F) == /\ chains' = Merged(chains, G, F)
               /\ count'  = Counted(count, chains, G, F)
ApplyOne(g, f) == Apply({g}, [x \in {g} |-> f])

Tell(G, on) == told' = [g \in Gears |-> IF g \in G THEN on ELSE told[g]]

(* Mutant: the gate listens to set::on only.                               *)
Fell_Deaf(w, f, o) == FALSE

(* The gate reports to the client every set::on and set::off that rises to *)
(* it: it listens to the group (set::any), which a preview reaches before  *)
(* the set::off of pro::focus can stop the event (expire).                 *)
Rose(w, f, o, solo) == o = Gate \/ Gate \in Raised(w, f, o, solo)
Fell(w, f, o)       == Gate \in Lowered(w, f, o)

(* What the report of a set::off leaves: the gate goes idle or, where it   *)
(* is the last step of the event, stays as it was.                         *)
Fallen(g, f) == IF Gate \in LastStep(f) /\ told[g] # "off" THEN "stopped" ELSE "off"

(* What a request may name: an object that no veer hides.                  *)
Shown == scene.alive \ Below(scene, hidden)

(* Default focus, set by an object when it starts.                         *)
Paved(w, d, o) == Done(Focus(w, Default, Work(d), d, o, TRUE, FALSE))

Init ==
    /\ scene = [alive |-> AtStart, parent |-> Home]
    /\ chains = [g \in Ids |-> IF g = Default THEN Paved(scene, NoChains, First) ELSE NoChains]
    /\ count = [o \in Objects |-> 0]
    /\ gears = {}
    /\ hidden = {v[2] : v \in Veers}
    /\ told = [g \in Gears |-> "off"]
    /\ severed = FALSE
    /\ changes = 0

Join(g) ==
    /\ g \notin gears
    /\ gears' = gears \cup {g}
    /\ UNCHANGED <<scene, chains, count, hidden, told, severed, changes>>

Leave(g) ==
    /\ g \in gears
    /\ gears' = gears \ {g}
    /\ chains' = [chains EXCEPT ![Default] = Inherit(chains[Default], chains[g]),
                                ![g] = NoChains]
    /\ count' = [o \in Objects |-> IF chains[g].state[o] = "live" THEN count[o] - 1 ELSE count[o]]
    /\ Tell({g}, "off")
    /\ UNCHANGED <<scene, hidden, severed, changes>>

(* The client's sysfocus at the gate (hids::fire_focus).                   *)
GateFocus(g) ==
    /\ g \in gears
    /\ ApplyOne(g, Activate(scene, g, Work(chains[g]), chains[Default], Gate, TRUE))
    /\ Tell({g}, "on")
    /\ UNCHANGED <<scene, gears, hidden, severed, changes>>

GateBlur(g) ==
    /\ g \in gears
    /\ ApplyOne(g, Release(scene, Work(chains[g]), {Gate}))
    /\ Tell({g}, "off")
    /\ UNCHANGED <<scene, gears, hidden, severed, changes>>

Set(g, o, solo, just) ==
    /\ g \in gears /\ o \in Shown
    /\ ApplyOne(g, Focus(scene, g, Work(chains[g]), chains[Default], o, solo, just))
    /\ Tell(IF Rose(scene, chains[g], o, solo) THEN {g} ELSE {}, "on")
    /\ UNCHANGED <<scene, gears, hidden, severed, changes>>

(* The callers test the focus first, or take the gears from enlist.        *)
Off(g, o) ==
    /\ g \in gears /\ o \in Shown \ {Gate}
    /\ chains[g].state[o] = "live"
    /\ ApplyOne(g, Unfocus(scene, Work(chains[g]), o))
    /\ Tell(IF Fell(scene, chains[g], o) THEN {g} ELSE {}, Fallen(g, chains[g]))
    /\ UNCHANGED <<scene, gears, hidden, severed, changes>>

(* request add and rem: the process behind a relay gets or loses focus.    *)
Add(g, o, solo) ==
    /\ g \in gears /\ o \in Shown \cap Relays
    /\ ApplyOne(g, Raise(scene, g, Notify(Work(chains[g]), {o}, "live"), o, solo))
    /\ Tell(IF Rose(scene, chains[g], o, solo) THEN {g} ELSE {}, "on")
    /\ UNCHANGED <<scene, gears, hidden, severed, changes>>

Rem(g, o) ==
    /\ g \in gears /\ o \in Shown \cap Relays
    /\ LET live == chains[g].state[o] = "live"
           N    == Notify(Work(chains[g]), {o}, "idle")
       IN  /\ ApplyOne(g, IF live THEN Lower(scene, N, o) ELSE N)
           /\ Tell(IF live /\ Fell(scene, chains[g], o) THEN {g} ELSE {}, Fallen(g, chains[g]))
    /\ UNCHANGED <<scene, gears, hidden, severed, changes>>

Change == changes < MaxChanges /\ changes' = changes + 1

(* An object is attached and started; no record names a former one.        *)
Open(o) ==
    LET w == [scene EXCEPT !.alive = @ \cup {o}, !.parent[o] = Home[o]]
    IN  /\ o \notin scene.alive /\ Home[o] \in scene.alive
        /\ \A g \in Ids : o \notin {r[2] : r \in chains[g].link}
        /\ scene' = w
        /\ chains' = IF o \in Defaults
                     THEN [chains EXCEPT ![Default] = Paved(w, @, o)] ELSE chains
        /\ Change
        /\ UNCHANGED <<count, gears, hidden, told, severed>>

(* Objects are destroyed with their own chains; the records of them in     *)
(* other chains stay until a walk finds them.                              *)
Buried(c, S) ==
    [g \in Ids |-> [state |-> [o \in Objects |-> IF o \in S THEN "none" ELSE c[g].state[o]],
                    link  |-> {r \in c[g].link : r[1] \notin S}]]
Zeroed(n, S) == [o \in Objects |-> IF o \in S THEN 0 ELSE n[o]]

(* A slot that is destroyed will show its first applet when it is rebuilt. *)
Restored(S) == (hidden \ S) \cup {v[2] : v \in {x \in Veers : S \cap {x[1], x[2]} # {}}}

(* A window quits: it detaches itself, with what it holds.                 *)
Close(o) ==
    LET S == Below(scene, {o})
    IN  /\ o \in scene.alive \ {Gate}
        /\ Change
        /\ \A v \in Veers : o \notin {v[1], v[2]}
        /\ scene' = [scene EXCEPT !.alive = @ \ S]
        /\ chains' = Buried(chains, S)
        /\ count' = Zeroed(count, S)
        /\ hidden' = Restored(S)
        /\ UNCHANGED <<gears, told, severed>>

(* An object goes under another parent with the foci it has: it is cut,    *)
(* detached, attached and focused for each of them, as in a group.         *)
CutWork(o) ==
    [g \in Ids |-> Cut(scene, g, Work(chains[g]), scene.parent[o], o)]
Enlisted(o) == {g \in Gears : chains[g].state[o] = "live"}

(* The cut of o misses an active applet below it: no live link led to it.  *)
(* (A swap can leave such an applet, see the findings.)                    *)
Misses(o) == \E g \in Gears, x \in Slotted \cap Below(scene, {o}) :
                 CutWork(o)[g].state[x] = "live"

Move(o, q) ==
    LET w == [scene EXCEPT !.parent[o] = q]
        C == CutWork(o)
        F == [g \in Ids |-> IF g \in Enlisted(o)
                            THEN Focus(w, g, C[g], C[Default], o, FALSE, FALSE) ELSE C[g]]
    IN  /\ o \in (scene.alive \cap Movable) \ {Gate}
        /\ Change
        /\ q \in (scene.alive \cap Places) \ Below(scene, {o}) /\ q # scene.parent[o]
        /\ scene' = w
        /\ Apply(Ids, F)
        /\ Tell({g \in Enlisted(o) : Rose(w, C[g], o, FALSE)}, "on")
        /\ severed' = (severed \/ Misses(o))
        /\ UNCHANGED <<gears, hidden>>

(* The content of a pane is closed and its foci pass to what is left, q.   *)
Replace(o, q) ==
    LET C == CutWork(o)
        F == [g \in Ids |-> IF g \in Enlisted(o)
                            THEN Focus(scene, g, C[g], C[Default], q, FALSE, FALSE)
                            ELSE C[g]]
        S == Below(scene, {o})
    IN  /\ o \in (Shown \cap Movable) \ {Gate} /\ q \in Shown \ {o, Gate}
        /\ Change
        /\ scene.parent[o] = scene.parent[q]
        /\ scene' = [scene EXCEPT !.alive = @ \ S]
        /\ chains' = Buried(Merged(chains, Ids, F), S)
        /\ count' = Zeroed(Counted(count, chains, Ids, F), S)
        /\ Tell({g \in Enlisted(o) : Rose(scene, C[g], q, FALSE)}, "on")
        /\ severed' = (severed \/ Misses(o))
        /\ hidden' = Restored(S)
        /\ UNCHANGED gears

(* The two applets of a slot change places (start and exit of a dtvt).     *)
Switch(v) ==
    \E prev, next \in {v[1], v[2]} :
        LET p == scene.parent[prev]
        IN  /\ Change
            /\ prev \in scene.alive \ hidden /\ next \in scene.alive \cap hidden
            /\ Apply(Ids, [g \in Ids |-> Hop(scene, g, Work(chains[g]), chains[Default], p, prev, next)])
            /\ hidden' = (hidden \ {next}) \cup {prev}
            /\ UNCHANGED <<scene, gears, told, severed>>

Next ==
    \/ \E g \in Gears : \/ Join(g) \/ Leave(g) \/ GateFocus(g) \/ GateBlur(g)
                        \/ \E o \in Objects :
                              \/ Set(g, o, TRUE, FALSE) \/ Set(g, o, FALSE, FALSE)
                              \/ Set(g, o, TRUE, TRUE)
                              \/ Off(g, o) \/ Rem(g, o)
                              \/ \E solo \in BOOLEAN : Add(g, o, solo)
    \/ \E o \in Objects : \/ Open(o) \/ Close(o)
                          \/ \E q \in Objects : Move(o, q) \/ Replace(o, q)
    \/ \E v \in Veers : Switch(v)

Spec == Init /\ [][Next]_vars

----------------------------------------------------------------------------
IsLive(g, o) == chains[g].state[o] = "live"

(* The counter an object publishes (it drives the highlighting of titles   *)
(* and panes) is the number of gears whose focus it has: controls.hpp says *)
(* so of it.                                                               *)
CountIsActive ==
    \A o \in Objects : count[o] = Cardinality(WhoIsLive(chains, o))

(* The same as long as no cut has left an applet active that no live link  *)
(* leads to: a gear is counted neither twice, when a default chain is      *)
(* copied over its own, nor still after it is gone.                        *)
CountUntilSevered == severed \/ CountIsActive

(* A link leads from a parent to its child: an object that is moved, or    *)
(* swapped out of its slot, leaves no link behind by which keystrokes      *)
(* would go on reaching it from its former place.                          *)
LinksFollowTree ==
    \A g \in Ids : \A r \in chains[g].link :
        r[2] \in scene.alive => r[2] # Gate /\ scene.parent[r[2]] = r[1]

(* An object that believes it is focused is one that keystrokes arrive at: *)
(* its parent is active and links to it.                                   *)
ArriveAt(S) ==
    \A g \in Gears, o \in (scene.alive \cap S) \ {Gate} :
        IsLive(g, o) => /\ IsLive(g, scene.parent[o])
                        /\ <<scene.parent[o], o, "live">> \in chains[g].link

(* All but the two applets of a slot are, as long as no cut has left one   *)
(* of those active (see the findings).                                     *)
KeystrokesArriveElsewhere == severed \/ ArriveAt(Objects \ Slotted)

(* A keystroke that follows the live links never ends at an object that is *)
(* not focused.                                                            *)
LinkedIsLive ==
    \A g \in Gears : \A r \in chains[g].link :
        r[3] = "live" /\ IsLive(g, r[1]) /\ r[2] \in scene.alive => IsLive(g, r[2])

(* What the client was last told of the focus of the gate is what it is,   *)
(* both ways: no request gives or takes it unseen by the client.  The gate *)
(* stays active after an "off" in one case only, where it stops itself the *)
(* set::off that it has reported.                                          *)
ToldIsLive == \A g \in gears : IsLive(g, Gate) <=> told[g] # "off"

(* Focusing an endpoint alone would, now, leave the gear with that         *)
(* endpoint and its ancestors and nothing else, whatever groups it had, as *)
(* long as no cut has left an applet active.                               *)
SoloIsSingle == severed \/
    \A g \in gears, o \in Endpoints \cap Shown :
        LiveObjects(Focus(scene, g, Work(chains[g]), chains[Default], o, TRUE, FALSE))
            \ (Slotted \ {o}) = Line(scene, o)

(* A gear that is gone left no chain anywhere: no request made for it      *)
(* later, and no change of the tree, brings one back.                      *)
GoneLeaveNothing == \A g \in Gears \ gears : chains[g] = NoChains
============================================================================
