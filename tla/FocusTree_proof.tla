--------------------------- MODULE FocusTree_proof ---------------------------
(***************************************************************************)
(* The focus tree, for every set of objects, of gears and of places to     *)
(* move to, and any number of changes.                                     *)
(*                                                                         *)
(* A gear that is gone stays gone: the requests for a gear work on its own *)
(* chains (Merged); the changes of the tree work on those of all gears,    *)
(* and make nothing of no chains.                                          *)
(*                                                                         *)
(* The chains stay in the tree: what a signal reaches lies below where it  *)
(* was sent, and what it makes of the chains fits the scene it is sent in  *)
(* (FocusWork_proof).  A step changes the scene and the chains together,   *)
(* so the invariant says of both that the objects are a tree under the     *)
(* gate (TreeOK) and that every gear's chains fit it (TypeOK and           *)
(* LinksFollowTree).                                                       *)
(*                                                                         *)
(* A gear's tree is in one piece (Whole): a live link comes from an active *)
(* object and leads to one, an active object that is linked is linked by a *)
(* live link, and all above an active object is linked.  So activity       *)
(* climbs the line to the gate (LineLive), and keystrokes find their way   *)
(* down.  Default chains keep only half of it, and a gear that copies them *)
(* has no chain below the place: no object is set anew, and the counters   *)
(* count every change once.  All this until a cut leaves an applet of a    *)
(* slot active (severed): that applet's gear is in two pieces from then on. *)
(***************************************************************************)
EXTENDS FocusWork_proof

GoneInv == /\ chains = [g \in Ids |-> chains[g]]
           /\ GoneLeaveNothing

\* The work on one gear leaves the chains of the others.
LEMMA OthersKept ==
  ASSUME NEW c, NEW G, NEW F, NEW h \in Ids
  PROVE  /\ h \notin G => Merged(c, G, F)[h] = c[h]
         /\ h \in G => Merged(c, G, F)[h] = Done(F[h])
BY DEF Merged

LEMMA MergedAgain ==
  ASSUME NEW c, NEW G, NEW F
  PROVE  Merged(c, G, F) = [h \in Ids |-> Merged(c, G, F)[h]]
BY DEF Merged

\* No chains: nothing to cut, nothing to switch, nothing to bury.
LEMMA NothingCut ==
  ASSUME NEW w, NEW g, NEW p, NEW o
  PROVE  Done(Cut(w, g, Work(NoChains), p, o)) = NoChains
<1> DEFINE f == Work(NoChains)
<1>1. f = [state |-> NoChains.state, link |-> {}, twice |-> {}]
  BY DEF Work, NoChains
<1>2. <<p, o, "live">> \notin f.link
  BY <1>1
<1>3. Cut(w, g, f, p, o) = [f EXCEPT !.link = {r \in @ : Edge(r) # <<p, o>>}]
  BY <1>2 DEF Cut
<1>4. Cut(w, g, f, p, o) = f
  BY <1>1, <1>3
<1> QED
  BY <1>1, <1>4 DEF Done, NoChains

LEMMA NothingHops ==
  ASSUME NEW w, NEW g, NEW d, NEW p, NEW prev, NEW next
  PROVE  Done(Hop(w, g, Work(NoChains), d, p, prev, next)) = NoChains
<1> DEFINE f == Work(NoChains)
           W == Walk(w, f, {p}, [r \in Links |-> r[3]])
           H == [W EXCEPT !.link = {r \in @ : Edge(r) \notin {<<p, prev>>, <<p, next>>}}
                           \cup {<<p, next, r[3]>> : r \in {x \in @ : Edge(x) = <<p, prev>>}}]
<1>1. f = [state |-> NoChains.state, link |-> {}, twice |-> {}]
  BY DEF Work, NoChains
<1>2. W = f
  BY <1>1 DEF Walk
<1>3. H = f
  <2> HIDE DEF f, W
  <2>1. f.link = {} /\ f = [f EXCEPT !.link = {}]
    BY <1>1
  <2>2. {r \in W.link : Edge(r) \notin {<<p, prev>>, <<p, next>>}}
          \cup {<<p, next, r[3]>> : r \in {x \in W.link : Edge(x) = <<p, prev>>}} = {}
    BY <1>2, <2>1
  <2>3. H = [W EXCEPT !.link = {}]
    BY <2>2
  <2> QED
    BY <1>2, <2>1, <2>3
<1>4. <<p, prev, "live">> \notin f.link
  BY <1>1
<1>5. Hop(w, g, f, d, p, prev, next) = H
  BY <1>4 DEF Hop
<1>6. Done(Work(NoChains)) = NoChains
  BY DEF Done, Work, NoChains
<1> HIDE DEF H
<1> QED
  BY <1>3, <1>5, <1>6

LEMMA NothingBuried ==
  ASSUME NEW c, NEW S, NEW h \in Ids, c[h] = NoChains
  PROVE  Buried(c, S)[h] = NoChains
<1>1. Buried(c, S)[h] =
        [state |-> [o \in Objects |-> IF o \in S THEN "none" ELSE NoChains.state[o]],
         link  |-> {r \in NoChains.link : r[1] \notin S}]
  BY DEF Buried
<1>2. [o \in Objects |-> IF o \in S THEN "none" ELSE NoChains.state[o]] = NoChains.state
  BY DEF NoChains
<1>3. {r \in NoChains.link : r[1] \notin S} = NoChains.link
  BY DEF NoChains
<1> QED
  BY <1>1, <1>2, <1>3 DEF NoChains

\* A request for a gear leaves the others' chains, and one chain record a gear.
LEMMA OneWorked ==
  ASSUME NEW g, NEW f, ApplyOne(g, f)
  PROVE  /\ chains' = [h \in Ids |-> chains'[h]]
         /\ \A h \in Ids : h # g => chains'[h] = chains[h]
<1> DEFINE F == [x \in {g} |-> f]
<1>1. chains' = Merged(chains, {g}, F)
  BY DEF ApplyOne, Apply
<1> HIDE DEF F
<1>2. chains' = [h \in Ids |-> chains'[h]]
  BY <1>1, MergedAgain
<1>3. \A h \in Ids : h # g => chains'[h] = chains[h]
  BY <1>1, OthersKept
<1> QED
  BY <1>2, <1>3

\* Nothing is asked for a gear that is gone, and what changes the tree finds
\* nothing to do for it (pro::focus, input::events::die).
THEOREM GoneStayGone == Spec => []GoneLeaveNothing
<1> USE FocusAssumption
<1>1. Init => GoneInv
  BY DEF Init, GoneInv, GoneLeaveNothing, Ids
<1>2. GoneInv /\ [Next]_vars => GoneInv'
  <2> SUFFICES ASSUME GoneInv, [Next]_vars PROVE GoneInv'
    OBVIOUS
  <2>0. Gears \subseteq Ids /\ Default \in Ids /\ Default \notin Gears
    BY DEF Ids
  <2>1. ASSUME NEW g \in Gears, Join(g) PROVE GoneInv'
    BY <2>1 DEF Join, GoneInv, GoneLeaveNothing
  <2>2. ASSUME NEW g \in Gears, Leave(g) PROVE GoneInv'
    <3>1. /\ chains' = [h \in Ids |-> chains'[h]]
          /\ chains'[g] = NoChains
          /\ \A h \in Ids \ {g, Default} : chains'[h] = chains[h]
      BY <2>0, <2>2 DEF Leave, GoneInv
    <3>2. gears' = gears \ {g}
      BY <2>2 DEF Leave
    <3> QED
      BY <2>0, <3>1, <3>2 DEF GoneInv, GoneLeaveNothing
  <2>3. ASSUME NEW g \in gears, NEW f, ApplyOne(g, f), gears' = gears PROVE GoneInv'
    BY <2>0, <2>3, OneWorked DEF GoneInv, GoneLeaveNothing
  <2>4. ASSUME NEW g \in Gears,
               \/ GateFocus(g) \/ GateBlur(g)
               \/ \E o \in Objects :
                     \/ Set(g, o, TRUE, FALSE) \/ Set(g, o, FALSE, FALSE)
                     \/ Set(g, o, TRUE, TRUE)
                     \/ Off(g, o) \/ Rem(g, o)
                     \/ \E solo \in BOOLEAN : Add(g, o, solo)
        PROVE  GoneInv'
    <3>1. g \in gears /\ gears' = gears
      BY <2>4 DEF GateFocus, GateBlur, Set, Off, Rem, Add
    <3>2. \E f : ApplyOne(g, f)
      BY <2>4 DEF GateFocus, GateBlur, Set, Off, Rem, Add
    <3> QED
      BY <2>3, <3>1, <3>2
  <2>5. ASSUME NEW o \in Objects, Open(o) PROVE GoneInv'
    <3>1. gears' = gears
      BY <2>5 DEF Open
    <3>2. /\ chains' = [h \in Ids |-> chains'[h]]
          /\ \A h \in Ids \ {Default} : chains'[h] = chains[h]
      <4>1. CASE o \in Defaults
        BY <2>5, <4>1 DEF Open, GoneInv
      <4>2. CASE o \notin Defaults
        BY <2>5, <4>2 DEF Open, GoneInv
      <4> QED
        BY <4>1, <4>2
    <3> QED
      BY <2>0, <3>1, <3>2 DEF GoneInv, GoneLeaveNothing
  <2>6. ASSUME NEW o \in Objects, Close(o) PROVE GoneInv'
    <3>1. PICK S : gears' = gears /\ chains' = Buried(chains, S)
      BY <2>6 DEF Close
    <3>2. chains' = [h \in Ids |-> chains'[h]]
      BY <3>1 DEF Buried
    <3> QED
      BY <2>0, <3>1, <3>2, NothingBuried DEF GoneInv, GoneLeaveNothing
  <2>7. ASSUME NEW o \in Objects, NEW q \in Objects, Move(o, q) PROVE GoneInv'
    <3> DEFINE w == [scene EXCEPT !.parent[o] = q]
               C == CutWork(o)
               F == [g \in Ids |-> IF g \in Enlisted(o)
                       THEN Focus(w, g, C[g], C[Default], o, FALSE, FALSE) ELSE C[g]]
    <3>1. gears' = gears /\ chains' = Merged(chains, Ids, F)
      BY <2>7 DEF Move, Apply
    <3>2. ASSUME NEW h \in Gears \ gears PROVE chains'[h] = NoChains
      <4>1. chains[h] = NoChains /\ h \notin Enlisted(o)
        <5>1. chains[h] = NoChains
          BY DEF GoneInv, GoneLeaveNothing
        <5>2. chains[h].state[o] = "none"
          BY <5>1 DEF NoChains
        <5> QED
          BY <5>1, <5>2 DEF Enlisted
      <4>2. F[h] = Cut(scene, h, Work(NoChains), scene.parent[o], o)
        BY <2>0, <4>1 DEF CutWork
      <4> HIDE DEF F
      <4>3. chains'[h] = Done(F[h])
        BY <2>0, <3>1, OthersKept
      <4> QED
        BY <4>2, <4>3, NothingCut
    <3> HIDE DEF F
    <3>3. chains' = [h \in Ids |-> chains'[h]]
      BY <3>1, MergedAgain
    <3> QED
      BY <3>1, <3>2, <3>3 DEF GoneInv, GoneLeaveNothing
  <2>8. ASSUME NEW o \in Objects, NEW q \in Objects, Replace(o, q) PROVE GoneInv'
    <3> DEFINE C == CutWork(o)
               F == [g \in Ids |-> IF g \in Enlisted(o)
                       THEN Focus(scene, g, C[g], C[Default], q, FALSE, FALSE)
                       ELSE C[g]]
               M == Merged(chains, Ids, F)
    <3>1. gears' = gears /\ chains' = Buried(M, Below(scene, {o}))
      BY <2>8 DEF Replace
    <3>2. ASSUME NEW h \in Gears \ gears PROVE chains'[h] = NoChains
      <4>1. chains[h] = NoChains /\ h \notin Enlisted(o)
        <5>1. chains[h] = NoChains
          BY DEF GoneInv, GoneLeaveNothing
        <5>2. chains[h].state[o] = "none"
          BY <5>1 DEF NoChains
        <5> QED
          BY <5>1, <5>2 DEF Enlisted
      <4>2. F[h] = Cut(scene, h, Work(NoChains), scene.parent[o], o)
        BY <2>0, <4>1 DEF CutWork
      <4> HIDE DEF F
      <4>3. M[h] = Done(F[h])
        BY <2>0, OthersKept
      <4>4. M[h] = NoChains
        BY <4>2, <4>3, NothingCut
      <4> HIDE DEF M
      <4> QED
        BY <2>0, <3>1, <4>4, NothingBuried
    <3> HIDE DEF M
    <3>3. chains' = [h \in Ids |-> chains'[h]]
      BY <3>1 DEF Buried
    <3> QED
      BY <3>1, <3>2, <3>3 DEF GoneInv, GoneLeaveNothing
  <2>9. ASSUME NEW v \in Veers, Switch(v) PROVE GoneInv'
    <3>1. PICK prev \in {v[1], v[2]}, next \in {v[1], v[2]} :
             Apply(Ids, [g \in Ids |-> Hop(scene, g, Work(chains[g]), chains[Default],
                                           scene.parent[prev], prev, next)])
      BY <2>9 DEF Switch
    <3>2. gears' = gears
      BY <2>9 DEF Switch
    <3> DEFINE F == [g \in Ids |-> Hop(scene, g, Work(chains[g]), chains[Default],
                                       scene.parent[prev], prev, next)]
    <3>3. ASSUME NEW h \in Gears \ gears PROVE Done(F[h]) = NoChains
      <4>1. chains[h] = NoChains
        BY DEF GoneInv, GoneLeaveNothing
      <4>2. F[h] = Hop(scene, h, Work(NoChains), chains[Default], scene.parent[prev], prev, next)
        BY <2>0, <4>1
      <4> HIDE DEF F
      <4> QED
        BY <4>2, NothingHops
    <3>4. chains' = Merged(chains, Ids, F)
      BY <3>1 DEF Apply
    <3> HIDE DEF F
    <3> QED
      BY <2>0, <3>2, <3>3, <3>4, OthersKept, MergedAgain DEF GoneInv, GoneLeaveNothing
  <2>10. CASE UNCHANGED vars
    BY <2>10 DEF vars, GoneInv, GoneLeaveNothing
  <2> QED
    BY <2>1, <2>2, <2>4, <2>5, <2>6, <2>7, <2>8, <2>9, <2>10 DEF Next
<1>3. GoneInv => GoneLeaveNothing
  BY DEF GoneInv
<1> QED
  BY <1>1, <1>2, <1>3, PTL DEF Spec

----------------------------------------------------------------------------
(* The invariant: the chains fit the tree, and the gate is active exactly  *)
(* where the client was told so or the gate stopped what it told.          *)

TreeOK == Rooted(scene)

\* What cannot be moved is where it was attached.
HomeOK == \A x \in Objects \ Movable : scene.parent[x] = Home[x]

ToldOK == \A g \in Gears : IsLive(g, Gate) <=> told[g] # "off"

IInv == /\ TypeOK /\ LinksFollowTree
        /\ TreeOK /\ HomeOK
        /\ ToldOK

LEMMA GoodIs ==
  TypeOK /\ LinksFollowTree <=>
      /\ AllGood(scene, chains)
      /\ scene \in Scenes /\ count \in [Objects -> Int] /\ gears \in SUBSET Gears
      /\ hidden \in SUBSET Objects /\ told \in [Gears -> Sysfocus]
      /\ severed \in BOOLEAN /\ changes \in 0..MaxChanges
BY DEF TypeOK, LinksFollowTree, AllGood, Good, Follows

LEMMA TellIs ==
  ASSUME NEW G, NEW on \in Sysfocus, told \in [Gears -> Sysfocus], Tell(G, on)
  PROVE  /\ told' \in [Gears -> Sysfocus]
         /\ \A g \in Gears : told'[g] = IF g \in G THEN on ELSE told[g]
BY DEF Tell

\* A request for one gear.
LEMMA OneStep ==
  ASSUME IInv, NEW g \in Gears, NEW f, Fit(scene, f), Bare(f) = {}, ApplyOne(g, f),
         scene' = scene, gears' = gears, hidden' = hidden, severed' = severed, changes' = changes,
         told' \in [Gears -> Sysfocus], \A h \in Gears : h # g => told'[h] = told[h],
         told'[g] # "off" <=> f.state[Gate] = "live"
  PROVE  IInv'
<1> DEFINE F == [x \in {g} |-> f]
<1>0. /\ AllGood(scene, chains) /\ scene \in Scenes /\ count \in [Objects -> Int]
      /\ gears \in SUBSET Gears /\ hidden \in SUBSET Objects /\ changes \in 0..MaxChanges
      /\ severed \in BOOLEAN
      /\ g \in Ids /\ Gears \subseteq Ids
  BY GoodIs DEF IInv, Ids
<1>1. chains' = Merged(chains, {g}, F) /\ count' = Counted(count, chains, {g}, F)
  BY DEF ApplyOne, Apply
<1>2. \A h \in Ids : h \in {g} => Fit(scene, F[h]) /\ Bare(F[h]) = {}
  OBVIOUS
<1>3. F[g] = f
  OBVIOUS
<1> HIDE DEF F
<1>4. Merged(chains, {g}, F) \in [Ids -> Chains] /\ \A h \in Ids : Good(scene, Merged(chains, {g}, F)[h])
  BY <1>0, <1>2, MergedGood DEF AllGood
<1>5. count' \in [Objects -> Int]
  BY <1>0, <1>1, CountedInt, FocusAssumption
<1>6. chains'[g] = Done(f) /\ \A h \in Ids : h # g => chains'[h] = chains[h]
  BY <1>0, <1>1, <1>3, OthersKept
<1>7. AllGood(scene, chains')
  BY <1>1, <1>4 DEF AllGood
<1>8. (TypeOK /\ LinksFollowTree)'
  BY <1>0, <1>5, <1>7, GoodIs DEF TypeOK, LinksFollowTree, AllGood, Good, Follows
<1>9. ToldOK'
  <2>1. Done(f).state = f.state
    BY DoneGood
  <2> QED
    BY <1>0, <1>6, <2>1 DEF IInv, ToldOK, IsLive
<1> QED
  BY <1>8, <1>9 DEF IInv, TreeOK, HomeOK

\* What every request finds: the work on chains that fit, on a tree.
LEMMA RequestFinds ==
  ASSUME IInv, NEW g \in Gears
  PROVE  /\ scene \in Scenes /\ Gate \in Objects
         /\ scene.alive \subseteq Objects /\ Shown \subseteq scene.alive
         /\ \A o \in scene.alive : Gate \in Line(scene, o)
         /\ Fit(scene, Work(chains[g])) /\ Bare(Work(chains[g])) = {}
         /\ Work(chains[g]).state = chains[g].state /\ Work(chains[g]).link = chains[g].link
         /\ Sound(scene, chains[Default])
         /\ told \in [Gears -> Sysfocus]
         /\ told[g] # "off" <=> chains[g].state[Gate] = "live"
<1>1. /\ AllGood(scene, chains) /\ scene \in Scenes /\ told \in [Gears -> Sysfocus]
      /\ g \in Ids /\ Default \in Ids
  BY GoodIs DEF IInv, Ids
<1>2. Good(scene, chains[g]) /\ Good(scene, chains[Default])
  BY <1>1 DEF AllGood
<1>3. /\ Fit(scene, Work(chains[g])) /\ Bare(Work(chains[g])) = {}
      /\ Work(chains[g]).state = chains[g].state /\ Work(chains[g]).link = chains[g].link
      /\ Sound(scene, chains[Default])
  BY <1>2, WorkGood
<1> QED
  BY <1>1, <1>3, FocusAssumption DEF IInv, TreeOK, Rooted, Scenes, Shown, ToldOK, IsLive

LEMMA GateFocusKept ==
  ASSUME IInv, NEW g \in Gears, GateFocus(g) PROVE IInv'
<1> DEFINE f == Activate(scene, g, Work(chains[g]), chains[Default], Gate, TRUE)
<1>1. /\ ApplyOne(g, f) /\ Tell({g}, "on") /\ scene' = scene /\ gears' = gears
      /\ hidden' = hidden /\ severed' = severed /\ changes' = changes
  BY DEF GateFocus
<1>2. Fit(scene, f) /\ Bare(f) = {} /\ f.state[Gate] = "live"
  <2> DEFINE W == Work(chains[g])
  <2>1. Fit(scene, W) /\ Bare(W) = {} /\ Sound(scene, chains[Default]) /\ Gate \in Objects
    BY RequestFinds
  <2> HIDE DEF W
  <2>2. Fit(scene, f) /\ Bare(f) = {}
    BY <2>1, ActivateBare DEF W
  <2>3. f.state[Gate] = "live"
    BY <2>1, ActivateGate, ZenonT(60) DEF W
  <2> QED
    BY <2>2, <2>3
<1>3. told' \in [Gears -> Sysfocus] /\ told'[g] = "on" /\ \A h \in Gears : h # g => told'[h] = told[h]
  <2>1. told \in [Gears -> Sysfocus]
    BY RequestFinds
  <2> QED
    BY <1>1, <2>1 DEF Tell, Sysfocus
<1> HIDE DEF f
<1> QED
  BY <1>1, <1>2, <1>3, OneStep

LEMMA GateBlurKept ==
  ASSUME IInv, NEW g \in Gears, GateBlur(g) PROVE IInv'
<1> DEFINE f == Release(scene, Work(chains[g]), {Gate})
<1>1. /\ ApplyOne(g, f) /\ Tell({g}, "off") /\ scene' = scene /\ gears' = gears
      /\ hidden' = hidden /\ severed' = severed /\ changes' = changes
  BY DEF GateBlur
<1>2. Fit(scene, f) /\ Bare(f) = {} /\ f.state[Gate] = "idle"
  <2> DEFINE W == Work(chains[g])
  <2>1. Fit(scene, W) /\ Bare(W) = {} /\ Gate \in Objects
    BY RequestFinds
  <2> HIDE DEF W
  <2>2. ReleasesTo(scene, W, {Gate}, Freed(scene, W, {Gate}), f) /\ Fit(scene, f) /\ Bare(f) = {}
    BY <2>1, ReleaseIs, ReleaseBare DEF W
  <2> HIDE DEF f
  <2> QED
    BY <2>1, <2>2 DEF ReleasesTo
<1>3. told' \in [Gears -> Sysfocus] /\ told'[g] = "off" /\ \A h \in Gears : h # g => told'[h] = told[h]
  <2>1. told \in [Gears -> Sysfocus]
    BY RequestFinds
  <2> QED
    BY <1>1, <2>1 DEF Tell, Sysfocus
<1> HIDE DEF f
<1> QED
  BY <1>1, <1>2, <1>3, OneStep

LEMMA SetKept ==
  ASSUME IInv, NEW g \in Gears, NEW o, NEW solo \in BOOLEAN, NEW just, Set(g, o, solo, just)
  PROVE  IInv'
<1> DEFINE f == Focus(scene, g, Work(chains[g]), chains[Default], o, solo, just)
           G == IF Rose(scene, chains[g], o, solo) THEN {g} ELSE {}
<1>1. /\ ApplyOne(g, f) /\ Tell(G, "on") /\ scene' = scene /\ gears' = gears
      /\ hidden' = hidden /\ severed' = severed /\ changes' = changes /\ g \in gears /\ o \in Shown
  BY DEF Set
<1>2. o \in Objects /\ Gate \in Line(scene, o)
  BY <1>1, RequestFinds
<1>3. Fit(scene, f) /\ Bare(f) = {}
  BY <1>2, RequestFinds, FocusFits
<1>4. Rose(scene, Work(chains[g]), o, solo) \/ chains[g].state[Gate] = "live"
         <=> f.state[Gate] = "live"
  BY <1>2, RequestFinds, FocusGate
<1>5. Rose(scene, Work(chains[g]), o, solo) <=> Rose(scene, chains[g], o, solo)
  BY RequestFinds DEF Rose, Raised, LiveObjects
<1>6. told' \in [Gears -> Sysfocus] /\ \A h \in Gears : told'[h] = IF h \in G THEN "on" ELSE told[h]
  <2>1. told \in [Gears -> Sysfocus]
    BY RequestFinds
  <2> QED
    BY <1>1, <2>1 DEF Tell, Sysfocus
<1> HIDE DEF f
<1>7. told'[g] # "off" <=> f.state[Gate] = "live"
  BY <1>1, <1>4, <1>5, <1>6, RequestFinds
<1>8. \A h \in Gears : h # g => told'[h] = told[h]
  BY <1>6
<1> HIDE DEF G
<1> QED
  BY <1>1, <1>3, <1>6, <1>7, <1>8, OneStep

LEMMA OffKept ==
  ASSUME IInv, NEW g \in Gears, NEW o, Off(g, o) PROVE IInv'
<1> DEFINE f == Unfocus(scene, Work(chains[g]), o)
           G == IF Fell(scene, chains[g], o) THEN {g} ELSE {}
<1>1. /\ ApplyOne(g, f) /\ Tell(G, Fallen(g, chains[g])) /\ scene' = scene /\ gears' = gears
      /\ hidden' = hidden /\ severed' = severed /\ changes' = changes /\ g \in gears /\ o \in Shown \ {Gate}
  BY DEF Off
<1>2. o \in Objects \ {Gate} /\ Gate \in Line(scene, o)
  BY <1>1, RequestFinds
<1>3. Fit(scene, f) /\ Bare(f) = {}
  <2> DEFINE W == Work(chains[g])
             R == Release(scene, W, {o})
             C == Chained(W, {o})
  <2>1. Fit(scene, W) /\ Bare(W) = {} /\ {o} \in SUBSET Objects
    BY <1>2, RequestFinds
  <2> HIDE DEF W
  <2>2. Fit(scene, R) /\ Bare(R) = {}
    BY <2>1, ReleaseIs, ReleaseBare
  <2>3. Fit(scene, C) /\ Bare(C) = {}
    <3>1. /\ Fit(scene, C) /\ C.link = W.link
          /\ \A x \in Objects : C.state[x] =
                IF x \in {o} /\ W.state[x] = "none" THEN "dead" ELSE W.state[x]
      BY <2>1, ChainedIs
    <3> HIDE DEF C
    <3> QED
      BY <2>1, <3>1 DEF Bare
  <2> HIDE DEF R, C
  <2>4. f = Lower(scene, IF W.state[o] = "live" THEN R ELSE C, o)
    BY DEF Unfocus, W, R, C
  <2> HIDE DEF f
  <2> QED
    BY <2>2, <2>3, <2>4, LowerBare
<1>4. GateFalls(scene, Work(chains[g]), Work(chains[g]), o, f)
  BY <1>2, RequestFinds, UnfocusGate
<1>5. /\ Fell(scene, Work(chains[g]), o) <=> Fell(scene, chains[g], o)
      /\ LastStep(Work(chains[g])) = LastStep(chains[g])
  BY RequestFinds DEF Fell, Lowered, LastStep, Records
<1>6. told' \in [Gears -> Sysfocus] /\ \A h \in Gears : told'[h] = IF h \in G THEN Fallen(g, chains[g]) ELSE told[h]
  <2>1. told \in [Gears -> Sysfocus]
    BY RequestFinds
  <2> QED
    BY <1>1, <2>1 DEF Tell, Fallen, Sysfocus
<1> HIDE DEF f
<1>7. told'[g] # "off" <=> f.state[Gate] = "live"
  BY <1>1, <1>4, <1>5, <1>6, RequestFinds DEF GateFalls, Fallen
<1>8. \A h \in Gears : h # g => told'[h] = told[h]
  BY <1>6
<1> HIDE DEF G
<1> QED
  BY <1>1, <1>3, <1>6, <1>7, <1>8, OneStep

LEMMA AddKept ==
  ASSUME IInv, NEW g \in Gears, NEW o, NEW solo \in BOOLEAN, Add(g, o, solo)
  PROVE  IInv'
<1> DEFINE N == Notify(Work(chains[g]), {o}, "live")
           f == Raise(scene, g, N, o, solo)
           G == IF Rose(scene, chains[g], o, solo) THEN {g} ELSE {}
<1>1. /\ ApplyOne(g, f) /\ Tell(G, "on") /\ scene' = scene /\ gears' = gears
      /\ hidden' = hidden /\ severed' = severed /\ changes' = changes /\ g \in gears /\ o \in Shown /\ o \in Relays
  BY DEF Add
<1>2. o \in Objects /\ Gate \in Line(scene, o) /\ o # Gate /\ "live" \in Statuses
  BY <1>1, RequestFinds, SceneAssumption DEF Statuses
<1>3. /\ Fit(scene, N) /\ Bare(N) = {}
      /\ \A x \in Objects : N.state[x] = IF x \in {o} THEN "live" ELSE chains[g].state[x]
  <2> DEFINE W == Work(chains[g])
  <2>1. Fit(scene, W) /\ Bare(W) = {} /\ W \in Works /\ W.state = chains[g].state
    BY RequestFinds DEF Fit
  <2> HIDE DEF W
  <2>2. Fit(scene, N) /\ Bare(N) = {}
    BY <1>2, <2>1, NotifyBare DEF W
  <2>3. \A x \in Objects : N.state[x] = IF x \in {o} THEN "live" ELSE chains[g].state[x]
    BY <1>2, <2>1, NotifyIs DEF W
  <2> QED
    BY <2>2, <2>3
<1> HIDE DEF N
<1>4. Fit(scene, f) /\ Bare(f) = {}
  BY <1>2, <1>3, RequestFinds, RaiseBare
<1>5. f.state[Gate] = IF Gate \in Raised(scene, N, o, solo) THEN "live" ELSE N.state[Gate]
  BY <1>2, <1>3, RequestFinds, RaiseGate
<1>6. Rose(scene, chains[g], o, solo) <=> Gate \in Raised(scene, N, o, solo)
  <2>1. \A x \in Line(scene, scene.parent[o]) : o \notin Line(scene, x)
    BY <1>2, RequestFinds, AncestorsAside
  <2>2. \A x \in Line(scene, scene.parent[o]) \cap Objects : N.state[x] = chains[g].state[x]
    BY <1>3, <2>1, LineSelf
  <2>3. Raised(scene, N, o, solo) = Raised(scene, chains[g], o, solo)
    BY <1>2, <2>2, RequestFinds, RaisedSame
  <2> QED
    BY <1>2, <2>3 DEF Rose
<1>7. told' \in [Gears -> Sysfocus] /\ \A h \in Gears : told'[h] = IF h \in G THEN "on" ELSE told[h]
  <2>1. told \in [Gears -> Sysfocus]
    BY RequestFinds
  <2> QED
    BY <1>1, <2>1 DEF Tell, Sysfocus
<1> HIDE DEF f
<1>8. told'[g] # "off" <=> f.state[Gate] = "live"
  BY <1>1, <1>2, <1>3, <1>5, <1>6, <1>7, RequestFinds
<1>9. \A h \in Gears : h # g => told'[h] = told[h]
  BY <1>7
<1> HIDE DEF G
<1> QED
  BY <1>1, <1>4, <1>7, <1>8, <1>9, OneStep

LEMMA RemKept ==
  ASSUME IInv, NEW g \in Gears, NEW o, Rem(g, o) PROVE IInv'
<1> DEFINE N == Notify(Work(chains[g]), {o}, "idle")
           L == Lower(scene, N, o)
           live == chains[g].state[o] = "live"
           f == IF live THEN L ELSE N
           G == IF live /\ Fell(scene, chains[g], o) THEN {g} ELSE {}
<1>1. /\ ApplyOne(g, f) /\ Tell(G, Fallen(g, chains[g])) /\ scene' = scene /\ gears' = gears
      /\ hidden' = hidden /\ severed' = severed /\ changes' = changes /\ g \in gears /\ o \in Shown /\ o \in Relays
  BY DEF Rem
<1>2. o \in Objects \ {Gate} /\ Gate \in Line(scene, o) /\ "idle" \in Statuses
  BY <1>1, RequestFinds, SceneAssumption DEF Statuses
<1>3. /\ Fit(scene, N) /\ Bare(N) = {} /\ N.link = chains[g].link
      /\ \A x \in Objects : N.state[x] = IF x \in {o} THEN "idle" ELSE chains[g].state[x]
  <2> DEFINE W == Work(chains[g])
  <2>1. /\ Fit(scene, W) /\ Bare(W) = {} /\ W \in Works
        /\ W.state = chains[g].state /\ W.link = chains[g].link
    BY RequestFinds DEF Fit
  <2> HIDE DEF W
  <2>2. Fit(scene, N) /\ Bare(N) = {}
    BY <1>2, <2>1, NotifyBare DEF W
  <2>3. N.link = chains[g].link
        /\ \A x \in Objects : N.state[x] = IF x \in {o} THEN "idle" ELSE chains[g].state[x]
    BY <1>2, <2>1, NotifyIs DEF W
  <2> QED
    BY <2>2, <2>3
<1> HIDE DEF N
<1>4. Fit(scene, f) /\ Bare(f) = {}
  <2>1. Fit(scene, L) /\ Bare(L) = {}
    BY <1>3, LowerBare
  <2> QED
    BY <1>3, <2>1
<1>5. GateFalls(scene, chains[g], N, o, L)
  <2>1. \A x \in Line(scene, scene.parent[o]) \cap Objects : Records(N, x) = Records(chains[g], x)
    BY <1>3 DEF Records
  <2> QED
    BY <1>2, <1>3, <2>1, RequestFinds, LowerGate
<1>6. told' \in [Gears -> Sysfocus] /\ \A h \in Gears : told'[h] = IF h \in G THEN Fallen(g, chains[g]) ELSE told[h]
  <2>1. told \in [Gears -> Sysfocus]
    BY RequestFinds
  <2> QED
    BY <1>1, <2>1 DEF Tell, Fallen, Sysfocus
<1> HIDE DEF L
<1>7. told'[g] # "off" <=> f.state[Gate] = "live"
  <2>1. N.state[Gate] = chains[g].state[Gate]
    BY <1>2, <1>3, RequestFinds
  <2> QED
    BY <1>1, <1>5, <1>6, <2>1, RequestFinds DEF GateFalls, Fallen
<1>8. \A h \in Gears : h # g => told'[h] = told[h]
  BY <1>6
<1> HIDE DEF G, f
<1> QED
  BY <1>1, <1>4, <1>6, <1>7, <1>8, OneStep

----------------------------------------------------------------------------
(* The gears that come and go, and the changes of the tree.                *)

LEMMA GoodIsNext ==
  ASSUME AllGood(scene', chains'), scene' \in Scenes, count' \in [Objects -> Int],
         gears' \in SUBSET Gears, hidden' \in SUBSET Objects,
         told' \in [Gears -> Sysfocus], severed' \in BOOLEAN, changes' \in 0..MaxChanges
  PROVE  (TypeOK /\ LinksFollowTree)'
BY DEF TypeOK, LinksFollowTree, AllGood, Good, Follows

LEMMA ChangeIs == ASSUME IInv, Change PROVE changes' \in 0..MaxChanges
BY FocusAssumption DEF IInv, TypeOK, Change

LEMMA RestoredIs ==
  ASSUME IInv, NEW S PROVE Restored(S) \in SUBSET Objects
<1>1. hidden \in SUBSET Objects
  BY GoodIs DEF IInv
<1>2. \A v \in Veers : v[2] \in Objects
  BY FocusAssumption
<1> QED
  BY <1>1, <1>2 DEF Restored

LEMMA JoinKept == ASSUME IInv, NEW g \in Gears, Join(g) PROVE IInv'
<1>1. /\ AllGood(scene, chains) /\ scene \in Scenes /\ count \in [Objects -> Int]
      /\ gears \in SUBSET Gears /\ hidden \in SUBSET Objects
      /\ told \in [Gears -> Sysfocus] /\ severed \in BOOLEAN /\ changes \in 0..MaxChanges
  BY GoodIs DEF IInv
<1>2. /\ scene' = scene /\ chains' = chains /\ count' = count /\ hidden' = hidden
      /\ told' = told /\ severed' = severed /\ changes' = changes /\ gears' = gears \cup {g} /\ g \notin gears
  BY DEF Join
<1>3. (TypeOK /\ LinksFollowTree)'
  BY <1>1, <1>2, GoodIsNext
<1> QED
  BY <1>2, <1>3 DEF IInv, TreeOK, HomeOK, ToldOK, IsLive

LEMMA LeaveKept == ASSUME IInv, NEW g \in Gears, Leave(g) PROVE IInv'
<1>1. /\ AllGood(scene, chains) /\ scene \in Scenes /\ count \in [Objects -> Int]
      /\ gears \in SUBSET Gears /\ hidden \in SUBSET Objects
      /\ told \in [Gears -> Sysfocus] /\ severed \in BOOLEAN /\ changes \in 0..MaxChanges
      /\ g \in Ids /\ Default \in Ids /\ g # Default /\ Gears \subseteq Ids
  BY FocusAssumption, GoodIs DEF IInv, Ids
<1>2. /\ scene' = scene /\ hidden' = hidden /\ severed' = severed /\ changes' = changes /\ gears' = gears \ {g}
      /\ chains' = [chains EXCEPT ![Default] = Inherit(chains[Default], chains[g]),
                                  ![g] = NoChains]
      /\ Tell({g}, "off")
      /\ count' = [o \in Objects |-> IF chains[g].state[o] = "live" THEN count[o] - 1 ELSE count[o]]
  BY DEF Leave
<1>3. told' \in [Gears -> Sysfocus] /\ \A h \in Gears : told'[h] = IF h \in {g} THEN "off" ELSE told[h]
  BY <1>1, <1>2, TellIs DEF Sysfocus
<1>4. Good(scene, Inherit(chains[Default], chains[g])) /\ Good(scene, NoChains)
  BY <1>1, InheritIs, NoneGood DEF AllGood
<1>5. Inherit(chains[Default], chains[g]) \in Chains /\ NoChains \in Chains
  BY <1>4 DEF Good
<1>6. /\ chains' \in [Ids -> Chains]
      /\ chains'[g] = NoChains /\ chains'[Default] = Inherit(chains[Default], chains[g])
      /\ \A h \in Ids \ {g, Default} : chains'[h] = chains[h]
  BY <1>1, <1>2, <1>5 DEF AllGood
<1>7. AllGood(scene', chains')
  BY <1>1, <1>2, <1>4, <1>6 DEF AllGood
<1>8. count' \in [Objects -> Int]
  BY <1>1, <1>2
<1>9. (TypeOK /\ LinksFollowTree)'
  BY <1>1, <1>2, <1>3, <1>7, <1>8, GoodIsNext
<1>10. ToldOK'
  BY <1>1, <1>3, <1>6, FocusAssumption DEF IInv, ToldOK, IsLive, NoChains
<1> QED
  BY <1>2, <1>9, <1>10 DEF IInv, TreeOK, HomeOK

\* Default focus of an object without chains.
LEMMA PavedGood ==
  ASSUME NEW w \in Scenes, NEW d, Good(w, d), NEW o \in Objects
  PROVE  Good(w, Paved(w, d, o))
<1> DEFINE f == Focus(w, Default, Work(d), d, o, TRUE, FALSE)
<1>1. Fit(w, Work(d)) /\ Bare(Work(d)) = {} /\ Sound(w, d)
  BY WorkGood
<1>2. Fit(w, f) /\ Bare(f) = {}
  BY <1>1, FocusFits
<1> HIDE DEF f
<1>3. Good(w, Done(f))
  BY <1>2, DoneGood
<1> QED
  BY <1>3 DEF Paved, f

LEMMA OpenKept == ASSUME IInv, NEW o \in Objects, Open(o) PROVE IInv'
<1> DEFINE w == [scene EXCEPT !.alive = @ \cup {o}, !.parent[o] = Home[o]]
<1>1. /\ AllGood(scene, chains) /\ scene \in Scenes /\ count \in [Objects -> Int]
      /\ gears \in SUBSET Gears /\ hidden \in SUBSET Objects
      /\ told \in [Gears -> Sysfocus] /\ severed \in BOOLEAN /\ Rooted(scene)
      /\ Default \in Ids /\ Gears \subseteq Ids /\ Default \notin Gears
  BY FocusAssumption, GoodIs DEF IInv, Ids, TreeOK
<1>2. /\ o \notin scene.alive /\ Home[o] \in scene.alive
      /\ \A g \in Ids : o \notin {r[2] : r \in chains[g].link}
      /\ scene' = w /\ Change
      /\ chains' = IF o \in Defaults THEN [chains EXCEPT ![Default] = Paved(w, @, o)] ELSE chains
      /\ UNCHANGED <<count, gears, hidden, told, severed>>
  BY DEF Open
<1>3. Rooted(w)
  BY <1>1, <1>2, OpenTree
<1>4. /\ w.alive = scene.alive \cup {o} /\ w.parent[o] = Home[o]
      /\ \A x \in Objects : x # o => w.parent[x] = scene.parent[x]
  BY <1>1 DEF Scenes
<1> HIDE DEF w
<1>5. ASSUME NEW g \in Ids PROVE Good(w, chains[g])
  <2>1. \A r \in chains[g].link : r[2] # o /\ r[2] \in Objects
    BY <1>1, <1>2 DEF AllGood, Good, Chains, Links
  <2> QED
    BY <1>1, <1>4, <2>1 DEF AllGood, Good, Follows
<1>6. Good(w, Paved(w, chains[Default], o)) /\ Paved(w, chains[Default], o) \in Chains
  <2>1. Good(w, Paved(w, chains[Default], o))
    BY <1>1, <1>3, <1>5, PavedGood DEF Rooted
  <2> QED
    BY <2>1 DEF Good
<1>7. AllGood(w, chains') /\ \A g \in Gears : chains'[g] = chains[g]
  <2>1. CASE o \in Defaults
    <3>1. /\ chains' \in [Ids -> Chains]
          /\ chains'[Default] = Paved(w, chains[Default], o)
          /\ \A g \in Ids \ {Default} : chains'[g] = chains[g]
      BY <1>1, <1>2, <1>6, <2>1 DEF AllGood
    <3> QED
      BY <1>1, <1>5, <1>6, <3>1 DEF AllGood
  <2>2. CASE o \notin Defaults
    BY <1>1, <1>2, <1>5, <2>2 DEF AllGood
  <2> QED
    BY <2>1, <2>2
<1>8. (TypeOK /\ LinksFollowTree)'
  <2>1. scene' \in Scenes /\ changes' \in 0..MaxChanges
    BY <1>2, <1>3, ChangeIs DEF Rooted
  <2> QED
    BY <1>1, <1>2, <1>7, <2>1, GoodIsNext
<1>9. HomeOK'
  <2>1. \A x \in Objects \ Movable : w.parent[x] = Home[x]
    BY <1>4 DEF IInv, HomeOK
  <2> QED
    BY <1>2, <2>1 DEF HomeOK
<1>10. ToldOK'
  BY <1>2, <1>7 DEF IInv, ToldOK, IsLive
<1> QED
  BY <1>2, <1>3, <1>8, <1>9, <1>10 DEF IInv, TreeOK

LEMMA CloseKept == ASSUME IInv, NEW o \in Objects, Close(o) PROVE IInv'
<1> DEFINE S == Below(scene, {o})
           w == [scene EXCEPT !.alive = @ \ S]
<1>1. /\ AllGood(scene, chains) /\ scene \in Scenes /\ count \in [Objects -> Int]
      /\ gears \in SUBSET Gears /\ told \in [Gears -> Sysfocus] /\ severed \in BOOLEAN /\ Rooted(scene)
      /\ Gears \subseteq Ids /\ Gate \in Objects
  BY FocusAssumption, GoodIs DEF IInv, Ids, TreeOK
<1>2. /\ o # Gate /\ scene' = w /\ Change /\ chains' = Buried(chains, S)
      /\ count' = Zeroed(count, S) /\ hidden' = Restored(S)
      /\ UNCHANGED <<gears, told, severed>>
  BY DEF Close
<1>3. Gate \notin S /\ Rooted(w)
  BY <1>1, <1>2, CloseTree
<1> HIDE DEF S
<1>4. w.alive = scene.alive \ S /\ w.parent = scene.parent
  BY <1>1 DEF Scenes
<1> HIDE DEF w
<1>5. AllGood(w, Buried(chains, S)) /\ BuriedTo(chains, S)
  BY <1>1, <1>4, BuriedGood DEF Pruned
<1>6. Zeroed(count, S) \in [Objects -> Int]
  BY <1>1 DEF Zeroed
<1>7. (TypeOK /\ LinksFollowTree)'
  <2>1. scene' \in Scenes /\ changes' \in 0..MaxChanges /\ hidden' \in SUBSET Objects
    BY <1>2, <1>3, ChangeIs, RestoredIs DEF Rooted
  <2> QED
    BY <1>1, <1>2, <1>5, <1>6, <2>1, GoodIsNext
<1>8. ToldOK'
  BY <1>1, <1>2, <1>3, <1>5 DEF IInv, ToldOK, IsLive, BuriedTo
<1>9. HomeOK'
  BY <1>2, <1>4 DEF IInv, HomeOK
<1> QED
  BY <1>2, <1>3, <1>7, <1>8, <1>9 DEF IInv, TreeOK

\* What is left of every gear's chains once o is cut: no record names it.
LEMMA CutWorkIs ==
  ASSUME IInv, NEW o \in scene.alive \ {Gate}, NEW g \in Ids
  PROVE  /\ Fit(scene, CutWork(o)[g]) /\ Bare(CutWork(o)[g]) = {}
         /\ \A r \in CutWork(o)[g].link : r[2] # o
         /\ CutWork(o)[g].state[Gate] = chains[g].state[Gate]
<1> DEFINE c == chains[g]
           p == scene.parent[o]
           A == Cut(scene, g, Work(c), p, o)
<1>1. Good(scene, c) /\ scene \in Scenes /\ Gate \in Objects
  BY FocusAssumption, GoodIs DEF IInv, AllGood
<1>2. CutWork(o)[g] = A /\ o \in Objects \ {Gate}
  BY <1>1 DEF CutWork, Scenes
<1> HIDE DEF c, A
<1>3. Fit(scene, Work(c)) /\ Bare(Work(c)) = {} /\ Work(c).state = c.state
  BY <1>1, WorkGood
<1>4. /\ Fit(scene, A) /\ Bare(A) = {} /\ \A r \in A.link : Edge(r) # <<p, o>>
      /\ A.state[Gate] = Work(c).state[Gate]
  BY <1>1, <1>2, <1>3, CutIs DEF A
<1>5. \A r \in A.link : r[2] # o
  BY <1>2, <1>4 DEF Fit, Follows, Edge
<1> QED
  BY <1>2, <1>3, <1>4, <1>5 DEF c

LEMMA MoveKept ==
  ASSUME IInv, NEW o, NEW q, Move(o, q) PROVE IInv'
<1> DEFINE u == [scene EXCEPT !.parent[o] = q]
           C == CutWork(o)
           F == [g \in Ids |-> IF g \in Enlisted(o)
                               THEN Focus(u, g, C[g], C[Default], o, FALSE, FALSE) ELSE C[g]]
           T == {g \in Enlisted(o) : Rose(u, C[g], o, FALSE)}
<1>1. /\ AllGood(scene, chains) /\ scene \in Scenes /\ count \in [Objects -> Int]
      /\ gears \in SUBSET Gears /\ told \in [Gears -> Sysfocus] /\ severed \in BOOLEAN /\ Rooted(scene)
      /\ hidden \in SUBSET Objects
      /\ Gears \subseteq Ids /\ Default \in Ids /\ Gate \in Objects /\ IsFiniteSet(Gears)
  BY FocusAssumption, GoodIs DEF IInv, Ids, TreeOK
<1>2. /\ o \in scene.alive \ {Gate} /\ o \in Movable /\ q \in scene.alive \ Below(scene, {o})
      /\ Change /\ scene' = u /\ chains' = Merged(chains, Ids, F)
      /\ count' = Counted(count, chains, Ids, F) /\ Tell(T, "on")
      /\ UNCHANGED <<gears, hidden>> /\ severed' = (severed \/ Misses(o))
  BY DEF Move, Apply
<1>3. Rooted(u) /\ o \in Objects
  BY <1>1, <1>2, MoveTree DEF Scenes
<1>4. u \in Scenes /\ u.alive = scene.alive /\ Gate \in Line(u, o)
  BY <1>1, <1>2, <1>3 DEF Rooted, Scenes
<1>5. ASSUME NEW g \in Ids
      PROVE  /\ Fit(u, C[g]) /\ Bare(C[g]) = {} /\ C[g].state[Gate] = chains[g].state[Gate]
  <2>1. /\ Fit(scene, C[g]) /\ Bare(C[g]) = {} /\ \A r \in C[g].link : r[2] # o
        /\ C[g].state[Gate] = chains[g].state[Gate]
    BY <1>2, CutWorkIs
  <2> HIDE DEF C
  <2> QED
    BY <1>1, <2>1, FitsMoved
<1> HIDE DEF u, C
<1>6. Sound(u, C[Default])
  BY <1>1, <1>5, DoneGood
<1>7. ASSUME NEW g \in Ids
      PROVE  /\ Fit(u, F[g]) /\ Bare(F[g]) = {}
             /\ g \in T \/ chains[g].state[Gate] = "live" <=> F[g].state[Gate] = "live"
  <2>1. CASE g \in Enlisted(o)
    <3> DEFINE A == Focus(u, g, C[g], C[Default], o, FALSE, FALSE)
    <3>1. Fit(u, A) /\ Bare(A) = {}
      BY <1>3, <1>4, <1>5, <1>6, FocusFits
    <3>2. g \in T \/ chains[g].state[Gate] = "live" <=> A.state[Gate] = "live"
      <4>1. g \in T <=> Rose(u, C[g], o, FALSE)
        BY <2>1
      <4> HIDE DEF T, F
      <4> DEFINE c == C[g]
                 d == C[Default]
      <4>2. Fit(u, c) /\ Bare(c) = {} /\ Sound(u, d)
        BY <1>5, <1>6
      <4> HIDE DEF c, d
      <4>3. ASSUME NEW solo \in BOOLEAN, NEW just
            PROVE  Focus(u, g, c, d, o, solo, just).state[Gate] = "live"
                      <=> Rose(u, c, o, solo) \/ c.state[Gate] = "live"
        BY <1>1, <1>3, <1>4, <4>2, FocusGate
      <4>4. Rose(u, c, o, FALSE) \/ c.state[Gate] = "live" <=> A.state[Gate] = "live"
        BY <4>3 DEF c, d
      <4> QED
        BY <1>5, <4>1, <4>4 DEF c
    <3>3. F[g] = A
      BY <2>1
    <3> HIDE DEF A, F, T
    <3> QED
      BY <3>1, <3>2, <3>3
  <2>2. CASE g \notin Enlisted(o)
    <3>1. F[g] = C[g] /\ g \notin T
      BY <2>2
    <3> HIDE DEF F, T
    <3> QED
      BY <1>5, <3>1
  <2> QED
    BY <2>1, <2>2
<1> HIDE DEF F, T
<1>8. ASSUME NEW g \in Ids PROVE Good(u, Done(F[g])) /\ Done(F[g]).state = F[g].state
  BY <1>7, DoneGood
<1>9. /\ AllGood(u, chains') /\ \A g \in Ids : chains'[g].state = F[g].state
  <2>1. chains' = [g \in Ids |-> Done(F[g])]
    BY <1>2 DEF Merged
  <2> QED
    BY <1>8, <2>1 DEF AllGood, Good
<1>10. (TypeOK /\ LinksFollowTree)'
  <2>1. count' \in [Objects -> Int]
    BY <1>1, <1>2, CountedInt
  <2>2. told' \in [Gears -> Sysfocus] /\ changes' \in 0..MaxChanges
    BY <1>1, <1>2, TellIs, ChangeIs DEF Sysfocus
  <2>3. severed' \in BOOLEAN
    BY <1>2
  <2> QED
    BY <1>1, <1>2, <1>4, <1>9, <2>1, <2>2, <2>3, GoodIsNext
<1>11. HomeOK'
  <2>1. \A x \in Objects : x # o => u.parent[x] = scene.parent[x]
    BY <1>1 DEF u, Scenes
  <2> QED
    BY <1>2, <2>1 DEF IInv, HomeOK
<1>12. ToldOK'
  <2>1. \A g \in Gears : told'[g] = IF g \in T THEN "on" ELSE told[g]
    BY <1>1, <1>2, TellIs DEF Sysfocus
  <2> QED
    BY <1>1, <1>7, <1>9, <2>1 DEF IInv, ToldOK, IsLive
<1> QED
  BY <1>2, <1>3, <1>10, <1>11, <1>12 DEF IInv, TreeOK

LEMMA ReplaceKept ==
  ASSUME IInv, NEW o, NEW q, Replace(o, q) PROVE IInv'
<1> DEFINE C == CutWork(o)
           F == [g \in Ids |-> IF g \in Enlisted(o)
                               THEN Focus(scene, g, C[g], C[Default], q, FALSE, FALSE)
                               ELSE C[g]]
           T == {g \in Enlisted(o) : Rose(scene, C[g], q, FALSE)}
           S == Below(scene, {o})
           w == [scene EXCEPT !.alive = @ \ S]
           M == Merged(chains, Ids, F)
           n == Counted(count, chains, Ids, F)
<1>1. /\ AllGood(scene, chains) /\ scene \in Scenes /\ count \in [Objects -> Int]
      /\ gears \in SUBSET Gears /\ told \in [Gears -> Sysfocus] /\ severed \in BOOLEAN /\ Rooted(scene)
      /\ Gears \subseteq Ids /\ Default \in Ids /\ Gate \in Objects /\ IsFiniteSet(Gears)
  BY FocusAssumption, GoodIs DEF IInv, Ids, TreeOK
<1>2. /\ o \in scene.alive \ {Gate} /\ q \in scene.alive
      /\ Change /\ scene' = w /\ chains' = Buried(M, S)
      /\ count' = Zeroed(n, S) /\ Tell(T, "on") /\ hidden' = Restored(S)
      /\ UNCHANGED gears /\ severed' = (severed \/ Misses(o))
  BY DEF Replace, Shown
<1>3. q \in Objects /\ o \in Objects \ {Gate} /\ Gate \in Line(scene, q)
  BY <1>1, <1>2 DEF Rooted, Scenes
<1>4. Gate \notin S /\ Rooted(w)
  BY <1>1, <1>3, CloseTree
<1> HIDE DEF S
<1>5. w.alive = scene.alive \ S /\ w.parent = scene.parent
  BY <1>1 DEF Scenes
<1>6. ASSUME NEW g \in Ids
      PROVE  /\ Fit(scene, C[g]) /\ Bare(C[g]) = {}
             /\ C[g].state[Gate] = chains[g].state[Gate]
  BY <1>2, CutWorkIs
<1> HIDE DEF w, C
<1>7. Sound(scene, C[Default])
  BY <1>1, <1>6, DoneGood
<1>8. ASSUME NEW g \in Ids
      PROVE  /\ Fit(scene, F[g]) /\ Bare(F[g]) = {}
             /\ g \in T \/ chains[g].state[Gate] = "live" <=> F[g].state[Gate] = "live"
  <2>1. CASE g \in Enlisted(o)
    <3> DEFINE A == Focus(scene, g, C[g], C[Default], q, FALSE, FALSE)
               c == C[g]
               d == C[Default]
    <3>1. F[g] = A /\ (g \in T <=> Rose(scene, c, q, FALSE))
      BY <2>1
    <3>2. Fit(scene, c) /\ Bare(c) = {} /\ Sound(scene, d)
      BY <1>6, <1>7
    <3> HIDE DEF F, T, c, d
    <3>3. ASSUME NEW solo \in BOOLEAN, NEW just
          PROVE  LET B == Focus(scene, g, c, d, q, solo, just)
                 IN  /\ Fit(scene, B) /\ Bare(B) = {}
                     /\ Rose(scene, c, q, solo) \/ c.state[Gate] = "live"
                           <=> B.state[Gate] = "live"
      <4>1. LET B == Focus(scene, g, c, d, q, solo, just) IN Fit(scene, B) /\ Bare(B) = {}
        BY <1>1, <1>3, <3>2, FocusFits
      <4>2. Focus(scene, g, c, d, q, solo, just).state[Gate] = "live"
               <=> Rose(scene, c, q, solo) \/ c.state[Gate] = "live"
        BY <1>1, <1>3, <3>2, FocusGate
      <4> QED
        BY <4>1, <4>2
    <3>4. /\ Fit(scene, A) /\ Bare(A) = {}
          /\ Rose(scene, c, q, FALSE) \/ c.state[Gate] = "live" <=> A.state[Gate] = "live"
      BY <3>3 DEF c, d
    <3> QED
      BY <1>6, <3>1, <3>4 DEF c
  <2>2. CASE g \notin Enlisted(o)
    <3>1. F[g] = C[g] /\ g \notin T
      BY <2>2
    <3> HIDE DEF F, T
    <3> QED
      BY <1>6, <3>1
  <2> QED
    BY <2>1, <2>2
<1> HIDE DEF F, T
<1>9. ASSUME NEW g \in Ids PROVE Good(scene, Done(F[g])) /\ Done(F[g]).state = F[g].state
  BY <1>8, DoneGood
<1>10. AllGood(scene, M) /\ \A g \in Ids : M[g].state = F[g].state
  <2>1. M = [g \in Ids |-> Done(F[g])]
    BY DEF Merged
  <2> HIDE DEF M
  <2> QED
    BY <1>9, <2>1 DEF AllGood, Good
<1>11. n \in [Objects -> Int]
  BY <1>1, CountedInt
<1> HIDE DEF M, n
<1>12. AllGood(w, chains') /\ BuriedTo(M, S)
  BY <1>2, <1>5, <1>10, BuriedGood DEF Pruned
<1>13. (TypeOK /\ LinksFollowTree)'
  <2>1. Zeroed(n, S) \in [Objects -> Int]
    BY <1>11 DEF Zeroed
  <2>2. told' \in [Gears -> Sysfocus] /\ changes' \in 0..MaxChanges /\ hidden' \in SUBSET Objects
    BY <1>1, <1>2, TellIs, ChangeIs, RestoredIs DEF Sysfocus
  <2>3. w \in Scenes
    BY <1>4 DEF Rooted
  <2>4. severed' \in BOOLEAN
    BY <1>2
  <2> QED
    BY <1>1, <1>2, <1>12, <2>1, <2>2, <2>3, <2>4, GoodIsNext
<1>14. HomeOK'
  BY <1>2, <1>5 DEF IInv, HomeOK
<1>15. ToldOK'
  <2>1. \A g \in Gears : told'[g] = IF g \in T THEN "on" ELSE told[g]
    BY <1>1, <1>2, TellIs DEF Sysfocus
  <2>2. \A g \in Gears : chains'[g].state[Gate] = F[g].state[Gate]
    BY <1>1, <1>2, <1>4, <1>10, <1>12 DEF BuriedTo
  <2> QED
    BY <1>1, <1>8, <2>1, <2>2 DEF IInv, ToldOK, IsLive
<1> QED
  BY <1>2, <1>4, <1>13, <1>14, <1>15 DEF IInv, TreeOK

LEMMA SwitchKept ==
  ASSUME IInv, NEW v \in Veers, Switch(v) PROVE IInv'
<1>1. PICK prev \in {v[1], v[2]}, next \in {v[1], v[2]} :
        LET p == scene.parent[prev]
        IN  /\ Change
            /\ prev \in scene.alive \ hidden /\ next \in scene.alive \cap hidden
            /\ Apply(Ids, [g \in Ids |-> Hop(scene, g, Work(chains[g]), chains[Default], p, prev, next)])
            /\ hidden' = (hidden \ {next}) \cup {prev}
            /\ UNCHANGED <<scene, gears, told, severed>>
  BY DEF Switch
<1> DEFINE p == scene.parent[prev]
           F == [g \in Ids |-> Hop(scene, g, Work(chains[g]), chains[Default], p, prev, next)]
<1>2. /\ AllGood(scene, chains) /\ scene \in Scenes /\ count \in [Objects -> Int]
      /\ gears \in SUBSET Gears /\ told \in [Gears -> Sysfocus] /\ hidden \in SUBSET Objects
      /\ severed \in BOOLEAN
      /\ Gears \subseteq Ids /\ Default \in Ids /\ Gate \in Objects /\ IsFiniteSet(Gears)
  BY FocusAssumption, GoodIs DEF IInv, Ids
<1>3. /\ chains' = Merged(chains, Ids, F) /\ count' = Counted(count, chains, Ids, F)
      /\ UNCHANGED <<scene, gears, told, severed>> /\ Change
      /\ hidden' = (hidden \ {next}) \cup {prev}
  BY <1>1 DEF Apply
<1>4. /\ prev \in Objects \ {Gate} /\ next \in Objects \ {Gate}
      /\ scene.parent[next] = p /\ p \in Objects
  <2>1. prev \in Objects /\ next \in Objects
    BY <1>1, <1>2 DEF Scenes
  <2>2. /\ Home[prev] = Home[next] /\ prev \notin Movable \cup {Gate}
        /\ next \notin Movable \cup {Gate}
    BY <1>1, SlotAssumption DEF Slotted
  <2> QED
    BY <1>2, <2>1, <2>2 DEF IInv, HomeOK, Scenes
<1>5. ASSUME NEW g \in Ids
      PROVE  /\ Fit(scene, F[g]) /\ Bare(F[g]) = {}
             /\ F[g].state[Gate] = chains[g].state[Gate]
  <2> DEFINE c == chains[g]
             f == Work(c)
             d == chains[Default]
  <2>1. F[g] = Hop(scene, g, f, d, p, prev, next)
    OBVIOUS
  <2>2. Good(scene, c) /\ Good(scene, d)
    BY <1>2 DEF AllGood
  <2> HIDE DEF F, c, d, p
  <2>3. Fit(scene, f) /\ Bare(f) = {} /\ f.state = c.state /\ Sound(scene, d)
    BY <2>2, WorkGood
  <2> HIDE DEF f
  <2> DEFINE A == Hop(scene, g, f, d, p, prev, next)
  <2>4. /\ Fit(scene, A) /\ Bare(A) = {}
        /\ A.state[Gate] = f.state[Gate]
    <3>1. p \in Objects /\ prev \in Objects /\ next \in Objects \ {Gate} /\ scene.parent[next] = p
          /\ prev # Gate /\ Gate \in Objects
      BY <1>2, <1>4
    <3>2. Fit(scene, A) /\ Bare(A) = {}
      BY <2>3, <3>1, HopFits
    <3>3. A.state[Gate] = f.state[Gate]
      BY <2>3, <3>1, HopGate
    <3> QED
      BY <3>2, <3>3
  <2> QED
    BY <2>1, <2>3, <2>4 DEF c
<1> HIDE DEF F, p
<1>6. ASSUME NEW g \in Ids PROVE Good(scene, Done(F[g])) /\ Done(F[g]).state = F[g].state
  BY <1>5, DoneGood
<1>7. AllGood(scene, chains') /\ \A g \in Ids : chains'[g].state = F[g].state
  <2>1. chains' = [g \in Ids |-> Done(F[g])]
    BY <1>3 DEF Merged
  <2> QED
    BY <1>6, <2>1 DEF AllGood, Good
<1>8. (TypeOK /\ LinksFollowTree)'
  <2>1. count' \in [Objects -> Int]
    BY <1>2, <1>3, CountedInt
  <2>2. changes' \in 0..MaxChanges /\ hidden' \in SUBSET Objects
    BY <1>2, <1>3, <1>4, ChangeIs
  <2> QED
    BY <1>2, <1>3, <1>7, <2>1, <2>2, GoodIsNext
<1>9. ToldOK'
  BY <1>2, <1>3, <1>5, <1>7 DEF IInv, ToldOK, IsLive
<1> QED
  BY <1>3, <1>8, <1>9 DEF IInv, TreeOK, HomeOK

LEMMA InitKept == ASSUME Init PROVE IInv
<1> DEFINE P == Paved(scene, NoChains, First)
<1>1. /\ scene.alive = AtStart /\ scene.parent = Home /\ scene \in Scenes
      /\ count = [o \in Objects |-> 0] /\ gears = {} /\ hidden = {v[2] : v \in Veers}
      /\ told = [g \in Gears |-> "off"] /\ severed = FALSE /\ changes = 0
      /\ chains = [g \in Ids |-> IF g = Default THEN P ELSE NoChains]
  BY FocusAssumption DEF Init, Scenes
<1>2. Rooted(scene)
  <2>1. \A x \in AtStart : Line(scene, x) = Line([parent |-> Home], x)
    BY <1>1, LineKept
  <2> QED
    BY <1>1, <2>1, FocusAssumption, SceneAssumption DEF Rooted
<1>3. Good(scene, P) /\ Good(scene, NoChains)
  BY <1>1, FocusAssumption, NoneGood, PavedGood
<1> HIDE DEF P
<1>4. AllGood(scene, chains)
  BY <1>1, <1>3 DEF AllGood, Good
<1>5. TypeOK /\ LinksFollowTree
  <2>1. count \in [Objects -> Int] /\ told \in [Gears -> Sysfocus] /\ changes \in 0..MaxChanges
    BY <1>1, FocusAssumption DEF Sysfocus
  <2>3. severed \in BOOLEAN
    BY <1>1
  <2>2. hidden \in SUBSET Objects
    BY <1>1, FocusAssumption
  <2> QED
    BY <1>1, <1>4, <2>1, <2>2, <2>3, GoodIs
<1>6. ToldOK
  <2>1. \A g \in Gears : chains[g] = NoChains
    BY <1>1, FocusAssumption DEF Ids
  <2> QED
    BY <1>1, <2>1, FocusAssumption DEF ToldOK, IsLive, NoChains
<1> QED
  BY <1>1, <1>2, <1>5, <1>6 DEF IInv, TreeOK, HomeOK

LEMMA StepKept == ASSUME IInv, [Next]_vars PROVE IInv'
<1>1. CASE UNCHANGED vars
  BY <1>1 DEF vars, IInv, TypeOK, LinksFollowTree, TreeOK, HomeOK, ToldOK, IsLive
<1>2. ASSUME NEW g \in Gears, Join(g) \/ Leave(g) \/ GateFocus(g) \/ GateBlur(g)
      PROVE  IInv'
  BY <1>2, JoinKept, LeaveKept, GateFocusKept, GateBlurKept
<1>3. ASSUME NEW g \in Gears, NEW o \in Objects,
             \/ Set(g, o, TRUE, FALSE) \/ Set(g, o, FALSE, FALSE) \/ Set(g, o, TRUE, TRUE)
             \/ Off(g, o) \/ Rem(g, o) \/ \E solo \in BOOLEAN : Add(g, o, solo)
      PROVE  IInv'
  <2>1. ASSUME NEW solo \in BOOLEAN, NEW just, Set(g, o, solo, just) PROVE IInv'
    BY <2>1, SetKept
  <2>2. CASE Set(g, o, TRUE, FALSE) \/ Set(g, o, FALSE, FALSE) \/ Set(g, o, TRUE, TRUE)
    BY <2>1, <2>2
  <2>3. CASE Off(g, o) \/ Rem(g, o) \/ \E solo \in BOOLEAN : Add(g, o, solo)
    BY <2>3, OffKept, RemKept, AddKept
  <2> QED
    BY <1>3, <2>2, <2>3
<1>4. ASSUME NEW o \in Objects, Open(o) \/ Close(o) PROVE IInv'
  BY <1>4, OpenKept, CloseKept
<1>5. ASSUME NEW o \in Objects, NEW q \in Objects, Move(o, q) \/ Replace(o, q) PROVE IInv'
  BY <1>5, MoveKept, ReplaceKept
<1>6. ASSUME NEW v \in Veers, Switch(v) PROVE IInv'
  BY <1>6, SwitchKept
<1> QED
  BY <1>1, <1>2, <1>3, <1>4, <1>5, <1>6 DEF Next

THEOREM Invariant == Spec => []IInv
BY InitKept, StepKept, PTL DEF Spec

(* Type correctness: an object is linked at most once in a chain, only by  *)
(* an object that has one, whatever signals met in it.                     *)
THEOREM TypeCorrect == Spec => []TypeOK
<1>1. IInv => TypeOK
  BY DEF IInv
<1> QED
  BY <1>1, Invariant, PTL

(* A link leads from a parent to its child after any mixture of requests   *)
(* of any number of gears, openings, closings, moves and swaps.            *)
THEOREM LinksCorrect == Spec => []LinksFollowTree
<1>1. IInv => LinksFollowTree
  BY DEF IInv
<1> QED
  BY <1>1, Invariant, PTL

(* What the client was last told of the focus of its gate is what it is,   *)
(* both ways, but where the gate stopped the event it had reported.        *)
THEOREM ToldCorrect == Spec => []ToldIsLive
<1>1. IInv => ToldIsLive
  BY DEF IInv, TypeOK, ToldOK, ToldIsLive
<1> QED
  BY <1>1, Invariant, PTL

----------------------------------------------------------------------------
(* The slots: what is attached where, and which of two applets is hidden.  *)

PlacesOK(w) == \A x \in Objects \ {Gate} :
    w.parent[x] = Home[x] \/ (x \in Movable /\ w.parent[x] \in Places)

HiddenOK(w, h) == /\ h \subseteq Slotted
                  /\ \A v \in Veers : /\ v[1] \in h <=> v[2] \notin h
                                      /\ v[1] \in h => v[1] \in w.alive

\* An applet is in one slot only.
LEMMA SlotIs ==
  ASSUME NEW v \in Veers, NEW u \in Veers, {v[1], v[2]} \cap {u[1], u[2]} # {}
  PROVE  u[1] = v[1] /\ u[2] = v[2] /\ v[1] # v[2]
<1>1. /\ v[1] \in Objects /\ v[2] \in Objects /\ u[1] \in Objects /\ u[2] \in Objects
  BY FocusAssumption
<1>2. /\ Home[v[1]] = Home[v[2]] /\ Home[u[1]] = Home[u[2]]
      /\ \A o \in Objects \ {v[1], v[2]} : Home[o] # Home[v[1]]
      /\ \A o \in Objects \ {u[1], u[2]} : Home[o] # Home[u[1]]
      /\ v[1] # u[2] /\ u[1] # v[2] /\ v[1] # v[2] /\ u[1] # u[2]
  BY SlotAssumption
<1>3. Home[u[1]] = Home[v[1]]
  BY <1>2
<1> QED
  BY <1>1, <1>2, <1>3

LEMMA SlottedIs ==
  ASSUME NEW x \in Slotted
  PROVE  \E v \in Veers : /\ x \in {v[1], v[2]} /\ v[1] \in Objects /\ v[2] \in Objects
                          /\ Home[x] = Home[v[1]] /\ Home[v[2]] = Home[v[1]]
                          /\ Home[x] \notin Places \cup {Gate}
                          /\ \A o \in Objects \ {v[1], v[2]} : Home[o] # Home[x]
                          /\ v[1] \notin Movable \cup {Gate} /\ v[2] \notin Movable \cup {Gate}
<1>1. PICK v \in Veers : x \in {v[1], v[2]}
  BY DEF Slotted
<1>2. v[1] \in Slotted /\ v[2] \in Slotted /\ v[1] \in Objects /\ v[2] \in Objects
  BY FocusAssumption DEF Slotted
<1> QED
  BY <1>1, <1>2, SlotAssumption

LEMMA SeatedIs ==
  ASSUME NEW w, Rooted(w), PlacesOK(w), NEW h, HiddenOK(w, h)
  PROVE  Seated(w, h)
<1>1. w.alive \subseteq Objects
  BY DEF Rooted, Scenes
<1>2. ASSUME NEW x \in w.alive \ {Gate} PROVE w.parent[x] \notin Slotted \cup Relays
  BY <1>1, <1>2, SlotAssumption, SceneAssumption DEF PlacesOK
<1>3. ASSUME NEW x \in w.alive \cap Slotted
      PROVE  x # Gate /\ w.parent[x] # Gate
             /\ (x \notin h => \A y \in w.alive \ {x, Gate} : w.parent[y] = w.parent[x] => y \in h)
  <2>1. PICK v \in Veers : /\ x \in {v[1], v[2]} /\ v[1] \in Objects /\ v[2] \in Objects
                           /\ Home[x] = Home[v[1]] /\ Home[v[2]] = Home[v[1]]
                           /\ Home[x] \notin Places \cup {Gate}
                           /\ \A o \in Objects \ {v[1], v[2]} : Home[o] # Home[x]
                           /\ v[1] \notin Movable \cup {Gate} /\ v[2] \notin Movable \cup {Gate}
    BY SlottedIs
  <2>2. x # Gate /\ x \notin Movable /\ w.parent[x] = Home[x] /\ x \in Objects
    <3>1. x # Gate /\ x \notin Movable
      BY <2>1
    <3>2. x \in Objects
      BY <1>1
    <3> QED
      BY <3>1, <3>2 DEF PlacesOK
  <2>3. ASSUME x \notin h, NEW y \in w.alive \ {x, Gate}, w.parent[y] = w.parent[x] PROVE y \in h
    <3>1. w.parent[y] = Home[y]
      BY <1>1, <2>1, <2>2, <2>3 DEF PlacesOK
    <3>2. y \in {v[1], v[2]}
      BY <1>1, <2>1, <2>2, <2>3, <3>1
    <3>3. v[1] \in h <=> v[2] \notin h
      BY DEF HiddenOK
    <3> QED
      BY <2>1, <2>3, <3>2, <3>3
  <2> QED
    BY <2>1, <2>2, <2>3
<1> QED
  BY <1>2, <1>3 DEF Seated, HiddenOK

LEMMA RestoredHidden ==
  ASSUME NEW w, NEW h, Seated(w, h), HiddenOK(w, h), PlacesOK(w),
         NEW o \in w.alive \ (Slotted \cup {Gate}), NEW u, Pruned(w, Below(w, {o}), u),
         NEW k, Restores(h, Below(w, {o}), k)
  PROVE  HiddenOK(u, k) /\ k \cap u.alive \subseteq h
<1> DEFINE S == Below(w, {o})
           B == {x \in Veers : S \cap {x[1], x[2]} # {}}
           K == {v[2] : v \in B}
<1>1. \A x : x \in S <=> x \in w.alive /\ o \in Line(w, x)
  <2>1. \A x : x \in S <=> x \in w.alive /\ \E s \in {o} : s \in Line(w, x)
    BY BelowIs
  <2> QED
    BY <2>1
<1>2. k = (h \ S) \cup K /\ u.alive = w.alive \ S
  BY DEF Pruned, Restores
<1>3. \A x : x \in K <=> \E v \in Veers : x = v[2] /\ (v[1] \in S \/ v[2] \in S)
  OBVIOUS
<1> HIDE DEF S, B, K
<1>4. ASSUME NEW v \in Veers
      PROVE  /\ v[1] \in Slotted /\ v[2] \in Slotted /\ v[1] # v[2]
             /\ v[1] \notin K
             /\ v[2] \in K <=> v[1] \in S \/ v[2] \in S
             /\ v[1] \in w.alive /\ v[2] \in w.alive => (v[1] \in S <=> v[2] \in S)
             /\ v[1] \in h <=> v[2] \notin h
             /\ v[1] \in h => v[1] \in w.alive
  <2>1. v[1] \in Slotted /\ v[2] \in Slotted /\ v[1] \in Objects /\ v[2] \in Objects
    BY FocusAssumption DEF Slotted
  <2>2. v[1] # v[2] /\ v[1] \notin K
    BY <1>3, SlotAssumption
  <2>3. v[2] \in K <=> v[1] \in S \/ v[2] \in S
    <3>1. ASSUME NEW y \in Veers, v[2] = y[2] PROVE y[1] = v[1]
      BY <3>1, SlotIs
    <3> QED
      BY <1>3, <3>1
  <2>4. v[1] \in w.alive /\ v[2] \in w.alive => (v[1] \in S <=> v[2] \in S)
    <3>1. /\ Home[v[1]] = Home[v[2]] /\ v[1] \notin Movable \cup {Gate}
          /\ v[2] \notin Movable \cup {Gate}
      BY <2>1, SlotAssumption
    <3>2. w.parent[v[1]] = w.parent[v[2]]
      BY <2>1, <3>1 DEF PlacesOK
    <3>3. /\ Line(w, v[1]) = {v[1]} \cup Line(w, w.parent[v[1]])
          /\ Line(w, v[2]) = {v[2]} \cup Line(w, w.parent[v[2]])
      BY <2>1, <3>1, LineStep
    <3> QED
      BY <1>1, <2>1, <3>2, <3>3
  <2>5. (v[1] \in h <=> v[2] \notin h) /\ (v[1] \in h => v[1] \in w.alive)
    BY DEF HiddenOK
  <2> QED
    BY <2>1, <2>2, <2>3, <2>4, <2>5
<1>5. ASSUME NEW v \in Veers
      PROVE  (v[1] \in k <=> v[2] \notin k) /\ (v[1] \in k => v[1] \in u.alive)
  <2>1. S \subseteq w.alive
    BY <1>1
  <2> QED
    BY <1>2, <1>4, <2>1
<1>6. k \subseteq Slotted
  BY <1>2, <1>3, <1>4 DEF HiddenOK
<1>7. k \cap u.alive \subseteq h
  <2> SUFFICES ASSUME NEW x \in k, x \in w.alive, x \notin S, x \notin h PROVE FALSE
    BY <1>2
  <2>1. PICK v \in Veers : x = v[2] /\ (v[1] \in S \/ v[2] \in S)
    BY <1>2, <1>3
  <2> QED
    BY <1>1, <1>4, <2>1
<1> QED
  BY <1>5, <1>6, <1>7 DEF HiddenOK

LEMMA SwitchHidden ==
  ASSUME NEW w, NEW h, HiddenOK(w, h), NEW v \in Veers,
         NEW prev \in {v[1], v[2]}, NEW next \in {v[1], v[2]},
         prev \in w.alive \ h, next \in w.alive \cap h, NEW k, k = (h \ {next}) \cup {prev}
  PROVE  HiddenOK(w, k)
<1>1. ASSUME NEW y \in Veers
      PROVE  (y[1] \in k <=> y[2] \notin k) /\ (y[1] \in k => y[1] \in w.alive)
  <2>1. (y[1] \in h <=> y[2] \notin h) /\ (y[1] \in h => y[1] \in w.alive)
    BY DEF HiddenOK
  <2>2. CASE {v[1], v[2]} \cap {y[1], y[2]} = {}
    BY <2>1, <2>2
  <2>3. CASE {v[1], v[2]} \cap {y[1], y[2]} # {}
    BY <2>1, <2>3, SlotIs
  <2> QED
    BY <2>2, <2>3
<1>2. k \subseteq Slotted
  BY DEF HiddenOK, Slotted
<1> QED
  BY <1>1, <1>2 DEF HiddenOK

----------------------------------------------------------------------------
(* The invariant: every gear's tree is in one piece, and counted once.     *)

Counts(c, n) == \A o \in Objects : n[o] = Cardinality(WhoIsLive(c, o))

AllWhole(w, h, c) == /\ Half(w, h, c[Default])
                     /\ \A g \in Gears : Whole(w, h, c[g])

WholeInv == /\ PlacesOK(scene) /\ HiddenOK(scene, hidden)
            /\ AllWhole(scene, hidden, chains)
            /\ Counts(chains, count)

\* A change from or to live is counted once, if nothing was set anew.
LEMMA CountedIs ==
  ASSUME NEW c, NEW n, Counts(c, n), NEW G, NEW F, \A g \in G \cap Gears : F[g].twice = {}
  PROVE  Counts(Merged(c, G, F), Counted(n, c, G, F))
<1> DEFINE m == Merged(c, G, F)
<1>1. ASSUME NEW o \in Objects
      PROVE  Counted(n, c, G, F)[o] = Cardinality(WhoIsLive(m, o))
  <2> DEFINE A == WhoIsLive(c, o)
             B == WhoIsLive(m, o)
             T == {g \in G \cap Gears : o \in F[g].twice}
  <2>1. T = {}
    OBVIOUS
  <2>2. Counted(n, c, G, F)[o] = n[o] + Cardinality(B \ A) - Cardinality(A \ B) + Cardinality(T)
    BY DEF Counted
  <2>3. A \subseteq Gears /\ B \subseteq Gears
    BY DEF WhoIsLive
  <2>4. n[o] = Cardinality(A)
    BY DEF Counts
  <2> HIDE DEF A, B, T, m
  <2>5. IsFiniteSet(A) /\ IsFiniteSet(B)
    BY <2>3, FS_Subset, FocusAssumption
  <2>6. /\ Cardinality(A \ B) = Cardinality(A) - Cardinality(A \cap B)
        /\ Cardinality(B \ A) = Cardinality(B) - Cardinality(B \cap A)
    BY <2>5, FS_Difference
  <2>7. A \cap B = B \cap A /\ IsFiniteSet(A \cap B) /\ Cardinality(T) = 0
    BY <2>1, <2>5, FS_Intersection, FS_EmptySet
  <2>8. /\ Cardinality(A) \in Nat /\ Cardinality(B) \in Nat /\ Cardinality(A \cap B) \in Nat
    BY <2>5, <2>7, FS_CardinalityType
  <2>9. Counted(n, c, G, F)[o] = Cardinality(B)
    <3> DEFINE a == Cardinality(A)
               b == Cardinality(B)
               e == Cardinality(A \cap B)
    <3>1. a \in Nat /\ b \in Nat /\ e \in Nat
      BY <2>8
    <3>2. Counted(n, c, G, F)[o] = a + (b - e) - (a - e) + 0
      BY <2>2, <2>4, <2>6, <2>7
    <3> HIDE DEF a, b, e
    <3>3. Counted(n, c, G, F)[o] = b
      BY <3>1, <3>2
    <3> QED
      BY <3>3 DEF b
  <2> QED
    BY <2>9 DEF B
<1> QED
  BY <1>1 DEF Counts

LEMMA ZeroedIs ==
  ASSUME NEW c, NEW n, Counts(c, n), NEW S, BuriedTo(c, S), Gears \subseteq Ids
  PROVE  Counts(Buried(c, S), Zeroed(n, S))
<1>1. ASSUME NEW o \in Objects
      PROVE  Zeroed(n, S)[o] = Cardinality(WhoIsLive(Buried(c, S), o))
  <2>1. \A g \in Gears : Buried(c, S)[g].state[o] = IF o \in S THEN "none" ELSE c[g].state[o]
    BY DEF BuriedTo
  <2>2. Zeroed(n, S)[o] = IF o \in S THEN 0 ELSE n[o]
    BY DEF Zeroed
  <2>3. CASE o \in S
    <3>1. WhoIsLive(Buried(c, S), o) = {}
      BY <2>1, <2>3 DEF WhoIsLive
    <3> QED
      BY <2>2, <2>3, <3>1, FS_EmptySet
  <2>4. CASE o \notin S
    <3>1. WhoIsLive(Buried(c, S), o) = WhoIsLive(c, o)
      BY <2>1, <2>4 DEF WhoIsLive
    <3> QED
      BY <2>2, <2>4, <3>1 DEF Counts
  <2> QED
    BY <2>3, <2>4
<1> QED
  BY <1>1 DEF Counts

\* What is said of a work is said of the chains it leaves.
LEMMA SameWhole ==
  ASSUME NEW w, NEW h, NEW f, NEW c, f.state = c.state, f.link = c.link
  PROVE  /\ Half(w, h, f) <=> Half(w, h, c)
         /\ Whole(w, h, f) <=> Whole(w, h, c)
<1>1. \A x : Live(f, x) <=> Live(c, x)
  BY DEF Live
<1>2. \A y : Named(f, y) <=> Named(c, y)
  BY DEF Named
<1>3. Half(w, h, f) <=> Half(w, h, c)
  BY <1>1 DEF Half, Sourced, Answered, Known, Shows, Exists
<1>4. Arrives(w, f, {}) <=> Arrives(w, c, {})
  BY <1>1 DEF Arrives
<1>5. Strung(w, f) <=> Strung(w, c)
  BY <1>1, <1>2 DEF Strung
<1> QED
  BY <1>3, <1>4, <1>5 DEF Whole

\* What a request finds of the chains of its gear, and of the default ones.
Found(w, h, f, d) ==
    /\ Seated(w, h) /\ Fit(w, f) /\ Bare(f) = {} /\ Whole(w, h, f) /\ f.twice = {}
    /\ Sound(w, d) /\ Half(w, h, d)

LEMMA WholeFinds ==
  ASSUME IInv, WholeInv
  PROVE  /\ Seated(scene, hidden)
         /\ \A g \in Gears : Found(scene, hidden, Work(chains[g]), chains[Default])
         /\ \A o \in Shown : o \in scene.alive /\ Line(scene, o) \cap hidden = {} /\ o \notin hidden
<1>1. Seated(scene, hidden)
  BY SeatedIs DEF IInv, TreeOK, WholeInv
<1>2. /\ AllGood(scene, chains) /\ Default \in Ids /\ Gears \subseteq Ids
      /\ Half(scene, hidden, chains[Default]) /\ \A g \in Gears : Whole(scene, hidden, chains[g])
  BY GoodIs DEF IInv, WholeInv, AllWhole, Ids
<1>3. ASSUME NEW g \in Gears PROVE Found(scene, hidden, Work(chains[g]), chains[Default])
  <2> DEFINE c == chains[g]
             d == chains[Default]
  <2>1. Good(scene, c) /\ Good(scene, d) /\ Whole(scene, hidden, c) /\ Half(scene, hidden, d)
    BY <1>2 DEF AllGood
  <2> HIDE DEF c, d
  <2>2. /\ Fit(scene, Work(c)) /\ Bare(Work(c)) = {} /\ Sound(scene, d)
        /\ Work(c).state = c.state /\ Work(c).link = c.link /\ Work(c).twice = {}
    BY <2>1, WorkGood
  <2>3. Whole(scene, hidden, Work(c))
    BY <2>1, <2>2, SameWhole
  <2>4. Found(scene, hidden, Work(c), d)
    BY <1>1, <2>1, <2>2, <2>3 DEF Found
  <2> QED
    BY <2>4 DEF c, d
<1>4. ASSUME NEW o \in Shown
      PROVE  o \in scene.alive /\ Line(scene, o) \cap hidden = {} /\ o \notin hidden
  <2>1. o \in scene.alive /\ o \notin Below(scene, hidden)
    BY DEF Shown
  <2>2. o \in Below(scene, hidden) <=>
            o \in scene.alive /\ \E s \in hidden : s \in Line(scene, o)
    BY BelowIs
  <2> QED
    BY <2>1, <2>2, LineSelf
<1> QED
  BY <1>1, <1>3, <1>4

\* A request for one gear.
LEMMA OneWhole ==
  ASSUME IInv, WholeInv, NEW g \in Gears, NEW f, Kept(scene, hidden, Work(chains[g]), f),
         ApplyOne(g, f), scene' = scene, hidden' = hidden
  PROVE  WholeInv'
<1> DEFINE F == [x \in {g} |-> f]
<1>1. chains' = Merged(chains, {g}, F) /\ count' = Counted(count, chains, {g}, F)
  BY DEF ApplyOne, Apply
<1>2. Found(scene, hidden, Work(chains[g]), chains[Default])
  BY WholeFinds
<1>3. F[g] = f /\ f.twice = {}
  BY <1>2 DEF Kept, Found
<1>4. /\ AllWhole(scene, hidden, chains) /\ Counts(chains, count)
      /\ PlacesOK(scene) /\ HiddenOK(scene, hidden)
  BY DEF WholeInv
<1>5. g \in Ids /\ Gears \subseteq Ids /\ Default \in Ids /\ g # Default
  BY FocusAssumption DEF Ids
<1>6. \A x \in {g} \cap Gears : F[x].twice = {}
  BY <1>3
<1> HIDE DEF F
<1>7. Counts(chains', count')
  BY <1>1, <1>4, <1>6, CountedIs
<1>8. chains'[g] = Done(f) /\ \A x \in Ids : x # g => chains'[x] = chains[x]
  BY <1>1, <1>3, <1>5, OthersKept
<1>9. Whole(scene, hidden, Done(f))
  <2>1. Fit(scene, f) /\ Bare(f) = {} /\ Whole(scene, hidden, f)
    BY DEF Kept
  <2>2. Done(f).state = f.state /\ Done(f).link = f.link
    BY <2>1, DoneGood
  <2> QED
    BY <2>1, <2>2, SameWhole
<1>10. AllWhole(scene, hidden, chains')
  BY <1>4, <1>5, <1>8, <1>9 DEF AllWhole
<1> QED
  BY <1>4, <1>7, <1>10 DEF WholeInv

LEMMA FocusKeeps ==
  ASSUME NEW w, NEW h, NEW g, NEW f, NEW d, Found(w, h, f, d), NEW o \in w.alive,
         Line(w, o) \cap h = {}, NEW solo \in BOOLEAN, NEW just
  PROVE  Kept(w, h, f, Focus(w, g, f, d, o, solo, just))
<1> DEFINE A == Focus(w, g, f, d, o, solo, just)
<1>1. /\ Seated(w, h) /\ Fit(w, f) /\ Bare(f) = {} /\ Whole(w, h, f) /\ Half(w, h, f)
      /\ Sound(w, d) /\ Half(w, h, d)
  BY DEF Found, Whole
<1>2. Focuses(w, h, f, o, A)
  BY <1>1, FocusWhole
<1> HIDE DEF A
<1>3. Kept(w, h, f, A)
  BY <1>1, <1>2 DEF Focuses, Kept
<1> QED
  BY <1>3 DEF A

LEMMA NoneWhole ==
  ASSUME NEW w, NEW h, Seated(w, h) PROVE Whole(w, h, NoChains)
<1>1. /\ NoChains.link = {} /\ \A x \in Objects : NoChains.state[x] = "none"
      /\ w.alive \subseteq Objects
  BY DEF NoChains, Seated, Rooted, Scenes
<1>2. Half(w, h, NoChains)
  BY <1>1 DEF Half, Sourced, Answered, Known, Shows, Exists
<1>3. Arrives(w, NoChains, {}) /\ Strung(w, NoChains)
  BY <1>1 DEF Arrives, Strung, Live
<1> QED
  BY <1>2, <1>3 DEF Whole

LEMMA LeaveWholeInv ==
  ASSUME IInv, WholeInv, NEW g \in Gears, Leave(g) PROVE WholeInv'
<1> DEFINE d == chains[Default]
           c == chains[g]
<1>1. /\ Seated(scene, hidden) /\ AllWhole(scene, hidden, chains) /\ Counts(chains, count)
      /\ PlacesOK(scene) /\ HiddenOK(scene, hidden)
  BY WholeFinds DEF WholeInv
<1>2. /\ g \in Ids /\ Default \in Ids /\ g # Default /\ Gears \subseteq Ids
      /\ chains \in [Ids -> Chains] /\ Good(scene, d) /\ Good(scene, c)
      /\ IsFiniteSet(Gears) /\ Default \notin Gears
  BY FocusAssumption, GoodIs DEF IInv, Ids, AllGood
<1>3. /\ scene' = scene /\ hidden' = hidden
      /\ chains' = [chains EXCEPT ![Default] = Inherit(d, c), ![g] = NoChains]
      /\ count' = [o \in Objects |-> IF c.state[o] = "live" THEN count[o] - 1 ELSE count[o]]
  BY DEF Leave
<1>4. Whole(scene, hidden, c) /\ Half(scene, hidden, d)
  BY <1>1 DEF AllWhole
<1> HIDE DEF c, d
<1>5. Half(scene, hidden, Inherit(d, c))
  BY <1>1, <1>2, <1>4, InheritHalf
<1>6. /\ chains'[g] = NoChains /\ chains'[Default] = Inherit(d, c)
      /\ \A x \in Gears \ {g} : chains'[x] = chains[x]
  BY <1>2, <1>3
<1>7. AllWhole(scene, hidden, chains')
  BY <1>1, <1>5, <1>6, NoneWhole DEF AllWhole
<1>8. ASSUME NEW o \in Objects PROVE count'[o] = Cardinality(WhoIsLive(chains', o))
  <2> DEFINE B == WhoIsLive(chains, o)
  <2>1. WhoIsLive(chains', o) = B \ {g} /\ B \subseteq Gears
    BY <1>6 DEF WhoIsLive, NoChains
  <2>2. g \in B <=> c.state[o] = "live"
    BY DEF WhoIsLive, c
  <2>3. count[o] = Cardinality(B)
    BY <1>1 DEF Counts
  <2>4. count'[o] = IF c.state[o] = "live" THEN count[o] - 1 ELSE count[o]
    BY <1>3
  <2> HIDE DEF B
  <2>5. IsFiniteSet(B)
    BY <1>2, <2>1, FS_Subset
  <2>6. CASE g \in B
    <3>1. Cardinality(B \ {g}) = Cardinality(B) - 1
      BY <2>5, <2>6, FS_RemoveElement
    <3> QED
      BY <2>1, <2>2, <2>3, <2>4, <2>6, <3>1
  <2>7. CASE g \notin B
    <3>1. B \ {g} = B
      BY <2>7
    <3> QED
      BY <2>1, <2>2, <2>3, <2>4, <2>7, <3>1
  <2> QED
    BY <2>6, <2>7
<1> QED
  BY <1>1, <1>3, <1>7, <1>8 DEF WholeInv, Counts

LEMMA GateWholeInv ==
  ASSUME IInv, WholeInv, NEW g \in Gears, GateFocus(g) \/ GateBlur(g) PROVE WholeInv'
<1> DEFINE f == Work(chains[g])
           d == chains[Default]
<1>1. Found(scene, hidden, f, d)
  BY WholeFinds
<1>2. scene' = scene /\ hidden' = hidden
  BY DEF GateFocus, GateBlur
<1>3. CASE GateFocus(g)
  <2> DEFINE A == Activate(scene, g, f, d, Gate, TRUE)
  <2>1. ApplyOne(g, A)
    BY <1>3 DEF GateFocus
  <2> HIDE DEF d
  <2>2. Kept(scene, hidden, f, A)
    <3> HIDE DEF f
    <3>1. ASSUME NEW first PROVE Kept(scene, hidden, f, Activate(scene, g, f, d, Gate, first))
      BY <1>1, GateFocusWhole DEF Found
    <3> QED
      BY <3>1
  <2> HIDE DEF A
  <2> QED
    BY <1>2, <2>1, <2>2, OneWhole
<1>4. CASE GateBlur(g)
  <2> DEFINE A == Release(scene, f, {Gate})
  <2>1. ApplyOne(g, A)
    BY <1>4 DEF GateBlur
  <2>2. Kept(scene, hidden, f, A)
    <3> HIDE DEF f, d
    <3> QED
      BY <1>1, GateBlurWhole DEF Found
  <2> HIDE DEF A
  <2> QED
    BY <1>2, <2>1, <2>2, OneWhole
<1> QED
  BY <1>3, <1>4

LEMMA SetWholeInv ==
  ASSUME IInv, WholeInv, NEW g \in Gears, NEW o, NEW solo \in BOOLEAN, NEW just,
         Set(g, o, solo, just)
  PROVE  WholeInv'
<1> DEFINE f == Work(chains[g])
           d == chains[Default]
           A == Focus(scene, g, f, d, o, solo, just)
<1>1. Found(scene, hidden, f, d) /\ o \in scene.alive /\ Line(scene, o) \cap hidden = {}
  BY WholeFinds DEF Set
<1>2. scene' = scene /\ hidden' = hidden /\ ApplyOne(g, A)
  BY DEF Set
<1> HIDE DEF d
<1>3. Kept(scene, hidden, f, A)
  <2> HIDE DEF f
  <2> QED
    BY <1>1, FocusKeeps
<1> HIDE DEF A
<1> QED
  BY <1>2, <1>3, OneWhole

LEMMA OffWholeInv ==
  ASSUME IInv, WholeInv, NEW g \in Gears, NEW o, Off(g, o) PROVE WholeInv'
<1> DEFINE f == Work(chains[g])
           d == chains[Default]
           A == Unfocus(scene, f, o)
<1>1. Found(scene, hidden, f, d) /\ o \in scene.alive \ {Gate} /\ o \notin hidden
  BY WholeFinds DEF Off
<1>2. scene' = scene /\ hidden' = hidden /\ ApplyOne(g, A) /\ f.state[o] = "live"
  BY DEF Off, Work
<1>3. Kept(scene, hidden, f, A)
  <2> HIDE DEF f, d
  <2> QED
    BY <1>1, <1>2, UnfocusWhole DEF Found
<1> HIDE DEF A
<1> QED
  BY <1>2, <1>3, OneWhole

LEMMA AddWholeInv ==
  ASSUME IInv, WholeInv, NEW g \in Gears, NEW o, NEW solo \in BOOLEAN, Add(g, o, solo)
  PROVE  WholeInv'
<1> DEFINE f == Work(chains[g])
           d == chains[Default]
           A == Raise(scene, g, Notify(f, {o}, "live"), o, solo)
<1>1. Found(scene, hidden, f, d) /\ o \in scene.alive /\ Line(scene, o) \cap hidden = {}
  BY WholeFinds DEF Add
<1>2. scene' = scene /\ hidden' = hidden /\ ApplyOne(g, A)
  BY DEF Add
<1>3. Kept(scene, hidden, f, A)
  <2> HIDE DEF f, d
  <2> QED
    BY <1>1, AddWhole DEF Found
<1> HIDE DEF A
<1> QED
  BY <1>2, <1>3, OneWhole

LEMMA RemWholeInv ==
  ASSUME IInv, WholeInv, NEW g \in Gears, NEW o, Rem(g, o) PROVE WholeInv'
<1> DEFINE f == Work(chains[g])
           d == chains[Default]
           N == Notify(f, {o}, "idle")
           A == IF f.state[o] = "live" THEN Lower(scene, N, o) ELSE N
<1>1. /\ Found(scene, hidden, f, d) /\ o \in scene.alive \ {Gate} /\ o \in Relays
      /\ o \notin hidden
  BY WholeFinds, SceneAssumption DEF Rem
<1>2. scene' = scene /\ hidden' = hidden /\ ApplyOne(g, A)
  <2>1. f.state = chains[g].state
    BY DEF Work
  <2> QED
    BY <2>1 DEF Rem
<1>3. Kept(scene, hidden, f, A)
  <2> HIDE DEF f, d
  <2> QED
    BY <1>1, RemWhole DEF Found
<1> HIDE DEF A
<1> QED
  BY <1>2, <1>3, OneWhole

\* Default focus, at an object that is not hidden.
LEMMA PavedHalf ==
  ASSUME NEW w, NEW h, Seated(w, h), NEW d, Good(w, d), Half(w, h, d), NEW o \in w.alive,
         o \notin h
  PROVE  Half(w, h, Paved(w, d, o))
<1> DEFINE f == Work(d)
<1>1. /\ Fit(w, f) /\ Bare(f) = {} /\ Sound(w, d) /\ f.state = d.state /\ f.link = d.link
  BY WorkGood
<1> HIDE DEF f
<1>2. Half(w, h, f)
  BY <1>1, SameWhole
<1>3. Line(w, o) \cap h = {}
  BY Inner, SMTT(30) DEF Seated
<1> DEFINE g == Default
<1>4. g = Default
  OBVIOUS
<1> HIDE DEF g
<1>5. ASSUME NEW solo \in BOOLEAN, NEW just
      PROVE  Half(w, h, Done(Focus(w, g, f, d, o, solo, just)))
  <2> DEFINE A == Focus(w, g, f, d, o, solo, just)
  <2>1. Focuses(w, h, f, o, A)
    BY <1>1, <1>2, <1>3, <1>4, FocusWhole
  <2> HIDE DEF A
  <2>2. Fit(w, A) /\ Bare(A) = {} /\ Half(w, h, A)
    BY <2>1 DEF Focuses
  <2>3. Done(A).state = A.state /\ Done(A).link = A.link
    BY <2>2, DoneGood
  <2>4. Half(w, h, Done(A))
    BY <2>2, <2>3, SameWhole
  <2> QED
    BY <2>4 DEF A
<1>6. Half(w, h, Done(Focus(w, g, f, d, o, TRUE, FALSE)))
  BY <1>5
<1> QED
  BY <1>6 DEF Paved, f, g

LEMMA InitWholeInv == ASSUME Init PROVE WholeInv
<1> DEFINE P == Paved(scene, NoChains, First)
<1>1. /\ scene.alive = AtStart /\ scene.parent = Home
      /\ count = [o \in Objects |-> 0] /\ hidden = {v[2] : v \in Veers}
      /\ chains = [g \in Ids |-> IF g = Default THEN P ELSE NoChains]
  BY DEF Init
<1>2. Rooted(scene)
  BY InitKept DEF IInv, TreeOK
<1>3. PlacesOK(scene)
  BY <1>1 DEF PlacesOK
<1>4. HiddenOK(scene, hidden)
  BY <1>1, SlotAssumption DEF HiddenOK, Slotted
<1>5. Seated(scene, hidden)
  BY <1>2, <1>3, <1>4, SeatedIs
<1>6. First \in scene.alive /\ First \notin hidden
  BY <1>1, FocusAssumption, SlotAssumption
<1>7. Whole(scene, hidden, NoChains) /\ Half(scene, hidden, NoChains)
  BY <1>5, NoneWhole DEF Whole
<1>8. Half(scene, hidden, P)
  BY <1>5, <1>6, <1>7, NoneGood, PavedHalf
<1> HIDE DEF P
<1>9. AllWhole(scene, hidden, chains)
  BY <1>1, <1>7, <1>8, FocusAssumption DEF AllWhole, Ids
<1>10. ASSUME NEW o \in Objects PROVE count[o] = Cardinality(WhoIsLive(chains, o))
  <2>1. \A g \in Gears : chains[g] = NoChains
    BY <1>1, FocusAssumption DEF Ids
  <2>2. NoChains.state[o] = "none"
    BY DEF NoChains
  <2>3. WhoIsLive(chains, o) = {}
    BY <2>1, <2>2 DEF WhoIsLive
  <2> QED
    BY <1>1, <2>3, FS_EmptySet
<1> QED
  BY <1>3, <1>4, <1>9, <1>10 DEF WholeInv, Counts

LEMMA OpenWholeInv ==
  ASSUME IInv, WholeInv, NEW o \in Objects, Open(o) PROVE WholeInv'
<1> DEFINE w == scene
           h == hidden
           u == [w EXCEPT !.alive = @ \cup {o}, !.parent[o] = Home[o]]
           d == chains[Default]
<1>1. /\ Seated(w, h) /\ AllWhole(w, h, chains) /\ Counts(chains, count)
      /\ PlacesOK(w) /\ HiddenOK(w, h) /\ Rooted(w)
  BY WholeFinds DEF WholeInv, IInv, TreeOK
<1>2. /\ chains \in [Ids -> Chains] /\ \A g \in Ids : Good(w, chains[g])
      /\ Gears \subseteq Ids /\ Default \in Ids /\ Default \notin Gears
  BY FocusAssumption, GoodIs DEF IInv, AllGood, Ids
<1>3. /\ o \notin w.alive /\ Home[o] \in w.alive
      /\ \A g \in Ids : o \notin {r[2] : r \in chains[g].link}
      /\ scene' = u /\ hidden' = h /\ count' = count
      /\ chains' = IF o \in Defaults THEN [chains EXCEPT ![Default] = Paved(u, @, o)] ELSE chains
  BY DEF Open
<1>4. Rooted(u)
  BY <1>1, <1>3, OpenTree
<1>5. /\ u.alive = w.alive \cup {o} /\ u.parent[o] = Home[o]
      /\ \A x \in Objects : x # o => u.parent[x] = w.parent[x]
  BY <1>1 DEF Rooted, Scenes
<1> HIDE DEF u
<1>6. PlacesOK(u)
  BY <1>1, <1>5 DEF PlacesOK
<1>7. HiddenOK(u, h)
  BY <1>1, <1>5 DEF HiddenOK
<1>8. Seated(u, h)
  BY <1>4, <1>6, <1>7, SeatedIs
<1>9. ASSUME NEW g \in Ids, Half(w, h, chains[g])
      PROVE  /\ Half(u, h, chains[g]) /\ Good(u, chains[g])
             /\ Whole(w, h, chains[g]) => Whole(u, h, chains[g])
  <2> DEFINE c == chains[g]
  <2>1. /\ \A r \in c.link : r[2] # o /\ r[2] \in Objects
        /\ Half(w, h, c) /\ Good(w, c)
    BY <1>2, <1>3, <1>9 DEF Good, Chains, Links
  <2> HIDE DEF c
  <2>2. Half(u, h, c) /\ (Whole(w, h, c) => Whole(u, h, c))
    BY <1>1, <1>3, <1>5, <2>1, OpenedWhole
  <2>3. Good(u, c)
    BY <1>5, <2>1 DEF Good, Follows
  <2> QED
    BY <2>2, <2>3 DEF c
<1>10. /\ Half(u, h, d) /\ Good(u, d) /\ \A g \in Gears : Whole(u, h, chains[g])
  BY <1>1, <1>2, <1>9 DEF AllWhole, Whole
<1> HIDE DEF d
<1>11. ASSUME o \in Defaults PROVE Half(u, h, Paved(u, d, o))
  <2>1. o \notin h
    <3>1. \A v \in Veers : v[1] # o \/ v[1] \notin h
      BY <1>1, <1>3 DEF HiddenOK
    <3>2. \A v \in Veers : v[2] # o
      BY <1>11, SlotAssumption
    <3> QED
      BY <1>1, <3>1, <3>2 DEF HiddenOK, Slotted
  <2> QED
    BY <1>5, <1>8, <1>10, <2>1, PavedHalf
<1>12. /\ Half(u, h, chains'[Default]) /\ \A g \in Gears : chains'[g] = chains[g]
  <2>1. CASE o \in Defaults
    <3>1. chains'[Default] = Paved(u, d, o) /\ \A g \in Gears : chains'[g] = chains[g]
      BY <1>2, <1>3, <2>1 DEF d
    <3> QED
      BY <1>11, <2>1, <3>1
  <2>2. CASE o \notin Defaults
    BY <1>3, <1>10, <2>2 DEF d
  <2> QED
    BY <2>1, <2>2
<1>13. AllWhole(u, h, chains')
  BY <1>10, <1>12 DEF AllWhole
<1>14. Counts(chains', count')
  BY <1>1, <1>3, <1>12 DEF Counts, WhoIsLive
<1> QED
  BY <1>3, <1>6, <1>7, <1>13, <1>14 DEF WholeInv

LEMMA BuriedAllWhole ==
  ASSUME NEW w, NEW h, Seated(w, h), NEW c, AllGood(w, c), AllWhole(w, h, c),
         NEW o \in w.alive \ {Gate}, NEW u, Pruned(w, Below(w, {o}), u),
         NEW k, k \cap u.alive \subseteq h
  PROVE  AllWhole(u, k, Buried(c, Below(w, {o})))
<1> DEFINE S == Below(w, {o})
<1>1. Gears \subseteq Ids /\ Default \in Ids
  BY DEF Ids
<1>2. BuriedTo(c, S)
  BY BuriedGood
<1>3. ASSUME NEW g \in Ids, Half(w, h, c[g])
      PROVE  /\ Half(u, k, Buried(c, S)[g])
             /\ Whole(w, h, c[g]) => Whole(u, k, Buried(c, S)[g])
  <2> DEFINE f == c[g]
             b == Buried(c, S)[g]
  <2>1. Buries(f, S, b)
    BY <1>2 DEF BuriedTo, Buries
  <2>2. Good(w, f) /\ Half(w, h, f)
    BY <1>3 DEF AllGood
  <2> HIDE DEF f, b
  <2>3. Fit(w, Work(f)) /\ Work(f).state = f.state /\ Work(f).link = f.link
    BY <2>2, WorkGood
  <2> DEFINE e == Work(f)
  <2> HIDE DEF e
  <2>4. /\ Buries(e, S, b) /\ Fit(w, e) /\ Half(w, h, e)
        /\ Whole(w, h, f) => Whole(w, h, e)
    BY <2>1, <2>2, <2>3, SameWhole DEF e, Buries
  <2>5. Half(u, k, b) /\ (Whole(w, h, e) => Whole(u, k, b))
    BY <2>4, BuriedWhole
  <2> QED
    BY <2>4, <2>5 DEF f, b
<1> QED
  BY <1>1, <1>3 DEF AllWhole, Whole

LEMMA CloseWholeInv ==
  ASSUME IInv, WholeInv, NEW o \in Objects, Close(o) PROVE WholeInv'
<1> DEFINE w == scene
           S == Below(w, {o})
           u == [w EXCEPT !.alive = @ \ S]
           k == Restored(S)
<1>1. /\ Seated(w, hidden) /\ AllWhole(w, hidden, chains) /\ Counts(chains, count)
      /\ PlacesOK(w) /\ HiddenOK(w, hidden) /\ AllGood(w, chains) /\ Gears \subseteq Ids
  BY WholeFinds, GoodIs DEF WholeInv, IInv, Ids
<1>2. /\ o \in w.alive \ {Gate} /\ scene' = u /\ chains' = Buried(chains, S)
      /\ count' = Zeroed(count, S) /\ hidden' = k /\ \A v \in Veers : o \notin {v[1], v[2]}
  BY DEF Close
<1>3. o \in w.alive \ (Slotted \cup {Gate})
  BY <1>2 DEF Slotted
<1>4. Pruned(w, S, u)
  BY <1>1 DEF Pruned, Seated, Rooted, Scenes
<1>5. Restores(hidden, S, k)
  BY DEF Restored, Restores
<1> HIDE DEF k, u
<1>6. HiddenOK(u, k) /\ k \cap u.alive \subseteq hidden
  BY <1>1, <1>3, <1>4, <1>5, RestoredHidden
<1>7. AllWhole(u, k, Buried(chains, S))
  BY <1>1, <1>2, <1>4, <1>6, BuriedAllWhole
<1>8. Counts(Buried(chains, S), Zeroed(count, S))
  BY <1>1, <1>4, BuriedGood, ZeroedIs
<1>9. PlacesOK(u)
  BY <1>1, <1>4 DEF PlacesOK, Pruned
<1> QED
  BY <1>2, <1>6, <1>7, <1>8, <1>9 DEF WholeInv

\* What a change of the tree makes of the chains of all gears.
Worked(w, h, F) ==
    /\ \A g \in Ids : Fit(w, F[g]) /\ Bare(F[g]) = {}
    /\ Half(w, h, F[Default])
    /\ \A g \in Gears : Whole(w, h, F[g]) /\ F[g].twice = {}

LEMMA WorkedAll ==
  ASSUME NEW w, NEW h, NEW F, Worked(w, h, F), NEW c, NEW n, Counts(c, n)
  PROVE  /\ AllGood(w, Merged(c, Ids, F)) /\ AllWhole(w, h, Merged(c, Ids, F))
         /\ Counts(Merged(c, Ids, F), Counted(n, c, Ids, F))
<1> DEFINE m == Merged(c, Ids, F)
<1>1. m = [g \in Ids |-> Done(F[g])] /\ Gears \subseteq Ids /\ Default \in Ids
  BY DEF Merged, Ids
<1>2. Counts(m, Counted(n, c, Ids, F))
  BY CountedIs DEF Worked
<1> HIDE DEF m
<1>3. \A g \in Ids : Good(w, Done(F[g])) /\ Done(F[g]).state = F[g].state
                     /\ Done(F[g]).link = F[g].link
  BY DoneGood DEF Worked
<1>4. AllGood(w, m)
  BY <1>1, <1>3 DEF AllGood, Good
<1>5. Half(w, h, Done(F[Default])) /\ \A g \in Gears : Whole(w, h, Done(F[g]))
  BY <1>1, <1>3, SameWhole DEF Worked
<1>6. AllWhole(w, h, m)
  BY <1>1, <1>5 DEF AllWhole
<1> QED
  BY <1>2, <1>4, <1>6 DEF m

LEMMA SwitchWholeInv ==
  ASSUME IInv, WholeInv, NEW v \in Veers, Switch(v) PROVE WholeInv'
<1>1. PICK prev \in {v[1], v[2]}, next \in {v[1], v[2]} :
        LET p == scene.parent[prev]
        IN  /\ prev \in scene.alive \ hidden /\ next \in scene.alive \cap hidden
            /\ Apply(Ids, [g \in Ids |-> Hop(scene, g, Work(chains[g]), chains[Default], p, prev, next)])
            /\ hidden' = (hidden \ {next}) \cup {prev}
            /\ scene' = scene
  BY DEF Switch
<1> DEFINE w == scene
           h == hidden
           d == chains[Default]
           p == w.parent[prev]
           k == (h \ {next}) \cup {prev}
           F == [g \in Ids |-> Hop(w, g, Work(chains[g]), d, p, prev, next)]
<1>2. /\ chains' = Merged(chains, Ids, F) /\ count' = Counted(count, chains, Ids, F)
      /\ hidden' = k /\ scene' = w
  BY <1>1 DEF Apply
<1>3. /\ Seated(w, h) /\ Counts(chains, count) /\ PlacesOK(w) /\ HiddenOK(w, h)
      /\ Rooted(w) /\ Gears \subseteq Ids /\ Default \in Ids /\ Default \notin Gears
      /\ \A g \in Gears : Found(w, h, Work(chains[g]), d)
  BY WholeFinds, FocusAssumption DEF WholeInv, IInv, TreeOK, Ids
<1>4. Good(w, d) /\ Half(w, h, d)
  BY GoodIs DEF IInv, AllGood, WholeInv, AllWhole, Ids
<1>5. /\ prev \in w.alive \cap Slotted /\ next \in w.alive \cap Slotted /\ next # prev
      /\ prev \notin h /\ next \in h
  BY <1>1 DEF Slotted
<1>6. w.parent[next] = w.parent[prev]
  <2>1. v[1] \in Objects /\ v[2] \in Objects /\ v[1] \in Slotted /\ v[2] \in Slotted
    BY FocusAssumption DEF Slotted
  <2>2. w.parent[v[1]] = Home[v[1]] /\ w.parent[v[2]] = Home[v[2]]
    BY <1>3, <2>1, SlotAssumption DEF PlacesOK
  <2>3. Home[v[1]] = Home[v[2]]
    BY SlotAssumption
  <2> QED
    BY <1>1, <2>2, <2>3
<1>7. HiddenOK(w, k)
  BY <1>1, <1>3, <1>5, SwitchHidden
<1>8. Seated(w, k)
  BY <1>3, <1>7, SeatedIs
<1>9. k = (h \ {next}) \cup {prev}
  OBVIOUS
<1> HIDE DEF k, d
<1>10. ASSUME NEW g \in Gears
       PROVE  Fit(w, F[g]) /\ Bare(F[g]) = {} /\ Whole(w, k, F[g]) /\ F[g].twice = {}
  <2> DEFINE f == Work(chains[g])
             A == Hop(w, g, f, d, w.parent[prev], prev, next)
  <2>1. F[g] = A /\ Found(w, h, f, d) /\ g # Default
    BY <1>3
  <2> HIDE DEF F, f
  <2>2. Kept(w, k, f, A)
    BY <1>5, <1>6, <1>8, <1>9, <2>1, HopWhole DEF Found
  <2> QED
    BY <2>1, <2>2 DEF Kept, Found
<1>11. Fit(w, F[Default]) /\ Bare(F[Default]) = {} /\ Half(w, k, F[Default])
  <2> DEFINE f == Work(d)
             A == Swapped(w, f, w.parent[prev], prev, next)
  <2>1. F[Default] = A
    BY <1>3 DEF Hop, Swapped, d
  <2>2. Fit(w, f) /\ Bare(f) = {} /\ Half(w, h, f)
    BY <1>4, WorkGood, SameWhole
  <2> HIDE DEF F, f
  <2>3. Swaps(w, k, f, prev, next, A)
    BY <1>3, <1>5, <1>6, <1>9, <2>2, SwappedWhole
  <2> QED
    BY <2>1, <2>3 DEF Swaps
<1> HIDE DEF F
<1>12. Worked(w, k, F)
  BY <1>10, <1>11 DEF Worked, Ids
<1>13. AllWhole(w, k, Merged(chains, Ids, F))
       /\ Counts(Merged(chains, Ids, F), Counted(count, chains, Ids, F))
  BY <1>3, <1>12, WorkedAll
<1> QED
  BY <1>2, <1>3, <1>7, <1>13 DEF WholeInv

\* What the cut of o leaves of the chains of all gears.
LEMMA CutWorkWhole ==
  ASSUME IInv, WholeInv, NEW o \in (scene.alive \cap Movable) \ {Gate}, ~Misses(o)
  PROVE  /\ \A g \in Ids : Fit(scene, CutWork(o)[g]) /\ Bare(CutWork(o)[g]) = {}
                           /\ \A r \in CutWork(o)[g].link : r[2] # o
         /\ Half(scene, hidden, CutWork(o)[Default])
         /\ \A g \in Gears : /\ CutWork(o)[g].twice = {}
                             /\ Whole(scene, hidden, CutWork(o)[g])
                             /\ Loose(scene, o, CutWork(o)[g])
<1> DEFINE w == scene
           h == hidden
           C == CutWork(o)
           d == chains[Default]
<1>1. /\ Seated(w, h) /\ Gears \subseteq Ids /\ Default \in Ids /\ Default \notin Gears
      /\ \A g \in Gears : Found(w, h, Work(chains[g]), d)
  BY WholeFinds, FocusAssumption DEF Ids
<1>2. Good(w, d) /\ Half(w, h, d)
  BY GoodIs DEF IInv, AllGood, WholeInv, AllWhole, Ids
<1>3. ASSUME NEW g \in Gears PROVE Apart(w, o, C[g])
  <2>1. \A x : x \in Below(w, {o}) <=> x \in w.alive /\ \E s \in {o} : s \in Line(w, x)
    BY BelowIs
  <2>2. \A x \in Slotted \cap Below(w, {o}) : C[g].state[x] # "live"
    BY DEF Misses
  <2> QED
    BY <2>1, <2>2 DEF Apart, Live
<1>4. o \in w.alive \ {Gate} /\ o \notin Slotted
  BY SlotAssumption
<1>5. ASSUME NEW g \in Ids PROVE C[g] = Cut(w, g, Work(chains[g]), w.parent[o], o)
  BY <1>5 DEF CutWork
<1>6. \A g \in Ids : Fit(w, C[g]) /\ Bare(C[g]) = {} /\ \A r \in C[g].link : r[2] # o
  BY <1>4, CutWorkIs
<1> HIDE DEF C, d
<1>7. ASSUME NEW g \in Gears
      PROVE  C[g].twice = {} /\ Whole(w, h, C[g]) /\ Loose(w, o, C[g])
  <2> DEFINE f == Work(chains[g])
             A == Cut(w, g, f, w.parent[o], o)
  <2>1. C[g] = A /\ Found(w, h, f, d) /\ g # Default
    BY <1>1, <1>5
  <2> HIDE DEF f
  <2>2. Apart(w, o, A)
    BY <1>3, <2>1
  <2>3. Kept(w, h, f, A) /\ Loose(w, o, A)
    BY <1>4, <2>1, <2>2, CutWhole DEF Found
  <2> QED
    BY <2>1, <2>3 DEF Kept, Found
<1>8. Half(w, h, C[Default])
  <2> DEFINE f == Work(d)
             A == Cut(w, Default, f, w.parent[o], o)
  <2>1. C[Default] = A
    BY <1>1, <1>5 DEF d
  <2>2. Fit(w, f) /\ Bare(f) = {} /\ Half(w, h, f)
    BY <1>2, WorkGood, SameWhole
  <2> HIDE DEF f
  <2>3. Half(w, h, A)
    BY <1>1, <1>4, <2>2, CutHalf
  <2> QED
    BY <2>1, <2>3
<1> QED
  BY <1>6, <1>7, <1>8 DEF C

LEMMA MoveWholeInv ==
  ASSUME IInv, WholeInv, NEW o, NEW q, Move(o, q), ~severed' PROVE WholeInv'
<1> DEFINE w == scene
           h == hidden
           u == [w EXCEPT !.parent[o] = q]
           C == CutWork(o)
           F == [g \in Ids |-> IF g \in Enlisted(o)
                               THEN Focus(u, g, C[g], C[Default], o, FALSE, FALSE) ELSE C[g]]
<1>1. /\ Seated(w, h) /\ Counts(chains, count) /\ PlacesOK(w) /\ HiddenOK(w, h)
      /\ Rooted(w) /\ Gears \subseteq Ids /\ Default \in Ids /\ Default \notin Gears
  BY WholeFinds, FocusAssumption DEF WholeInv, IInv, TreeOK, Ids
<1>2. /\ o \in (w.alive \cap Movable) \ {Gate}
      /\ q \in (w.alive \cap Places) \ Below(w, {o})
      /\ scene' = u /\ chains' = Merged(chains, Ids, F)
      /\ count' = Counted(count, chains, Ids, F) /\ hidden' = h /\ ~Misses(o)
  BY DEF Move, Apply
<1>3. Rooted(u)
  BY <1>1, <1>2, MoveTree
<1>4. /\ u.alive = w.alive /\ u.parent[o] = q /\ w \in Scenes
      /\ \A x \in Objects : x # o => u.parent[x] = w.parent[x]
  BY <1>1, <1>2 DEF Rooted, Scenes
<1>5. PlacesOK(u)
  BY <1>1, <1>2, <1>4 DEF PlacesOK
<1>6. HiddenOK(u, h)
  BY <1>1, <1>4 DEF HiddenOK
<1>7. Seated(u, h)
  BY <1>3, <1>5, <1>6, SeatedIs
<1>8. Line(u, o) \cap h = {}
  <2>1. o \in u.alive /\ o \notin Slotted
    BY <1>2, <1>4, SlotAssumption
  <2> HIDE DEF u
  <2>2. \A y \in Line(u, o) \ {o} : y \notin Slotted
    BY <1>7, <2>1, Inner
  <2>3. h \subseteq Slotted
    BY <1>1 DEF Seated
  <2> QED
    BY <2>1, <2>2, <2>3
<1>9. /\ \A g \in Ids : Fit(w, C[g]) /\ Bare(C[g]) = {} /\ \A r \in C[g].link : r[2] # o
      /\ Half(w, h, C[Default])
      /\ \A g \in Gears : C[g].twice = {} /\ Whole(w, h, C[g]) /\ Loose(w, o, C[g])
  BY <1>2, CutWorkWhole
<1> HIDE DEF C
<1>10. ASSUME NEW g \in Ids PROVE Fit(u, C[g]) /\ Bare(C[g]) = {}
  BY <1>4, <1>9, FitsMoved
<1>11. ASSUME NEW g \in Gears PROVE Whole(u, h, C[g])
  <2> DEFINE c == C[g]
  <2>1. Fit(w, c) /\ Bare(c) = {} /\ Half(w, h, c) /\ Whole(w, h, c) /\ Loose(w, o, c)
    BY <1>1, <1>9 DEF Whole
  <2> HIDE DEF c
  <2>2. Whole(u, h, c)
    BY <1>1, <2>1, MovedWhole
  <2> QED
    BY <2>2 DEF c
<1>12. Half(u, h, C[Default])
  <2> DEFINE c == C[Default]
  <2>1. Fit(w, c) /\ Bare(c) = {} /\ Half(w, h, c)
    BY <1>1, <1>9
  <2> HIDE DEF c
  <2>2. Half(u, h, c)
    BY <1>1, <2>1, MovedWhole
  <2> QED
    BY <2>2 DEF c
<1> HIDE DEF u
<1>13. Sound(u, C[Default])
  BY <1>1, <1>10, DoneGood
<1>14. ASSUME NEW g \in Gears
       PROVE  Fit(u, F[g]) /\ Bare(F[g]) = {} /\ Whole(u, h, F[g]) /\ F[g].twice = {}
  <2>1. CASE g \in Enlisted(o)
    <3> DEFINE c == C[g]
               d == C[Default]
               A == Focus(u, g, c, d, o, FALSE, FALSE)
    <3>1. F[g] = A
      BY <1>1, <2>1
    <3>2. Found(u, h, c, d)
      BY <1>1, <1>7, <1>9, <1>10, <1>11, <1>12, <1>13 DEF Found
    <3> HIDE DEF F, c, d
    <3>3. ASSUME NEW solo \in BOOLEAN, NEW just
          PROVE  Kept(u, h, c, Focus(u, g, c, d, o, solo, just))
      BY <1>2, <1>4, <1>8, <3>2, FocusKeeps
    <3>4. Kept(u, h, c, A)
      BY <3>3
    <3> HIDE DEF A
    <3> QED
      BY <3>1, <3>2, <3>4 DEF Kept, Found
  <2>2. CASE g \notin Enlisted(o)
    <3>1. F[g] = C[g]
      BY <1>1, <2>2
    <3> HIDE DEF F
    <3> QED
      BY <1>1, <1>9, <1>10, <1>11, <3>1
  <2> QED
    BY <2>1, <2>2
<1>15. F[Default] = C[Default]
  BY <1>1 DEF Enlisted
<1> HIDE DEF F
<1>16. Worked(u, h, F)
  BY <1>1, <1>10, <1>12, <1>14, <1>15 DEF Worked, Ids
<1>17. AllWhole(u, h, Merged(chains, Ids, F))
       /\ Counts(Merged(chains, Ids, F), Counted(count, chains, Ids, F))
  BY <1>1, <1>16, WorkedAll
<1> QED
  BY <1>2, <1>5, <1>6, <1>17 DEF WholeInv

LEMMA ReplaceWholeInv ==
  ASSUME IInv, WholeInv, NEW o, NEW q, Replace(o, q), ~severed' PROVE WholeInv'
<1> DEFINE w == scene
           h == hidden
           C == CutWork(o)
           F == [g \in Ids |-> IF g \in Enlisted(o)
                               THEN Focus(w, g, C[g], C[Default], q, FALSE, FALSE) ELSE C[g]]
           S == Below(w, {o})
           u == [w EXCEPT !.alive = @ \ S]
           k == Restored(S)
           M == Merged(chains, Ids, F)
           n == Counted(count, chains, Ids, F)
<1>1. /\ Seated(w, h) /\ Counts(chains, count) /\ PlacesOK(w) /\ HiddenOK(w, h)
      /\ Rooted(w) /\ Gears \subseteq Ids /\ Default \in Ids /\ Default \notin Gears
  BY WholeFinds, FocusAssumption DEF WholeInv, IInv, TreeOK, Ids
<1>2. /\ o \in (Shown \cap Movable) \ {Gate} /\ q \in Shown
      /\ scene' = u /\ chains' = Buried(M, S) /\ count' = Zeroed(n, S) /\ hidden' = k
      /\ ~Misses(o)
  BY DEF Replace
<1>3. /\ o \in (w.alive \cap Movable) \ {Gate} /\ o \in w.alive \ (Slotted \cup {Gate})
      /\ q \in w.alive /\ Line(w, q) \cap h = {}
  BY <1>2, WholeFinds, SlotAssumption
<1>4. Pruned(w, S, u)
  BY <1>1 DEF Pruned, Rooted, Scenes
<1>5. Restores(h, S, k)
  BY DEF Restored, Restores
<1> HIDE DEF u, k
<1>6. HiddenOK(u, k) /\ k \cap u.alive \subseteq h
  BY <1>1, <1>3, <1>4, <1>5, RestoredHidden
<1> HIDE DEF S
<1>7. PlacesOK(u)
  BY <1>1, <1>4 DEF PlacesOK, Pruned
<1>8. /\ \A g \in Ids : Fit(w, C[g]) /\ Bare(C[g]) = {}
      /\ Half(w, h, C[Default])
      /\ \A g \in Gears : C[g].twice = {} /\ Whole(w, h, C[g])
  BY <1>2, <1>3, CutWorkWhole
<1> HIDE DEF C
<1>9. Sound(w, C[Default])
  BY <1>1, <1>8, DoneGood
<1>10. ASSUME NEW g \in Gears
       PROVE  Fit(w, F[g]) /\ Bare(F[g]) = {} /\ Whole(w, h, F[g]) /\ F[g].twice = {}
  <2>1. CASE g \in Enlisted(o)
    <3> DEFINE c == C[g]
               d == C[Default]
               A == Focus(w, g, c, d, q, FALSE, FALSE)
    <3>1. F[g] = A
      BY <1>1, <2>1
    <3>2. Found(w, h, c, d)
      BY <1>1, <1>8, <1>9 DEF Found
    <3> HIDE DEF F, c, d
    <3>3. ASSUME NEW solo \in BOOLEAN, NEW just
          PROVE  Kept(w, h, c, Focus(w, g, c, d, q, solo, just))
      BY <1>3, <3>2, FocusKeeps
    <3>4. Kept(w, h, c, A)
      BY <3>3
    <3> HIDE DEF A
    <3> QED
      BY <3>1, <3>2, <3>4 DEF Kept, Found
  <2>2. CASE g \notin Enlisted(o)
    <3>1. F[g] = C[g]
      BY <1>1, <2>2
    <3> HIDE DEF F
    <3> QED
      BY <1>1, <1>8, <3>1
  <2> QED
    BY <2>1, <2>2
<1>11. F[Default] = C[Default]
  BY <1>1 DEF Enlisted
<1> HIDE DEF F
<1>12. Worked(w, h, F)
  BY <1>1, <1>8, <1>10, <1>11 DEF Worked, Ids
<1>13. AllGood(w, M) /\ AllWhole(w, h, M) /\ Counts(M, n)
  BY <1>1, <1>12, WorkedAll
<1> HIDE DEF M, n
<1>14. AllWhole(u, k, Buried(M, S))
  BY <1>1, <1>3, <1>4, <1>6, <1>13, BuriedAllWhole DEF S
<1>15. Counts(Buried(M, S), Zeroed(n, S))
  BY <1>1, <1>4, <1>13, BuriedGood, ZeroedIs
<1> QED
  BY <1>2, <1>6, <1>7, <1>14, <1>15 DEF WholeInv

LEMMA WholeStep ==
  ASSUME IInv, severed \/ WholeInv, [Next]_vars PROVE severed' \/ WholeInv'
<1> SUFFICES ASSUME ~severed' PROVE WholeInv'
  OBVIOUS
<1>0. WholeInv
  <2>1. severed => severed'
    BY ZenonT(60) DEF Next, vars, Join, Leave, GateFocus, GateBlur, Set, Off, Add, Rem, Open, Close,
           Move, Replace, Switch
  <2> QED
    BY <2>1
<1>1. CASE UNCHANGED vars
  BY <1>0, <1>1 DEF vars, WholeInv, PlacesOK, HiddenOK, AllWhole, Counts, WhoIsLive
<1>2. ASSUME NEW g \in Gears, Join(g) PROVE WholeInv'
  BY <1>0, <1>2 DEF Join, WholeInv, PlacesOK, HiddenOK, AllWhole, Counts, WhoIsLive
<1>3. ASSUME NEW g \in Gears, Leave(g) \/ GateFocus(g) \/ GateBlur(g) PROVE WholeInv'
  BY <1>0, <1>3, LeaveWholeInv, GateWholeInv
<1>4. ASSUME NEW g \in Gears, NEW o \in Objects,
             \/ Set(g, o, TRUE, FALSE) \/ Set(g, o, FALSE, FALSE) \/ Set(g, o, TRUE, TRUE)
             \/ Off(g, o) \/ Rem(g, o) \/ \E solo \in BOOLEAN : Add(g, o, solo)
      PROVE  WholeInv'
  <2>1. ASSUME NEW solo \in BOOLEAN, NEW just, Set(g, o, solo, just) PROVE WholeInv'
    BY <1>0, <2>1, SetWholeInv
  <2>2. CASE Set(g, o, TRUE, FALSE) \/ Set(g, o, FALSE, FALSE) \/ Set(g, o, TRUE, TRUE)
    BY <2>1, <2>2
  <2>3. CASE Off(g, o) \/ Rem(g, o) \/ \E solo \in BOOLEAN : Add(g, o, solo)
    BY <1>0, <2>3, OffWholeInv, RemWholeInv, AddWholeInv
  <2> QED
    BY <1>4, <2>2, <2>3
<1>5. ASSUME NEW o \in Objects, Open(o) \/ Close(o) PROVE WholeInv'
  BY <1>0, <1>5, OpenWholeInv, CloseWholeInv
<1>6. ASSUME NEW o \in Objects, NEW q \in Objects, Move(o, q) \/ Replace(o, q) PROVE WholeInv'
  BY <1>0, <1>6, MoveWholeInv, ReplaceWholeInv
<1>7. ASSUME NEW v \in Veers, Switch(v) PROVE WholeInv'
  BY <1>0, <1>7, SwitchWholeInv
<1> QED
  BY <1>1, <1>2, <1>3, <1>4, <1>5, <1>6, <1>7 DEF Next

(* Every gear's tree is in one piece, the default chains keep half of it,  *)
(* and the counters agree with the chains: after every request of          *)
(* pro::focus and every change of the tree of objects, until a cut severs  *)
(* an active applet of a slot.                                             *)
THEOREM Wholeness == Spec => [](IInv /\ (severed \/ WholeInv))
<1>1. Init => IInv /\ (severed \/ WholeInv)
  BY InitKept, InitWholeInv
<1>2. IInv /\ (severed \/ WholeInv) /\ [Next]_vars => (IInv /\ (severed \/ WholeInv))'
  BY StepKept, WholeStep
<1> QED
  BY <1>1, <1>2, PTL DEF Spec

(* The published counter is the number of gears active at the object.  A   *)
(* gear sets an object anew when it copies default chains over chains of   *)
(* its own: in a tree in one piece it has none below where it copies.      *)
THEOREM CountCorrect == Spec => []CountUntilSevered
<1>1. IInv /\ (severed \/ WholeInv) => CountUntilSevered
  BY DEF WholeInv, Counts, CountIsActive, CountUntilSevered
<1> QED
  BY <1>1, Wholeness, PTL

(* A keystroke that follows the live links ends at an object that is       *)
(* focused, until a cut has severed an applet.                             *)
THEOREM LinkedCorrect == Spec => [](severed \/ LinkedIsLive)
<1>1. IInv /\ (severed \/ WholeInv) => severed \/ LinkedIsLive
  <2> SUFFICES ASSUME IInv, WholeInv, NEW g \in Gears, NEW r \in chains[g].link,
                      r[3] = "live", r[2] \in scene.alive
               PROVE  IsLive(g, r[2])
    BY DEF LinkedIsLive
  <2>1. Arrives(scene, chains[g], {})
    BY DEF WholeInv, AllWhole, Whole
  <2> QED
    BY <2>1 DEF Arrives, Live, IsLive
<1> QED
  BY <1>1, Wholeness, PTL

(* An object that believes it is focused, but for the applets of a slot,   *)
(* is one that keystrokes arrive at.                                       *)
THEOREM KeystrokesCorrect == Spec => []KeystrokesArriveElsewhere
<1>1. IInv /\ (severed \/ WholeInv) => KeystrokesArriveElsewhere
  <2> SUFFICES ASSUME IInv, WholeInv, NEW g \in Gears,
                      NEW o \in (scene.alive \cap (Objects \ Slotted)) \ {Gate}, IsLive(g, o)
               PROVE  /\ IsLive(g, scene.parent[o])
                      /\ <<scene.parent[o], o, "live">> \in chains[g].link
    BY DEF KeystrokesArriveElsewhere, ArriveAt
  <2> DEFINE c == Work(chains[g])
  <2>1. Found(scene, hidden, c, chains[Default])
    BY WholeFinds
  <2>2. c.state = chains[g].state /\ c.link = chains[g].link
    BY DEF Work
  <2>3. o \in scene.alive \ Slotted /\ Live(c, o) /\ o \in Objects /\ o # Gate
    BY <2>2 DEF IsLive, Live
  <2> HIDE DEF c
  <2>4. o \in Line(scene, o) /\ scene.parent[o] \in Line(scene, o)
    BY <2>3, LineSelf, LineUp
  <2>5. /\ Sourced(scene, c) /\ Answered(scene, c, {}) /\ Strung(scene, c) /\ Fit(scene, c)
        /\ Seated(scene, hidden)
    BY <2>1 DEF Found, Whole, Half
  <2>6. \A y \in Line(scene, o) : /\ Live(c, y)
                                  /\ y # Gate => <<scene.parent[y], y, "live">> \in c.link
    BY <2>3, <2>5, LineLive
  <2> QED
    BY <2>2, <2>3, <2>4, <2>6 DEF Live, IsLive
<1> QED
  BY <1>1, Wholeness, PTL

(* Focusing an endpoint alone leaves the gear with that endpoint and its   *)
(* ancestors and nothing else, but for the applets of a slot.              *)
THEOREM SoloCorrect == Spec => []SoloIsSingle
<1>1. IInv /\ (severed \/ WholeInv) => SoloIsSingle
  <2> SUFFICES ASSUME IInv, WholeInv, NEW g \in gears, NEW o \in Endpoints \cap Shown
               PROVE  LiveObjects(Focus(scene, g, Work(chains[g]), chains[Default], o, TRUE, FALSE))
                         \ (Slotted \ {o}) = Line(scene, o)
    BY DEF SoloIsSingle
  <2> DEFINE f == Work(chains[g])
             d == chains[Default]
  <2>1. g \in Gears
    BY DEF IInv, TypeOK
  <2>2. /\ Found(scene, hidden, f, d)
        /\ o \in scene.alive /\ o \in Endpoints /\ Line(scene, o) \cap hidden = {}
    BY <2>1, WholeFinds
  <2> HIDE DEF f, d
  <2>3. ASSUME NEW solo \in BOOLEAN, solo, NEW just, ~just
        PROVE  OnlyLine(scene, o, Focus(scene, g, f, d, o, solo, just))
    BY <2>2, <2>3, SoloLeaves DEF Found
  <2>4. OnlyLine(scene, o, Focus(scene, g, f, d, o, TRUE, FALSE))
    BY <2>3
  <2> QED
    BY <2>4 DEF f, d, OnlyLine
<1> QED
  BY <1>1, Wholeness, PTL
=============================================================================
