--------------------------- MODULE FocusWork_proof ---------------------------
(***************************************************************************)
(* What the operators of FocusTree do, for every scene and every work on a *)
(* gear's chains: the facts that the proofs about requests are made of.    *)
(* First the walks over the tree (Reach, Line, Below, Visited), then the   *)
(* signals (Release, Dup, Activate, Raise, Lower) and the requests that    *)
(* consist of them: what they leave of the chains, and that it fits the    *)
(* scene.  Then what keeps a gear's tree in one piece (Whole), and that    *)
(* every signal, every request and every change of the tree keeps it.      *)
(***************************************************************************)
EXTENDS FocusTree, FiniteSetTheorems, TLAPS

----------------------------------------------------------------------------
(* Reach(R, S) is the smallest set with S in it that R does not leave.     *)

LEMMA ReachHas == ASSUME NEW R, NEW S PROVE S \subseteq Reach(R, S)
BY DEF Reach

LEMMA ReachClosed == ASSUME NEW R, NEW S PROVE Closed(R, Reach(R, S))
BY DEF Reach, Closed

LEMMA ReachLeast ==
  ASSUME NEW R, NEW S, NEW Y, S \subseteq Y, Closed(R, Y)
  PROVE  Reach(R, S) \subseteq Y
<1> DEFINE T == {e[2] : e \in R} \ S
           X == Y \cap T
<1>1. X \in SUBSET T /\ Closed(R, S \cup X)
  BY DEF Closed
<1> QED
  BY <1>1 DEF Reach

\* An object that is reached and not there at first is reached by a step.
LEMMA ReachStep ==
  ASSUME NEW R, NEW S, NEW x \in Reach(R, S), x \notin S
  PROVE  \E e \in R : e[2] = x /\ e[1] \in Reach(R, S)
<1> DEFINE Y == Reach(R, S) \ {x}
<1>1. SUFFICES ASSUME \A e \in R : e[2] = x => e[1] \notin Reach(R, S) PROVE FALSE
  OBVIOUS
<1>2. Closed(R, Y)
  BY <1>1, ReachClosed DEF Closed
<1>3. S \subseteq Y
  BY ReachHas
<1> HIDE DEF Y
<1>4. Reach(R, S) \subseteq Y
  BY <1>2, <1>3, ReachLeast
<1> QED
  BY <1>4 DEF Y

----------------------------------------------------------------------------
(* The line of an object: itself and what is above it.                     *)

LEMMA LineSelf == ASSUME NEW w, NEW o PROVE o \in Line(w, o)
BY ReachHas DEF Line

LEMMA LineUp ==
  ASSUME NEW w, NEW o, NEW x \in Line(w, o), x \in Objects, x # Gate
  PROVE  w.parent[x] \in Line(w, o)
<1> DEFINE e == <<x, w.parent[x]>>
<1>1. e \in Rising(w, {}) /\ e[1] = x /\ e[2] = w.parent[x]
  BY DEF Rising
<1> HIDE DEF e
<1>2. Closed(Rising(w, {}), Line(w, o))
  BY ReachClosed DEF Line
<1> QED
  BY <1>1, <1>2 DEF Closed

LEMMA LineLeast ==
  ASSUME NEW w, NEW o, NEW Y, o \in Y,
         \A x \in (Y \cap Objects) \ {Gate} : w.parent[x] \in Y
  PROVE  Line(w, o) \subseteq Y
<1>1. Closed(Rising(w, {}), Y)
  BY DEF Closed, Rising
<1> QED
  BY <1>1, ReachLeast DEF Line

LEMMA LineTrans ==
  ASSUME NEW w, NEW o, NEW x \in Line(w, o)
  PROVE  Line(w, x) \subseteq Line(w, o)
BY LineUp, LineLeast

LEMMA LineGate == ASSUME NEW w PROVE Line(w, Gate) = {Gate}
<1>1. Line(w, Gate) \subseteq {Gate}
  <2> DEFINE Y == {Gate}
  <2>1. Gate \in Y /\ \A x \in (Y \cap Objects) \ {Gate} : w.parent[x] \in Y
    OBVIOUS
  <2> HIDE DEF Y
  <2>2. Line(w, Gate) \subseteq Y
    BY <2>1, LineLeast
  <2> QED
    BY <2>2 DEF Y
<1> QED
  BY <1>1, LineSelf

LEMMA LineStep ==
  ASSUME NEW w, NEW o \in Objects \ {Gate}
  PROVE  Line(w, o) = {o} \cup Line(w, w.parent[o])
<1> DEFINE Y == {o} \cup Line(w, w.parent[o])
<1>1. Line(w, o) \subseteq Y
  <2>1. o \in Y /\ \A x \in (Y \cap Objects) \ {Gate} : w.parent[x] \in Y
    BY LineSelf, LineUp
  <2> HIDE DEF Y
  <2> QED
    BY <2>1, LineLeast
<1>2. o \in Line(w, o) /\ w.parent[o] \in Line(w, o)
  BY LineSelf, LineUp
<1>3. Line(w, w.parent[o]) \subseteq Line(w, o)
  BY <1>2, LineTrans
<1> QED
  BY <1>1, <1>2, <1>3

LEMMA LineObjects ==
  ASSUME NEW w \in Scenes, NEW o \in Objects
  PROVE  Line(w, o) \subseteq Objects
<1>1. \A x \in (Objects \cap Objects) \ {Gate} : w.parent[x] \in Objects
  BY DEF Scenes
<1> QED
  BY <1>1, LineLeast

\* In a tree nothing is above itself.
LEMMA LineAcyclic ==
  ASSUME NEW w, NEW o \in Objects \ {Gate}, Gate \in Line(w, o),
         Line(w, o) \subseteq Objects
  PROVE  o \notin Line(w, w.parent[o])
<1> SUFFICES ASSUME o \in Line(w, w.parent[o]) PROVE FALSE
  OBVIOUS
<1> DEFINE Y == {x \in Line(w, o) : o \in Line(w, x)}
<1>1. o \in Y
  BY LineSelf
<1>2. ASSUME NEW x \in (Y \cap Objects) \ {Gate} PROVE w.parent[x] \in Y
  <2>1. w.parent[x] \in Line(w, o)
    BY LineUp
  <2>2. o \in Line(w, w.parent[x])
    BY LineStep
  <2> QED
    BY <2>1, <2>2
<1> HIDE DEF Y
<1>3. Line(w, o) \subseteq Y
  BY <1>1, <1>2, LineLeast
<1>4. o \in Line(w, Gate)
  BY <1>3 DEF Y
<1> QED
  BY <1>4, LineGate

\* Of two objects of a line one is above the other.
LEMMA LineOrder ==
  ASSUME NEW w, NEW o, Gate \in Line(w, o), Line(w, o) \subseteq Objects,
         NEW x \in Line(w, o), NEW y \in Line(w, o)
  PROVE  x \in Line(w, y) \/ y \in Line(w, x)
<1> SUFFICES ASSUME x \notin Line(w, y), y \notin Line(w, x) PROVE FALSE
  OBVIOUS
<1> DEFINE Y == {z \in Line(w, o) : x \in Line(w, z) /\ y \in Line(w, z)}
<1>1. o \in Y
  BY LineSelf
<1>2. ASSUME NEW z \in (Y \cap Objects) \ {Gate} PROVE w.parent[z] \in Y
  <2>1. w.parent[z] \in Line(w, o)
    BY LineUp
  <2>2. z # x /\ z # y
    OBVIOUS
  <2>3. x \in Line(w, w.parent[z]) /\ y \in Line(w, w.parent[z])
    BY <2>2, LineStep
  <2> QED
    BY <2>1, <2>3
<1> HIDE DEF Y
<1>3. Line(w, o) \subseteq Y
  BY <1>1, <1>2, LineLeast
<1>4. x \in Line(w, Gate) /\ y \in Line(w, Gate)
  BY <1>3 DEF Y
<1> QED
  BY <1>4, LineGate, LineSelf

\* Only what is above an object can change its line.
LEMMA LineKept ==
  ASSUME NEW w, NEW u, NEW o,
         \A x \in (Line(w, o) \cap Objects) \ {Gate} : u.parent[x] = w.parent[x]
  PROVE  Line(u, o) = Line(w, o)
<1>1. Line(u, o) \subseteq Line(w, o)
  <2>1. \A x \in (Line(w, o) \cap Objects) \ {Gate} : u.parent[x] \in Line(w, o)
    BY LineUp
  <2> QED
    BY <2>1, LineSelf, LineLeast
<1>2. Line(w, o) \subseteq Line(u, o)
  <2>1. \A x \in (Line(u, o) \cap Objects) \ {Gate} : w.parent[x] \in Line(u, o)
    BY <1>1, LineUp
  <2> QED
    BY <2>1, LineSelf, LineLeast
<1> QED
  BY <1>1, <1>2

\* What is below S is what has a member of S in its line.
LEMMA BelowIs ==
  ASSUME NEW w, NEW S, NEW x
  PROVE  x \in Below(w, S) <=> x \in w.alive /\ \E s \in S : s \in Line(w, x)
<1> DEFINE R == {<<e[2], e[1]>> : e \in Rising(w, {})}
<1>1. ASSUME x \in Reach(R, S) PROVE \E s \in S : s \in Line(w, x)
  <2> DEFINE Y == {y \in Reach(R, S) : \E s \in S : s \in Line(w, y)}
  <2>1. S \subseteq Y
    BY ReachHas, LineSelf
  <2>2. ASSUME NEW e \in R, e[1] \in Y PROVE e[2] \in Y
    <3>1. PICK z \in Objects \ {Gate} : e[1] = w.parent[z] /\ e[2] = z
      BY DEF Rising
    <3>2. e[2] \in Reach(R, S)
      BY <2>2, ReachClosed DEF Closed
    <3>3. PICK s \in S : s \in Line(w, w.parent[z])
      BY <2>2, <3>1
    <3>4. s \in Line(w, z)
      BY <3>3, LineStep
    <3> QED
      BY <3>1, <3>2, <3>4
  <2> HIDE DEF R, Y
  <2>3. Closed(R, Y)
    BY <2>2 DEF Closed
  <2>4. Reach(R, S) \subseteq Y
    BY <2>1, <2>3, ReachLeast
  <2> QED
    BY <1>1, <2>4 DEF Y
<1>2. ASSUME NEW s \in S, s \in Line(w, x), x \notin Reach(R, S) PROVE FALSE
  <2> DEFINE Y == Line(w, x) \ Reach(R, S)
  <2>1. x \in Y
    BY <1>2, LineSelf
  <2>2. ASSUME NEW z \in (Y \cap Objects) \ {Gate} PROVE w.parent[z] \in Y
    <3>1. w.parent[z] \in Line(w, x)
      BY LineUp
    <3>2. ASSUME w.parent[z] \in Reach(R, S) PROVE FALSE
      <4> DEFINE e == <<w.parent[z], z>>
      <4>1. e \in R /\ e[1] = w.parent[z] /\ e[2] = z
        <5>1. <<z, w.parent[z]>> \in Rising(w, {})
          BY DEF Rising
        <5> QED
          BY <5>1
      <4> HIDE DEF e, R
      <4>2. z \in Reach(R, S)
        BY <3>2, <4>1, ReachClosed DEF Closed
      <4> QED
        BY <4>2
    <3> QED
      BY <3>1, <3>2
  <2> HIDE DEF Y
  <2>3. Line(w, x) \subseteq Y
    BY <2>1, <2>2, LineLeast
  <2> QED
    BY <1>2, <2>3, ReachHas DEF Y
<1> HIDE DEF R
<1>3. Below(w, S) = w.alive \cap Reach(R, S)
  BY DEF Below, R
<1> QED
  BY <1>1, <1>2, <1>3

\* Where links go from a parent to its child, what is reached lies below.
LEMMA DownBelow ==
  ASSUME NEW w, NEW R, NEW S, NEW x \in Reach(R, S),
         \A e \in R : e[2] \in Objects \ {Gate} /\ w.parent[e[2]] = e[1]
  PROVE  \E s \in S : s \in Line(w, x)
<1> DEFINE Y == {y \in Reach(R, S) : \E s \in S : s \in Line(w, y)}
<1>1. S \subseteq Y
  BY ReachHas, LineSelf
<1>2. ASSUME NEW e \in R, e[1] \in Y PROVE e[2] \in Y
  <2>1. e[2] \in Reach(R, S)
    BY <1>2, ReachClosed DEF Closed
  <2>2. PICK s \in S : s \in Line(w, e[1])
    BY <1>2
  <2>3. s \in Line(w, e[2])
    BY <2>2, LineStep
  <2> QED
    BY <2>1, <2>3
<1> HIDE DEF Y
<1>3. Reach(R, S) \subseteq Y
  BY <1>1, <1>2, ReachLeast DEF Closed
<1> QED
  BY <1>3 DEF Y

----------------------------------------------------------------------------
(* The ancestors that a rising signal visits.                              *)

LEMMA VisitedIn ==
  ASSUME NEW w, NEW o \in Objects, NEW stops
  PROVE  Visited(w, o, stops) \subseteq Line(w, w.parent[o])
<1>1. CASE o = Gate
  BY <1>1 DEF Visited
<1>2. CASE o # Gate
  <2>1. Closed(Rising(w, stops), Line(w, w.parent[o]))
    BY LineUp DEF Closed, Rising
  <2>2. {w.parent[o]} \subseteq Line(w, w.parent[o])
    BY LineSelf
  <2>3. Reach(Rising(w, stops), {w.parent[o]}) \subseteq Line(w, w.parent[o])
    BY <2>1, <2>2, ReachLeast
  <2> QED
    BY <1>2, <2>3 DEF Visited
<1> QED
  BY <1>1, <1>2

LEMMA VisitedFirst ==
  ASSUME NEW w, NEW o \in Objects \ {Gate}, NEW stops
  PROVE  w.parent[o] \in Visited(w, o, stops)
BY ReachHas DEF Visited

LEMMA VisitedUp ==
  ASSUME NEW w, NEW o \in Objects, NEW stops,
         NEW x \in Visited(w, o, stops), x \in Objects, x # Gate, x \notin stops
  PROVE  w.parent[x] \in Visited(w, o, stops)
<1> DEFINE e == <<x, w.parent[x]>>
<1>1. o # Gate
  BY DEF Visited
<1>2. e \in Rising(w, stops) /\ e[1] = x /\ e[2] = w.parent[x]
  BY DEF Rising
<1> HIDE DEF e
<1>3. Closed(Rising(w, stops), Visited(w, o, stops))
  BY <1>1, ReachClosed DEF Visited
<1> QED
  BY <1>2, <1>3 DEF Closed

LEMMA VisitedLeast ==
  ASSUME NEW w, NEW o \in Objects \ {Gate}, NEW stops, NEW Y, w.parent[o] \in Y,
         \A x \in (Y \cap Objects) \ {Gate} : x \notin stops => w.parent[x] \in Y
  PROVE  Visited(w, o, stops) \subseteq Y
<1>1. Closed(Rising(w, stops), Y)
  BY DEF Closed, Rising
<1> QED
  BY <1>1, ReachLeast DEF Visited

\* All the ancestors, when nothing stops it.
LEMMA VisitedAll ==
  ASSUME NEW w, NEW o \in Objects \ {Gate}
  PROVE  Visited(w, o, {}) = Line(w, w.parent[o])
BY DEF Visited, Line

\* Only those on the way can stop it.
LEMMA VisitedFewer ==
  ASSUME NEW w, NEW o \in Objects, NEW A, NEW B,
         \A x \in Line(w, w.parent[o]) \cap Objects : x \in B => x \in A
  PROVE  Visited(w, o, A) \subseteq Visited(w, o, B)
<1>1. CASE o = Gate
  BY <1>1 DEF Visited
<1>2. CASE o # Gate
  <2>1. w.parent[o] \in Visited(w, o, B)
    BY <1>2, VisitedFirst
  <2>2. \A x \in (Visited(w, o, B) \cap Objects) \ {Gate} :
           x \notin A => w.parent[x] \in Visited(w, o, B)
    BY VisitedIn, VisitedUp
  <2> QED
    BY <1>2, <2>1, <2>2, VisitedLeast
<1> QED
  BY <1>1, <1>2

\* An object of the line below one that was visited was visited, and passed it on.
LEMMA VisitedBelow ==
  ASSUME NEW w \in Scenes, NEW o \in Objects \ {Gate}, NEW stops,
         Gate \in Line(w, o),
         NEW x \in Line(w, o) \ {Gate, o}, w.parent[x] \in Visited(w, o, stops)
  PROVE  x \in Visited(w, o, stops) /\ x \notin stops
<1> DEFINE Y == {y \in Visited(w, o, stops) : x \in Line(w, y)}
<1>0. Line(w, o) \subseteq Objects /\ w.parent[o] \in Objects
  BY LineObjects DEF Scenes
<1>1. SUFFICES ASSUME x \notin Visited(w, o, stops) \/ x \in stops PROVE FALSE
  OBVIOUS
<1>2. w.parent[o] \in Y
  BY VisitedFirst, LineStep
<1>3. ASSUME NEW y \in (Y \cap Objects) \ {Gate}, y \notin stops PROVE w.parent[y] \in Y
  <2>1. w.parent[y] \in Visited(w, o, stops)
    BY <1>3, VisitedUp
  <2>2. x \in Line(w, w.parent[y])
    BY <1>1, <1>3, LineStep
  <2> QED
    BY <2>1, <2>2
<1> HIDE DEF Y
<1>4. Visited(w, o, stops) \subseteq Y
  BY <1>2, <1>3, VisitedLeast
<1>5. x \in Line(w, w.parent[x])
  BY <1>4 DEF Y
<1>6. x \in Objects \ {Gate} /\ Line(w, x) \subseteq Objects
  BY <1>0, LineObjects
<1>7. Gate \in Line(w, x)
  BY <1>0, LineOrder, LineGate
<1> QED
  BY <1>5, <1>6, <1>7, LineAcyclic

----------------------------------------------------------------------------
(* The work on a gear's chains.  It fits a scene when it links no object   *)
(* twice and a link to an object that exists leads to it from its parent.  *)

Works == [state : [Objects -> Statuses \cup {"none"}], link : SUBSET Links,
          twice : SUBSET Objects]

Single(L)     == \A r, x \in L : Edge(r) = Edge(x) => r = x
Follows(w, L) == \A r \in L : r[2] \in w.alive => r[2] # Gate /\ w.parent[r[2]] = r[1]
Fit(w, f)     == f \in Works /\ Single(f.link) /\ Follows(w, f.link)

\* The objects that have no chain although they link another.
Bare(f) == {r[1] : r \in f.link} \cap {o \in Objects : f.state[o] = "none"}

\* What a walk of the objects of S makes of the work f.
WalksTo(w, f, S, New, W) ==
    /\ W \in Works /\ W.state = f.state /\ W.twice = f.twice
    /\ \A r \in W.link : \E x \in f.link :
          /\ Edge(r) = Edge(x)
          /\ x[1] \in S => r[2] \in w.alive /\ r[3] = New[x]
          /\ x[1] \notin S => r = x
    /\ \A x \in f.link :
          /\ x[1] \notin S => x \in W.link
          /\ x[1] \in S /\ x[2] \in w.alive => <<x[1], x[2], New[x]>> \in W.link

LEMMA NotifyIs ==
  ASSUME NEW f \in Works, NEW S, NEW st \in Statuses
  PROVE  LET N == Notify(f, S, st)
         IN  /\ N \in Works /\ N.link = f.link /\ N.twice = f.twice
             /\ \A o \in Objects : N.state[o] = IF o \in S THEN st ELSE f.state[o]
BY DEF Notify, Works

LEMMA WalkIs ==
  ASSUME NEW w, NEW f \in Works, NEW S, NEW New \in [Links -> Statuses]
  PROVE  WalksTo(w, f, S, New, Walk(w, f, S, New))
<1> DEFINE A == {r \in f.link : r[1] \notin S}
           X == {x \in f.link : x[1] \in S /\ x[2] \in w.alive}
           B == {<<r[1], r[2], New[r]>> : r \in X}
           W == Walk(w, f, S, New)
<1>1. f.link \subseteq Links /\ A \subseteq Links /\ X \subseteq Links
  BY DEF Works
<1>2. ASSUME NEW r \in X
      PROVE  <<r[1], r[2], New[r]>> \in Links /\ Edge(<<r[1], r[2], New[r]>>) = Edge(r)
  BY <1>1 DEF Links, Edge
<1>3. B \subseteq Links
  BY <1>2
<1>4. W = [f EXCEPT !.link = A \cup B]
  BY DEF Walk
<1>5. W = [state |-> f.state, link |-> A \cup B, twice |-> f.twice]
  <2> HIDE DEF A, B, W
  <2> QED
    BY <1>4 DEF Works
<1>6. W \in Works
  <2> HIDE DEF A, B, W
  <2> QED
    BY <1>1, <1>3, <1>5 DEF Works
<1>7. W.link = A \cup B /\ W.state = f.state /\ W.twice = f.twice
  <2> HIDE DEF A, B, W
  <2> QED
    BY <1>5
<1>8. ASSUME NEW r \in W.link
      PROVE  \E x \in f.link : /\ Edge(r) = Edge(x)
                               /\ x[1] \in S => r[2] \in w.alive /\ r[3] = New[x]
                               /\ x[1] \notin S => r = x
  <2>1. CASE r \in A
    BY <2>1
  <2>2. CASE r \in B
    <3>1. PICK x \in X : r = <<x[1], x[2], New[x]>>
      BY <2>2
    <3> QED
      BY <1>2, <3>1
  <2> QED
    BY <1>7, <2>1, <2>2
<1>9. ASSUME NEW x \in f.link
      PROVE  /\ x[1] \notin S => x \in W.link
             /\ x[1] \in S /\ x[2] \in w.alive => <<x[1], x[2], New[x]>> \in W.link
  <2> HIDE DEF W
  <2> QED
    BY <1>7
<1> HIDE DEF W
<1> QED
  BY <1>6, <1>7, <1>8, <1>9 DEF WalksTo, W

LEMMA WalkFits ==
  ASSUME NEW w, NEW f, Fit(w, f), NEW S, NEW New \in [Links -> Statuses]
  PROVE  Fit(w, Walk(w, f, S, New))
<1> DEFINE W == Walk(w, f, S, New)
<1>1. f \in Works /\ WalksTo(w, f, S, New, W)
  BY WalkIs DEF Fit
<1> HIDE DEF W
<1>2. W.link \subseteq Links /\ f.link \subseteq Links
  BY <1>1 DEF Works, WalksTo
<1>3. ASSUME NEW r \in W.link, NEW x \in W.link, Edge(r) = Edge(x) PROVE r = x
  <2>1. PICK a \in f.link : /\ Edge(r) = Edge(a) 
                            /\ a[1] \in S => r[2] \in w.alive /\ r[3] = New[a]
                            /\ a[1] \notin S => r = a
    BY <1>1 DEF WalksTo
  <2>2. PICK b \in f.link : /\ Edge(x) = Edge(b) 
                            /\ b[1] \in S => x[2] \in w.alive /\ x[3] = New[b]
                            /\ b[1] \notin S => x = b
    BY <1>1 DEF WalksTo
  <2>3. a = b
    BY <1>3, <2>1, <2>2 DEF Fit, Single
  <2>4. r[3] = x[3] \/ r = x
    BY <2>1, <2>2, <2>3
  <2> QED
    BY <1>2, <1>3, <2>4 DEF Links, Edge
<1>4. ASSUME NEW r \in W.link, r[2] \in w.alive PROVE r[2] # Gate /\ w.parent[r[2]] = r[1]
  <2>1. PICK a \in f.link : Edge(r) = Edge(a)
    BY <1>1 DEF WalksTo
  <2>2. r[1] = a[1] /\ r[2] = a[2]
    BY <2>1 DEF Edge
  <2> QED
    BY <1>4, <2>2 DEF Fit, Follows
<1> QED
  BY <1>1, <1>3, <1>4 DEF Fit, Single, Follows, WalksTo, W

LEMMA NotifyFits ==
  ASSUME NEW w, NEW f, Fit(w, f), NEW S, NEW st \in Statuses
  PROVE  Fit(w, Notify(f, S, st))
<1>1. f \in Works
  BY DEF Fit
<1>2. Notify(f, S, st) \in Works /\ Notify(f, S, st).link = f.link
  BY <1>1, NotifyIs
<1> QED
  BY <1>2 DEF Fit

\* What set::off sent to S reaches: along live links of active objects.
Freed(w, f, S) ==
    Reach({Edge(r) : r \in {x \in f.link : x[3] = "live" /\ f.state[x[1]] = "live"
                                           /\ x[2] \in w.alive}}, S)

\* What the release of S makes of the work f.
ReleasesTo(w, f, S, hit, R) ==
    /\ R \in Works /\ R.twice = f.twice
    /\ \A o \in Objects : R.state[o] = IF o \in hit THEN "idle" ELSE f.state[o]
    /\ S \subseteq hit /\ hit \subseteq Objects
    /\ \A x \in hit : \E s \in S : s \in Line(w, x)
    /\ \A x \in hit : x \in S \/ w.parent[x] \in hit
    /\ hit \subseteq S \cup w.alive
    /\ \A x \in f.link :
          x[3] = "live" /\ f.state[x[1]] = "live" /\ x[1] \in hit /\ x[2] \in w.alive
             => x[2] \in hit
    /\ \A r \in R.link : \E x \in f.link :
          /\ Edge(r) = Edge(x)
          /\ x[1] \in hit /\ f.state[x[1]] = "live" =>
                r[2] \in w.alive /\ r[3] = IF x[3] = "live" THEN "idle" ELSE x[3]
          /\ x[1] \notin hit \/ f.state[x[1]] # "live" => r = x
    /\ \A x \in f.link :
          /\ x[1] \notin hit \/ f.state[x[1]] # "live" => x \in R.link
          /\ x[2] \in w.alive => \E r \in R.link : Edge(r) = Edge(x)

LEMMA ReleaseIs ==
  ASSUME NEW w, NEW f, Fit(w, f), NEW S \in SUBSET Objects
  PROVE  /\ ReleasesTo(w, f, S, Freed(w, f, S), Release(w, f, S))
         /\ Fit(w, Release(w, f, S))
<1> DEFINE E == {x \in f.link : x[3] = "live" /\ f.state[x[1]] = "live" /\ x[2] \in w.alive}
           R   == {Edge(r) : r \in E}
           hit == Reach(R, S)
           New == [r \in Links |-> IF r[3] = "live" THEN "idle" ELSE r[3]]
           on  == hit \cap LiveObjects(f)
           W   == Walk(w, f, on, New)
           N   == Notify(W, hit, "idle")
<1>1. N = Release(w, f, S) /\ hit = Freed(w, f, S)
  BY DEF Release, Freed
<1>2. f \in Works /\ f.link \subseteq Links
  BY DEF Fit, Works
<1>3. New \in [Links -> Statuses]
  BY DEF Links, Statuses
<1>4. \A r \in Links : New[r] = IF r[3] = "live" THEN "idle" ELSE r[3]
  OBVIOUS
<1>5. ASSUME NEW e \in R
      PROVE  e[2] \in (Objects \cap w.alive) \ {Gate} /\ w.parent[e[2]] = e[1]
  <2>1. PICK r \in E : e = Edge(r)
    OBVIOUS
  <2>2. e[1] = r[1] /\ e[2] = r[2] /\ r[2] \in Objects
    BY <1>2, <2>1 DEF Edge, Links
  <2> QED
    BY <2>1, <2>2 DEF Fit, Follows
<1> HIDE DEF R, New
<1>6. S \subseteq hit
  BY ReachHas
<1>7. ASSUME NEW x \in hit
      PROVE  x \in S \/ (x \in Objects \cap w.alive /\ w.parent[x] \in hit)
  BY <1>5, ReachStep
<1>8. \A x \in hit : \E s \in S : s \in Line(w, x)
  BY <1>5, DownBelow
<1>9. ASSUME NEW x \in f.link, x[1] \in hit, f.state[x[1]] = "live", x[3] = "live",
             x[2] \in w.alive
      PROVE  x[2] \in hit
  <2>1. Edge(x) \in R /\ Edge(x)[1] = x[1] /\ Edge(x)[2] = x[2]
    BY <1>9 DEF R, Edge
  <2> QED
    BY <1>9, <2>1, ReachClosed DEF Closed
<1> HIDE DEF hit
<1>10. WalksTo(w, f, on, New, W) /\ Fit(w, W)
  BY <1>2, <1>3, WalkIs, WalkFits
<1>11. \A x \in Objects : x \in on <=> x \in hit /\ f.state[x] = "live"
  BY DEF LiveObjects
<1> HIDE DEF on, W
<1>12. "idle" \in Statuses /\ W \in Works
  BY <1>10 DEF Statuses, Fit
<1>13. /\ N \in Works /\ N.link = W.link /\ N.twice = W.twice
       /\ \A o \in Objects : N.state[o] = IF o \in hit THEN "idle" ELSE W.state[o]
  BY <1>12, NotifyIs
<1>14. Fit(w, N)
  BY <1>10, <1>12, NotifyFits
<1> HIDE DEF N
<1>15. ASSUME NEW r \in N.link
       PROVE  \E x \in f.link :
                /\ Edge(r) = Edge(x)
                /\ x[1] \in hit /\ f.state[x[1]] = "live" =>
                      r[2] \in w.alive /\ r[3] = IF x[3] = "live" THEN "idle" ELSE x[3]
                /\ x[1] \notin hit \/ f.state[x[1]] # "live" => r = x
  <2>1. PICK x \in f.link : /\ Edge(r) = Edge(x)
                            /\ x[1] \in on => r[2] \in w.alive /\ r[3] = New[x]
                            /\ x[1] \notin on => r = x
    BY <1>10, <1>13 DEF WalksTo
  <2>2. x[1] \in Objects /\ x \in Links
    BY <1>2 DEF Links
  <2> QED
    BY <1>4, <1>11, <2>1, <2>2
<1>16. ASSUME NEW x \in f.link
       PROVE  /\ x[1] \notin hit \/ f.state[x[1]] # "live" => x \in N.link
              /\ x[2] \in w.alive => \E r \in N.link : Edge(r) = Edge(x)
  <2>1. x[1] \in Objects /\ x \in Links
    BY <1>2 DEF Links
  <2>2. /\ x[1] \notin on => x \in N.link
        /\ x[1] \in on /\ x[2] \in w.alive => <<x[1], x[2], New[x]>> \in N.link
    BY <1>10, <1>13 DEF WalksTo
  <2>3. Edge(<<x[1], x[2], New[x]>>) = Edge(x)
    BY DEF Edge
  <2> QED
    BY <1>11, <2>1, <2>2, <2>3
<1>17. N.twice = f.twice /\ \A o \in Objects : N.state[o] = IF o \in hit THEN "idle" ELSE f.state[o]
  BY <1>10, <1>13 DEF WalksTo
<1>18. /\ hit \subseteq Objects /\ hit \subseteq S \cup w.alive
       /\ \A x \in hit : x \in S \/ w.parent[x] \in hit
  BY <1>7
<1>20. N \in Works
  BY <1>13
<1>19. ReleasesTo(w, f, S, hit, N)
  BY <1>6, <1>8, <1>9, <1>15, <1>16, <1>17, <1>18, <1>20 DEF ReleasesTo
<1> QED
  BY <1>1, <1>14, <1>19

----------------------------------------------------------------------------
(* The default chains that a gear copies, and what it copies of them.      *)

Sound(w, d) == /\ d.state \in [Objects -> Statuses \cup {"none"}]
               /\ d.link \subseteq Links
               /\ Single(d.link) /\ Follows(w, d.link)

Unknown(f)           == {x \in Objects : f.state[x] = "none"}
Offered(w, f, d)     == {r \in f.link \cup {x \in d.link : x[1] \in Unknown(f)} : r[2] \in w.alive}
Copied(w, f, d, o)   ==
    {x \in Reach({Edge(r) : r \in {x \in Offered(w, f, d) : d.state[x[1]] # "none"}}, {o}) :
        d.state[x] # "none"}

\* What the request dup at o makes of the work f.
DupsTo(w, f, d, o, hit, F) ==
    /\ hit \subseteq Objects /\ hit \subseteq {o} \cup w.alive
    /\ \A x \in hit : d.state[x] # "none" /\ o \in Line(w, x)
    /\ \A x \in hit \ {o} : \E r \in F.link : r[2] = x /\ r[1] \in hit
    /\ \A r \in F.link : r[1] \in hit /\ d.state[r[2]] # "none" => r[2] \in hit
    /\ F \in Works
    /\ \A x \in Objects : F.state[x] = IF x \in hit /\ f.state[x] = "none"
                                       THEN d.state[x] ELSE f.state[x]
    /\ \A r \in F.link : \/ r \in f.link
                         \/ /\ r \in d.link /\ f.state[r[1]] = "none"
                            /\ r[1] \in hit /\ r[2] \in w.alive
    /\ \A r \in f.link : r[2] \in w.alive => r \in F.link
    /\ \A r \in d.link :
          r[1] \in hit /\ f.state[r[1]] = "none" /\ r[2] \in w.alive => r \in F.link
    /\ F.twice = f.twice \cup {x \in hit : f.state[x] = "live"}

LEMMA DupIs ==
  ASSUME NEW w, NEW f, Fit(w, f), NEW d, Sound(w, d), NEW o \in Objects
  PROVE  DupsTo(w, f, d, o, Copied(w, f, d, o), Dup(w, f, d, o))
<1> DEFINE fresh == Unknown(f)
           link  == Offered(w, f, d)
           R     == {Edge(r) : r \in {x \in link : d.state[x[1]] # "none"}}
           hit   == {x \in Reach(R, {o}) : d.state[x] # "none"}
           state == [x \in Objects |-> IF x \in hit \cap fresh THEN d.state[x] ELSE f.state[x]]
           L     == {r \in f.link : r[1] \notin hit} \cup {r \in link : r[1] \in hit}
           T     == f.twice \cup {x \in hit \ fresh : state[x] = "live"}
           F     == [state |-> state, link |-> L, twice |-> T]
<1>0. /\ f.state \in [Objects -> Statuses \cup {"none"}] /\ f.link \subseteq Links
      /\ f.twice \subseteq Objects /\ f = [state |-> f.state, link |-> f.link, twice |-> f.twice]
      /\ d.state \in [Objects -> Statuses \cup {"none"}] /\ d.link \subseteq Links
  BY DEF Fit, Works, Sound
<1>1. hit = Copied(w, f, d, o)
  BY DEF Copied
<1>2. Dup(w, f, d, o) = [f EXCEPT !.state = state, !.link = L, !.twice = T]
  BY DEF Dup, Offered, Unknown
<1>3. Dup(w, f, d, o) = F
  <2> HIDE DEF state, L, T
  <2> QED
    BY <1>0, <1>2
<1>4. link \subseteq Links /\ Follows(w, link) /\ \A r \in link : r[2] \in w.alive
  BY <1>0 DEF Offered, Follows, Fit, Sound
<1>5. ASSUME NEW e \in R
      PROVE  /\ e[2] \in (Objects \cap w.alive) \ {Gate} /\ w.parent[e[2]] = e[1]
             /\ \E r \in link : /\ r[2] = e[2] /\ r[1] = e[1] /\ d.state[r[1]] # "none"
  <2>1. PICK r \in link : e = Edge(r) /\ d.state[r[1]] # "none"
    OBVIOUS
  <2>2. e[1] = r[1] /\ e[2] = r[2] /\ r[2] \in Objects
    BY <1>4, <2>1 DEF Edge, Links
  <2> QED
    BY <1>4, <2>1, <2>2 DEF Follows
<1> HIDE DEF R, link
<1>6. ASSUME NEW x \in Reach(R, {o}) PROVE x = o \/ x \in Objects \cap w.alive
  BY <1>5, ReachStep
<1>7. \A x \in Reach(R, {o}) : o \in Line(w, x)
  <2>1. \A x \in Reach(R, {o}) : \E s \in {o} : s \in Line(w, x)
    BY <1>5, DownBelow
  <2> QED
    BY <2>1
<1>8. ASSUME NEW x \in hit \ {o} PROVE \E r \in L : r[2] = x /\ r[1] \in hit
  <2>1. PICK e \in R : e[2] = x /\ e[1] \in Reach(R, {o})
    BY <1>8, ReachStep
  <2>2. PICK r \in link : r[2] = e[2] /\ r[1] = e[1] /\ d.state[r[1]] # "none"
    BY <1>5
  <2> QED
    BY <2>1, <2>2
<1>9. hit \subseteq Objects /\ hit \subseteq {o} \cup w.alive
  BY <1>6
<1>21. ASSUME NEW r \in link, r[1] \in hit, d.state[r[2]] # "none" PROVE r[2] \in hit
  <2>1. Edge(r) \in R /\ Edge(r)[1] = r[1] /\ Edge(r)[2] = r[2]
    BY <1>21 DEF R, Edge
  <2> QED
    BY <1>21, <2>1, ReachClosed DEF Closed
<1>10. \A x \in hit : d.state[x] # "none" /\ o \in Line(w, x)
  BY <1>7
<1> HIDE DEF hit
<1>11. \A x \in Objects : x \in fresh <=> f.state[x] = "none"
  BY DEF Unknown
<1>12. \A r \in link : r \in f.link \/ (r \in d.link /\ f.state[r[1]] = "none")
  BY DEF link, Offered, Unknown
<1>13. /\ \A r \in f.link : r[2] \in w.alive => r \in link
       /\ \A r \in d.link : f.state[r[1]] = "none" /\ r[2] \in w.alive => r \in link
  <2>1. \A r \in d.link : r[1] \in Objects
    BY <1>0 DEF Links
  <2> QED
    BY <2>1 DEF link, Offered, Unknown
<1> HIDE DEF fresh
<1>22. \A r \in L : r[1] \in hit /\ d.state[r[2]] # "none" => r[2] \in hit
  BY <1>21
<1>14. /\ \A r \in L : \/ r \in f.link
                       \/ /\ r \in d.link /\ f.state[r[1]] = "none"
                          /\ r[1] \in hit /\ r[2] \in w.alive
       /\ \A r \in f.link : r[2] \in w.alive => r \in L
       /\ \A r \in d.link :
             r[1] \in hit /\ f.state[r[1]] = "none" /\ r[2] \in w.alive => r \in L
  BY <1>4, <1>12, <1>13
<1>15. L \subseteq Links
  BY <1>0, <1>4
<1>16. \A x \in Objects : state[x] = IF x \in hit /\ f.state[x] = "none"
                                     THEN d.state[x] ELSE f.state[x]
  BY <1>11
<1>17. state \in [Objects -> Statuses \cup {"none"}]
  BY <1>0
<1>18. T = f.twice \cup {x \in hit : f.state[x] = "live"} /\ T \subseteq Objects
  <2>1. \A x \in hit : x \notin fresh /\ state[x] = "live" <=> f.state[x] = "live"
    BY <1>9, <1>11
  <2> HIDE DEF state
  <2> QED
    BY <1>0, <1>9, <2>1
<1> HIDE DEF L, T, state
<1>19. F \in Works
  BY <1>15, <1>17, <1>18 DEF Works
<1>20. F.state = state /\ F.link = L /\ F.twice = T
  OBVIOUS
<1> HIDE DEF F
<1> QED
  BY <1>1, <1>3, <1>8, <1>9, <1>10, <1>14, <1>16, <1>18, <1>19, <1>20, <1>22 DEF DupsTo

LEMMA DupFits ==
  ASSUME NEW w, NEW f, Fit(w, f), Bare(f) = {}, NEW d, Sound(w, d), NEW o \in Objects
  PROVE  Fit(w, Dup(w, f, d, o)) /\ Bare(Dup(w, f, d, o)) = {}
<1> DEFINE F   == Dup(w, f, d, o)
           hit == Copied(w, f, d, o)
<1>1. DupsTo(w, f, d, o, hit, F)
  BY DupIs
<1>2. f.link \subseteq Links /\ d.link \subseteq Links
  BY DEF Fit, Works, Sound
<1>3. \A r \in f.link : r[1] \in Objects /\ f.state[r[1]] # "none"
  BY <1>2 DEF Bare, Links
<1> HIDE DEF F, hit
<1>4. ASSUME NEW r \in F.link, NEW x \in F.link, Edge(r) = Edge(x) PROVE r = x
  <2>1. r[1] = x[1]
    BY <1>4 DEF Edge
  <2>2. (r \in f.link /\ x \in f.link) \/ (r \in d.link /\ x \in d.link)
    BY <1>1, <1>3, <2>1 DEF DupsTo
  <2> QED
    BY <1>4, <2>2 DEF Fit, Sound, Single
<1>5. Follows(w, F.link)
  BY <1>1 DEF DupsTo, Fit, Sound, Follows
<1>6. ASSUME NEW r \in F.link PROVE r[1] \in Objects /\ F.state[r[1]] # "none"
  <2>1. r[1] \in Objects
    BY <1>1 DEF DupsTo, Works, Links
  <2> QED
    BY <1>1, <1>3, <2>1 DEF DupsTo
<1> QED
  BY <1>1, <1>4, <1>5, <1>6 DEF Fit, Single, Bare, DupsTo, F

----------------------------------------------------------------------------
(* set::on, from where a request begins: what it finds there, having       *)
(* copied the default chains or not, and where it goes.                    *)

Prepared(w, g, f, d, o, first) ==
    IF f.state[o] = "none" /\ d.state[o] # "none" /\ g # Default /\ first
    THEN Dup(w, f, d, o) ELSE f

Passed(w, F) ==
    {Edge(r) : r \in {x \in F.link : /\ x[1] \notin Relays /\ x[2] \in w.alive
                                     /\ \/ x[3] # "dead"
                                        \/ x[1] \notin Endpoints /\ F.state[x[1]] = "dead"}}

\* What set::on makes of the work F, when it reaches the objects of hit.
ActivatesTo(w, F, o, hit, A) ==
    /\ A \in Works /\ A.twice = F.twice
    /\ o \in hit /\ hit \subseteq Objects /\ hit \subseteq {o} \cup w.alive
    /\ \A x \in hit : o \in Line(w, x)
    /\ \A x \in hit \ {o} : w.parent[x] \in hit /\ <<w.parent[x], x, "live">> \in A.link
    /\ \A x \in Objects : A.state[x] = IF x \in hit THEN "live" ELSE F.state[x]
    /\ \A x \in F.link :
          x[1] \in hit \ Relays /\ x[3] # "dead" /\ x[2] \in w.alive => x[2] \in hit
    /\ \A r \in A.link :
          /\ r[1] \in hit \ Relays => r[2] \in w.alive /\ (r[3] = "live" => r[2] \in hit)
          /\ \E x \in F.link : /\ Edge(r) = Edge(x)
                               /\ x[1] \notin hit \ Relays => r = x
    /\ \A x \in F.link :
          /\ x[1] \notin hit \ Relays => x \in A.link
          /\ x[2] \in w.alive => \E r \in A.link : Edge(r) = Edge(x) /\ (x[3] = "live" => r = x)

LEMMA ActivateIs ==
  ASSUME NEW w, NEW g, NEW f, NEW d, NEW o \in Objects, NEW first,
         NEW F, F = Prepared(w, g, f, d, o, first), Fit(w, F)
  PROVE  /\ ActivatesTo(w, F, o, Reach(Passed(w, F), {o}), Activate(w, g, f, d, o, first))
         /\ Fit(w, Activate(w, g, f, d, o, first))
<1> DEFINE E == {x \in F.link : /\ x[1] \notin Relays /\ x[2] \in w.alive
                                /\ \/ x[3] # "dead"
                                   \/ x[1] \notin Endpoints /\ F.state[x[1]] = "dead"}
           R   == {Edge(r) : r \in E}
           hit == Reach(R, {o})
           New == [r \in Links |-> IF Edge(r) \in R THEN "live" ELSE r[3]]
           on  == hit \ Relays
           W   == Walk(w, F, on, New)
           A   == Notify(W, hit, "live")
<1>1. A = Activate(w, g, f, d, o, first) /\ R = Passed(w, F)
  BY DEF Activate, Prepared, Passed
<1>2. F \in Works /\ F.link \subseteq Links
  BY DEF Fit, Works
<1>3. ASSUME NEW e \in R
      PROVE  /\ e[2] \in (Objects \cap w.alive) \ {Gate} /\ w.parent[e[2]] = e[1]
             /\ \E r \in E : r[1] = e[1] /\ r[2] = e[2] /\ e = Edge(r)
  <2>1. PICK r \in E : e = Edge(r)
    OBVIOUS
  <2>2. e[1] = r[1] /\ e[2] = r[2] /\ r[2] \in Objects
    BY <1>2, <2>1 DEF Edge, Links
  <2> QED
    BY <2>1, <2>2 DEF Fit, Follows
<1>4. New \in [Links -> Statuses] /\ \A r \in Links : New[r] = IF Edge(r) \in R THEN "live" ELSE r[3]
  <2> HIDE DEF R
  <2>1. "live" \in Statuses /\ \A r \in Links : r[3] \in Statuses
    BY DEF Links, Statuses
  <2> QED
    BY <2>1
<1>5. \A r \in E : Edge(r) \in R
  OBVIOUS
<1>6. \A x \in F.link : x[1] \notin Relays /\ x[2] \in w.alive /\ x[3] # "dead" => x \in E
  OBVIOUS
<1>7. E \subseteq F.link /\ \A x \in E : x[1] \notin Relays /\ x[2] \in w.alive
  OBVIOUS
<1> HIDE DEF E, R, New
<1>8. o \in hit
  BY ReachHas
<1>9. ASSUME NEW x \in hit, x # o
      PROVE  /\ x \in Objects \cap w.alive
             /\ \E r \in E : r[1] \in hit /\ r[2] = x /\ w.parent[x] = r[1] /\ Edge(r) \in R
  <2>1. PICK e \in R : e[2] = x /\ e[1] \in hit
    BY <1>9, ReachStep
  <2> QED
    BY <1>3, <2>1
<1>10. \A x \in hit : o \in Line(w, x)
  <2>1. \A x \in hit : \E s \in {o} : s \in Line(w, x)
    BY <1>3, DownBelow
  <2> QED
    BY <2>1
<1>11. ASSUME NEW x \in Links, Edge(x) \in R, x[1] \in hit PROVE x[2] \in hit
  <2>1. Edge(x)[1] = x[1] /\ Edge(x)[2] = x[2]
    BY DEF Edge
  <2> QED
    BY <1>11, <2>1, ReachClosed DEF Closed
<1> HIDE DEF hit
<1>12. WalksTo(w, F, on, New, W) /\ Fit(w, W)
  BY <1>2, <1>4, WalkIs, WalkFits
<1> HIDE DEF W
<1>13. "live" \in Statuses /\ W \in Works
  BY <1>12 DEF Statuses, Fit
<1>14. /\ A \in Works /\ A.link = W.link /\ A.twice = W.twice
       /\ \A x \in Objects : A.state[x] = IF x \in hit THEN "live" ELSE W.state[x]
  BY <1>13, NotifyIs
<1>15. Fit(w, A)
  BY <1>12, <1>13, NotifyFits
<1> HIDE DEF A
<1>16. ASSUME NEW x \in hit \ {o}
       PROVE  w.parent[x] \in hit /\ <<w.parent[x], x, "live">> \in A.link
  <2>1. PICK r \in E : r[1] \in hit /\ r[2] = x /\ w.parent[x] = r[1] /\ Edge(r) \in R
    BY <1>9
  <2>2. r \in F.link /\ r \in Links /\ r[1] \in on /\ r[2] \in w.alive
    BY <1>2, <1>7, <2>1
  <2>3. <<r[1], r[2], New[r]>> \in A.link
    BY <1>12, <1>14, <2>2 DEF WalksTo
  <2> QED
    BY <1>4, <2>1, <2>2, <2>3
<1>17. ASSUME NEW x \in F.link, x[1] \in hit \ Relays, x[3] # "dead", x[2] \in w.alive
       PROVE  x[2] \in hit
  BY <1>2, <1>5, <1>6, <1>11, <1>17
<1>18. ASSUME NEW r \in A.link
       PROVE  /\ r[1] \in hit \ Relays => r[2] \in w.alive /\ (r[3] = "live" => r[2] \in hit)
              /\ \E x \in F.link : /\ Edge(r) = Edge(x)
                                   /\ x[1] \notin hit \ Relays => r = x
  <2>1. PICK x \in F.link : /\ Edge(r) = Edge(x)
                            /\ x[1] \in on => r[2] \in w.alive /\ r[3] = New[x]
                            /\ x[1] \notin on => r = x
    BY <1>12, <1>14 DEF WalksTo
  <2>2. r[1] = x[1] /\ r[2] = x[2] /\ x \in Links
    BY <1>2, <2>1 DEF Edge
  <2>3. ASSUME r[1] \in hit \ Relays, r[3] = "live" PROVE r[2] \in hit
    <3>1. r[2] \in w.alive /\ (Edge(x) \in R \/ x[3] = "live")
      BY <1>4, <2>1, <2>2, <2>3
    <3>2. CASE Edge(x) \in R
      BY <1>11, <2>2, <2>3, <3>2
    <3>3. CASE x[3] = "live"
      BY <1>17, <2>2, <2>3, <3>1, <3>3
    <3> QED
      BY <3>1, <3>2, <3>3
  <2> QED
    BY <2>1, <2>2, <2>3
<1>19. ASSUME NEW x \in F.link
       PROVE  /\ x[1] \notin hit \ Relays => x \in A.link
              /\ x[2] \in w.alive =>
                    \E r \in A.link : Edge(r) = Edge(x) /\ (x[3] = "live" => r = x)
  <2>1. /\ x[1] \notin on => x \in A.link
        /\ x[1] \in on /\ x[2] \in w.alive => <<x[1], x[2], New[x]>> \in A.link
    BY <1>12, <1>14 DEF WalksTo
  <2>2. x \in Links /\ x = <<x[1], x[2], x[3]>> /\ Edge(<<x[1], x[2], New[x]>>) = Edge(x)
    BY <1>2 DEF Edge, Links
  <2>3. x[3] = "live" => New[x] = "live"
    BY <1>4, <2>2
  <2> QED
    BY <2>1, <2>2, <2>3
<1>20. A.twice = F.twice /\ \A x \in Objects : A.state[x] = IF x \in hit THEN "live" ELSE F.state[x]
  BY <1>12, <1>14 DEF WalksTo
<1>21. hit \subseteq Objects /\ hit \subseteq {o} \cup w.alive
  BY <1>9
<1>22. ActivatesTo(w, F, o, hit, A)
  BY <1>8, <1>10, <1>14, <1>16, <1>17, <1>18, <1>19, <1>20, <1>21 DEF ActivatesTo
<1> QED
  BY <1>1, <1>15, <1>22 DEF hit

LEMMA PreparedFits ==
  ASSUME NEW w, NEW g, NEW f, Fit(w, f), Bare(f) = {}, NEW d, Sound(w, d),
         NEW o \in Objects, NEW first
  PROVE  /\ Fit(w, Prepared(w, g, f, d, o, first))
         /\ Bare(Prepared(w, g, f, d, o, first)) = {}
BY DupFits DEF Prepared

----------------------------------------------------------------------------
(* What rises from o: the links of the line, and the branches beside it.   *)

Path(w, o, up) == {e \in Toward(w, o) : e[1] \in up}

\* The links after a rising set::on has passed, none released yet.
Bound(w, g, f, o, solo) ==
    LET up     == Raised(w, f, o, solo)
        path   == Path(w, o, up)
        known  == {Edge(r) : r \in f.link} \cap path
        walked == IF solo THEN up ELSE IF g = Default THEN {} ELSE {e[1] : e \in known}
        New    == [r \in Links |-> IF solo \/ r[3] = "idle" THEN "dead" ELSE r[3]]
    IN  [Walk(w, f, walked, New) EXCEPT
            !.link = {r \in @ : Edge(r) \notin path} \cup {<<e[1], e[2], "live">> : e \in path}]

Beside(w, f, o, up) ==
    {r[2] : r \in {x \in f.link : x[1] \in up /\ Edge(x) \notin Path(w, o, up) /\ x[2] \in w.alive}}

BindsTo(w, f, solo, up, path, L) ==
    /\ L \in Works /\ L.state = f.state /\ L.twice = f.twice
    /\ \A e \in path : <<e[1], e[2], "live">> \in L.link
    /\ \A r \in L.link :
          \/ Edge(r) \in path /\ r[3] = "live"
          \/ \E x \in f.link : /\ Edge(x) = Edge(r) /\ Edge(r) \notin path
                               /\ r[1] \notin up => r = x
                               /\ r[3] = "live" => r = x /\ ~(solo /\ r[1] \in up)
    /\ \A x \in f.link :
          /\ x[1] \notin up => x \in L.link
          /\ x[2] \in w.alive => \E r \in L.link : Edge(r) = Edge(x)
          /\ x[2] \in w.alive /\ x[3] = "live" /\ ~(solo /\ x[1] \in up) => x \in L.link

\* The edges of a path join a parent of the line to the next object of it.
LEMMA PathIs ==
  ASSUME NEW w \in Scenes, NEW o \in Objects, NEW up
  PROVE  /\ \A e \in Path(w, o, up) : /\ e = <<e[1], e[2]>>
                                      /\ e[1] \in Objects /\ e[1] \in up
                                      /\ e[2] \in (Line(w, o) \cap Objects) \ {Gate}
                                      /\ w.parent[e[2]] = e[1]
         /\ \A x \in Line(w, o) \ {Gate} :
               w.parent[x] \in up => <<w.parent[x], x>> \in Path(w, o, up)
<1>0. Line(w, o) \subseteq Objects /\ \A x \in Objects : w.parent[x] \in Objects
  BY LineObjects DEF Scenes
<1>1. ASSUME NEW e \in Path(w, o, up)
      PROVE  /\ e = <<e[1], e[2]>> /\ e[1] \in Objects /\ e[1] \in up
             /\ e[2] \in (Line(w, o) \cap Objects) \ {Gate}
             /\ w.parent[e[2]] = e[1]
  <2>1. PICK x \in Line(w, o) \ {Gate} : e = <<w.parent[x], x>>
    BY DEF Path, Toward
  <2> QED
    BY <1>0, <2>1 DEF Path
<1>2. ASSUME NEW x \in Line(w, o) \ {Gate}, w.parent[x] \in up
      PROVE  <<w.parent[x], x>> \in Path(w, o, up)
  BY <1>2 DEF Path, Toward
<1> QED
  BY <1>1, <1>2

LEMMA BoundIs ==
  ASSUME NEW w \in Scenes, NEW g, NEW f, Fit(w, f), NEW o \in Objects, NEW solo \in BOOLEAN
  PROVE  LET up == Raised(w, f, o, solo)
         IN  /\ BindsTo(w, f, solo, up, Path(w, o, up), Bound(w, g, f, o, solo))
             /\ Fit(w, Bound(w, g, f, o, solo))
<1> DEFINE up     == Raised(w, f, o, solo)
           path   == Path(w, o, up)
           known  == {Edge(r) : r \in f.link} \cap path
           walked == IF solo THEN up ELSE IF g = Default THEN {} ELSE {e[1] : e \in known}
           New    == [r \in Links |-> IF solo \/ r[3] = "idle" THEN "dead" ELSE r[3]]
           W      == Walk(w, f, walked, New)
           A      == {r \in W.link : Edge(r) \notin path}
           B      == {<<e[1], e[2], "live">> : e \in path}
           L      == Bound(w, g, f, o, solo)
<1>1. L = [W EXCEPT !.link = A \cup B]
  BY DEF Bound
<1>2. f \in Works /\ f.link \subseteq Links
  BY DEF Fit, Works
<1>3. New \in [Links -> Statuses] /\ \A r \in Links : New[r] = IF solo \/ r[3] = "idle" THEN "dead" ELSE r[3]
  <2>1. "dead" \in Statuses /\ \A r \in Links : r[3] \in Statuses
    BY DEF Links, Statuses
  <2> QED
    BY <2>1
<1>4. \A e \in path : /\ e = <<e[1], e[2]>> /\ e[1] \in Objects /\ e[1] \in up
                      /\ e[2] \in Objects \ {Gate} /\ w.parent[e[2]] = e[1]
  BY PathIs
<1> HIDE DEF path, New
<1>5. walked \subseteq up /\ (solo => walked = up)
  BY <1>4
<1> HIDE DEF walked, up
<1>6. WalksTo(w, f, walked, New, W) /\ Fit(w, W)
  BY <1>2, <1>3, WalkIs, WalkFits
<1> HIDE DEF W
<1>7. ASSUME NEW e \in path
      PROVE  /\ <<e[1], e[2], "live">> \in Links /\ Edge(<<e[1], e[2], "live">>) = e
             /\ <<e[1], e[2], "live">> \in B
  BY <1>4 DEF Links, Statuses, Edge
<1>8. ASSUME NEW r \in B
      PROVE  r \in Links /\ Edge(r) \in path /\ r[3] = "live" /\ r = <<r[1], r[2], "live">>
  <2>1. PICK e \in path : r = <<e[1], e[2], "live">>
    OBVIOUS
  <2> QED
    BY <1>7, <2>1
<1>9. A \subseteq W.link /\ W.link \subseteq Links /\ \A r \in A : Edge(r) \notin path
  BY <1>6 DEF WalksTo, Works
<1>10. \A r \in W.link : Edge(r) \notin path => r \in A
  OBVIOUS
<1> HIDE DEF A, B, L
<1>11. L = [state |-> W.state, link |-> A \cup B, twice |-> W.twice] /\ L \in Works
  <2>1. W \in Works /\ A \cup B \subseteq Links
    BY <1>6, <1>8, <1>9 DEF WalksTo
  <2> QED
    BY <1>1, <2>1 DEF Works
<1>12. L.state = f.state /\ L.link = A \cup B /\ L.twice = f.twice
  BY <1>6, <1>11 DEF WalksTo
<1>13. ASSUME NEW r \in L.link
       PROVE  \/ Edge(r) \in path /\ r[3] = "live"
              \/ \E x \in f.link : /\ Edge(x) = Edge(r) /\ Edge(r) \notin path
                                   /\ r[1] \notin up => r = x
                                   /\ r[3] = "live" => r = x /\ ~(solo /\ r[1] \in up)
  <2>1. CASE r \in B
    BY <1>8, <2>1
  <2>2. CASE r \in A
    <3>1. PICK x \in f.link : /\ Edge(r) = Edge(x)
                              /\ x[1] \in walked => r[2] \in w.alive /\ r[3] = New[x]
                              /\ x[1] \notin walked => r = x
      BY <1>6, <1>9, <2>2 DEF WalksTo
    <3>2. r \in Links /\ x \in Links /\ r[1] = x[1] /\ r[2] = x[2]
      BY <1>2, <1>9, <2>2, <3>1 DEF Edge
    <3>3. r[3] = "live" => r[3] = x[3] /\ ~(solo /\ r[1] \in up)
      BY <1>3, <1>5, <3>1, <3>2
    <3>4. r[3] = x[3] => r = x
      BY <3>2 DEF Links
    <3> QED
      BY <1>5, <1>9, <2>2, <3>1, <3>2, <3>3, <3>4
  <2> QED
    BY <1>12, <2>1, <2>2
<1>14. ASSUME NEW x \in f.link
       PROVE  /\ x[1] \notin up => x \in L.link
              /\ x[2] \in w.alive => \E r \in L.link : Edge(r) = Edge(x)
              /\ x[2] \in w.alive /\ x[3] = "live" /\ ~(solo /\ x[1] \in up) => x \in L.link
  <2>1. /\ x[1] \notin walked => x \in W.link
        /\ x[1] \in walked /\ x[2] \in w.alive => <<x[1], x[2], New[x]>> \in W.link
    BY <1>6 DEF WalksTo
  <2>2. x \in Links /\ x = <<x[1], x[2], x[3]>> /\ Edge(<<x[1], x[2], New[x]>>) = Edge(x)
        /\ Edge(x)[1] = x[1] /\ Edge(x)[2] = x[2]
    BY <1>2 DEF Edge, Links
  <2>3. x[3] = "live" /\ ~solo => New[x] = "live"
    BY <1>3, <2>2
  <2>4. CASE Edge(x) \in path
    BY <1>4, <1>7, <1>12, <2>2, <2>4
  <2>5. CASE Edge(x) \notin path
    <3>1. x[2] \in w.alive => \E r \in W.link : Edge(r) = Edge(x)
      BY <2>1, <2>2
    <3>2. x[2] \in w.alive /\ x[3] = "live" /\ ~(solo /\ x[1] \in up) => x \in W.link
      BY <1>5, <2>1, <2>2, <2>3
    <3> QED
      BY <1>5, <1>10, <1>12, <2>1, <2>5, <3>1, <3>2
  <2> QED
    BY <2>4, <2>5
<1>15. \A e \in path : <<e[1], e[2], "live">> \in L.link
  BY <1>7, <1>12
<1>16. BindsTo(w, f, solo, up, path, L)
  BY <1>11, <1>12, <1>13, <1>14, <1>15 DEF BindsTo
<1>17. Follows(w, L.link)
  <2>1. ASSUME NEW r \in L.link, r[2] \in w.alive PROVE r[2] # Gate /\ w.parent[r[2]] = r[1]
    <3>1. CASE r \in A
      BY <1>6, <1>9, <2>1, <3>1 DEF Fit, Follows
    <3>2. CASE r \in B
      <4>1. Edge(r)[1] = r[1] /\ Edge(r)[2] = r[2]
        BY DEF Edge
      <4> QED
        BY <1>4, <1>8, <3>2, <4>1
    <3> QED
      BY <1>12, <2>1, <3>1, <3>2
  <2> QED
    BY <2>1 DEF Follows
<1>18. Single(L.link)
  <2>1. ASSUME NEW r \in L.link, NEW x \in L.link, Edge(r) = Edge(x) PROVE r = x
    <3>1. CASE r \in A /\ x \in A
      BY <1>6, <1>9, <2>1, <3>1 DEF Fit, Single
    <3>2. CASE r \in B /\ x \in B
      <4>1. r[1] = x[1] /\ r[2] = x[2]
        BY <2>1 DEF Edge
      <4> QED
        BY <1>8, <3>2, <4>1
    <3> QED
      BY <1>8, <1>9, <1>12, <2>1, <3>1, <3>2
  <2> QED
    BY <2>1 DEF Single
<1> QED
  BY <1>11, <1>16, <1>17, <1>18 DEF Fit, path, up, L

LEMMA BesideIs ==
  ASSUME NEW w \in Scenes, NEW f, Fit(w, f), NEW o \in Objects, NEW up
  PROVE  /\ \A s \in Beside(w, f, o, up) :
               /\ s \in (Objects \cap w.alive) \ {Gate} /\ w.parent[s] \in up
               /\ s \notin Line(w, o)
         /\ \A x \in f.link : x[1] \in up /\ Edge(x) \notin Path(w, o, up) /\ x[2] \in w.alive
                                 => x[2] \in Beside(w, f, o, up)
<1>1. ASSUME NEW s \in Beside(w, f, o, up)
      PROVE  /\ s \in (Objects \cap w.alive) \ {Gate} /\ w.parent[s] \in up
             /\ s \notin Line(w, o)
  <2>1. PICK x \in f.link : /\ s = x[2] /\ x[1] \in up /\ Edge(x) \notin Path(w, o, up)
                            /\ x[2] \in w.alive
    BY DEF Beside
  <2>2. x[2] \in Objects \ {Gate} /\ w.parent[x[2]] = x[1] /\ Edge(x) = <<x[1], x[2]>>
    BY <2>1 DEF Fit, Works, Links, Follows, Edge
  <2>3. x[2] \notin Line(w, o)
    BY <2>1, <2>2, PathIs
  <2> QED
    BY <2>1, <2>2, <2>3
<1>2. \A x \in f.link : x[1] \in up /\ Edge(x) \notin Path(w, o, up) /\ x[2] \in w.alive
                           => x[2] \in Beside(w, f, o, up)
  BY DEF Beside
<1> QED
  BY <1>1, <1>2

LEMMA VisitedLine ==
  ASSUME NEW w, NEW o \in Objects, NEW stops
  PROVE  Visited(w, o, stops) \subseteq Line(w, o)
<1>1. CASE o = Gate
  BY <1>1 DEF Visited
<1>2. CASE o # Gate
  BY <1>2, VisitedIn, LineStep
<1> QED
  BY <1>1, <1>2

\* What set::on rising from o makes of the work f.
RaisesTo(w, f, o, solo, up, hit, A) ==
    /\ A \in Works /\ A.twice = f.twice
    /\ \A x \in Objects : A.state[x] = IF x \in up THEN "live"
                                       ELSE IF x \in hit THEN "idle" ELSE f.state[x]
    /\ hit \subseteq Objects \cap w.alive /\ (~solo => hit = {})
    /\ \A x \in hit : \E s \in Beside(w, f, o, up) : s \in Line(w, x)
    /\ solo => Beside(w, f, o, up) \subseteq hit
    /\ \A x \in hit : x \in Beside(w, f, o, up) \/ w.parent[x] \in hit
    /\ \A x \in f.link :
          x[3] = "live" /\ f.state[x[1]] = "live" /\ x[1] \in hit \ up /\ x[2] \in w.alive
             => x[2] \in hit
    /\ \A e \in Path(w, o, up) : <<e[1], e[2], "live">> \in A.link
    /\ \A r \in A.link :
          \/ Edge(r) \in Path(w, o, up) /\ r[3] = "live"
          \/ \E x \in f.link : /\ Edge(x) = Edge(r)
                               /\ r[3] = "live" => /\ r = x /\ ~(solo /\ r[1] \in up)
                                                   /\ ~(r[1] \in hit /\ f.state[r[1]] = "live")
    /\ \A x \in f.link :
          /\ x[2] \in w.alive => \E r \in A.link : Edge(r) = Edge(x)
          /\ x[2] \in w.alive /\ x[3] = "live" /\ ~(solo /\ x[1] \in up)
                /\ ~(x[1] \in hit /\ f.state[x[1]] = "live") => x \in A.link

LEMMA RaiseIs ==
  ASSUME NEW w \in Scenes, NEW g, NEW f, Fit(w, f), NEW o \in Objects, NEW solo \in BOOLEAN
  PROVE  /\ \E hit : RaisesTo(w, f, o, solo, Raised(w, f, o, solo), hit, Raise(w, g, f, o, solo))
         /\ Fit(w, Raise(w, g, f, o, solo))
<1> DEFINE up     == Raised(w, f, o, solo)
           path   == Path(w, o, up)
           others == Beside(w, f, o, up)
           L      == Bound(w, g, f, o, solo)
           hit    == IF solo THEN Freed(w, L, others) ELSE {}
           M      == IF solo THEN Release(w, L, others) ELSE L
           A      == Notify(M, up, "live")
<1>1. A = Raise(w, g, f, o, solo)
  BY DEF Raise, Bound, Beside, Path
<1>2. BindsTo(w, f, solo, up, path, L) /\ Fit(w, L)
  BY BoundIs
<1>3. up \subseteq Line(w, o)
  BY VisitedLine DEF Raised
<1>4. /\ \A s \in others : s \in (Objects \cap w.alive) \ {Gate} /\ s \notin Line(w, o)
      /\ \A e \in path : e[1] \in up /\ e = <<e[1], e[2]>>
  BY BesideIs, PathIs
<1> HIDE DEF up, path, others, L
<1>5. others \in SUBSET Objects
  BY <1>4
<1>6. ReleasesTo(w, L, others, Freed(w, L, others), Release(w, L, others))
      /\ Fit(w, Release(w, L, others))
  BY <1>2, <1>5, ReleaseIs
<1>7. /\ hit \subseteq Objects \cap w.alive /\ (~solo => hit = {})
      /\ \A x \in hit : \E s \in others : s \in Line(w, x)
      /\ solo => others \subseteq hit
      /\ \A x \in hit : x \in others \/ w.parent[x] \in hit
  <2>1. CASE solo
    BY <1>4, <1>6, <2>1 DEF ReleasesTo
  <2>2. CASE ~solo
    BY <2>2
  <2> QED
    BY <2>1, <2>2
<1>8. \A x \in hit : x \notin Line(w, o)
  BY <1>4, <1>7, LineTrans
<1>9. /\ Fit(w, M) /\ M.twice = L.twice
      /\ \A x \in Objects : M.state[x] = IF x \in hit THEN "idle" ELSE L.state[x]
      /\ \A x \in L.link :
            x[3] = "live" /\ L.state[x[1]] = "live" /\ x[1] \in hit /\ x[2] \in w.alive
               => x[2] \in hit
      /\ \A r \in M.link : \E x \in L.link :
            /\ Edge(r) = Edge(x)
            /\ x[1] \in hit /\ L.state[x[1]] = "live" => r[3] # "live"
            /\ x[1] \notin hit \/ L.state[x[1]] # "live" => r = x
      /\ \A x \in L.link :
            /\ x[1] \notin hit \/ L.state[x[1]] # "live" => x \in M.link
            /\ x[2] \in w.alive => \E r \in M.link : Edge(r) = Edge(x)
  <2>1. CASE solo
    BY <1>6, <2>1 DEF ReleasesTo
  <2>2. CASE ~solo
    BY <1>2, <2>2
  <2> QED
    BY <2>1, <2>2
<1> HIDE DEF hit, M
<1>10. "live" \in Statuses /\ M \in Works
  BY <1>9 DEF Statuses, Fit
<1>11. /\ A \in Works /\ A.link = M.link /\ A.twice = M.twice
       /\ \A x \in Objects : A.state[x] = IF x \in up THEN "live" ELSE M.state[x]
  BY <1>10, NotifyIs
<1>12. Fit(w, A)
  BY <1>9, <1>10, NotifyFits
<1> HIDE DEF A
<1>13. f.link \subseteq Links /\ L.link \subseteq Links /\ L.state = f.state
  BY <1>2 DEF Fit, Works, BindsTo
<1>14. ASSUME NEW e \in path PROVE <<e[1], e[2], "live">> \in A.link
  <2>1. <<e[1], e[2], "live">> \in L.link
    BY <1>2 DEF BindsTo
  <2>2. e[1] \notin hit
    BY <1>3, <1>4, <1>8
  <2> DEFINE r == <<e[1], e[2], "live">>
  <2>3. r[1] = e[1]
    OBVIOUS
  <2> HIDE DEF r
  <2>4. r \in L.link => r \in M.link
    BY <1>9, <2>2, <2>3
  <2> QED
    BY <1>11, <2>1, <2>4 DEF r
<1>15. ASSUME NEW r \in A.link
       PROVE  \/ Edge(r) \in path /\ r[3] = "live"
              \/ \E x \in f.link : /\ Edge(x) = Edge(r)
                                   /\ r[3] = "live" => /\ r = x /\ ~(solo /\ r[1] \in up)
                                                       /\ ~(r[1] \in hit /\ f.state[r[1]] = "live")
  <2>1. PICK y \in L.link : /\ Edge(r) = Edge(y)
                            /\ y[1] \in hit /\ L.state[y[1]] = "live" => r[3] # "live"
                            /\ y[1] \notin hit \/ L.state[y[1]] # "live" => r = y
    BY <1>9, <1>11
  <2>2. r[1] = y[1]
    BY <2>1 DEF Edge
  <2>3. CASE Edge(y) \in path /\ y[3] = "live"
    <3>1. y[1] \in up
      BY <1>4, <2>3 DEF Edge
    <3> QED
      BY <1>3, <1>8, <2>1, <2>3, <3>1
  <2>4. CASE \E x \in f.link : /\ Edge(x) = Edge(y) /\ Edge(y) \notin path
                               /\ y[1] \notin up => y = x
                               /\ y[3] = "live" => y = x /\ ~(solo /\ y[1] \in up)
    BY <1>13, <2>1, <2>2, <2>4
  <2> QED
    BY <1>2, <2>3, <2>4 DEF BindsTo
<1>16. ASSUME NEW x \in f.link
       PROVE  /\ x[2] \in w.alive => \E r \in A.link : Edge(r) = Edge(x)
              /\ x[2] \in w.alive /\ x[3] = "live" /\ ~(solo /\ x[1] \in up)
                    /\ ~(x[1] \in hit /\ f.state[x[1]] = "live") => x \in A.link
  <2>1. ASSUME x[2] \in w.alive PROVE \E r \in A.link : Edge(r) = Edge(x)
    <3>1. PICK y \in L.link : Edge(y) = Edge(x)
      BY <1>2, <2>1 DEF BindsTo
    <3>2. y[2] = x[2]
      BY <3>1 DEF Edge
    <3> QED
      BY <1>9, <1>11, <2>1, <3>1, <3>2
  <2>2. ASSUME x[2] \in w.alive, x[3] = "live", ~(solo /\ x[1] \in up),
               ~(x[1] \in hit /\ f.state[x[1]] = "live")
        PROVE  x \in A.link
    <3>1. x \in L.link
      BY <1>2, <2>2 DEF BindsTo
    <3> QED
      BY <1>9, <1>11, <1>13, <2>2, <3>1
  <2> QED
    BY <2>1, <2>2
<1>17. ASSUME NEW x \in f.link, x[3] = "live", f.state[x[1]] = "live", x[1] \in hit \ up,
              x[2] \in w.alive
       PROVE  x[2] \in hit
  <2>1. x \in L.link
    BY <1>2, <1>17 DEF BindsTo
  <2> QED
    BY <1>9, <1>13, <1>17, <2>1
<1>18. A.twice = f.twice /\ \A x \in Objects : A.state[x] =
           IF x \in up THEN "live" ELSE IF x \in hit THEN "idle" ELSE f.state[x]
  BY <1>2, <1>9, <1>11, <1>13 DEF BindsTo
<1>19. RaisesTo(w, f, o, solo, up, hit, A)
  BY <1>7, <1>11, <1>14, <1>15, <1>16, <1>17, <1>18 DEF RaisesTo, path, others
<1> QED
  BY <1>1, <1>12, <1>19 DEF up

----------------------------------------------------------------------------
(* What set::off that rises from o makes of the work f.                    *)

LEMMA ChainedIs ==
  ASSUME NEW w, NEW f, Fit(w, f), NEW S
  PROVE  /\ Fit(w, Chained(f, S)) /\ Chained(f, S).link = f.link
         /\ Chained(f, S).twice = f.twice
         /\ \A x \in Objects : Chained(f, S).state[x] =
               IF x \in S /\ f.state[x] = "none" THEN "dead" ELSE f.state[x]
<1> DEFINE st == [x \in Objects |-> IF x \in S /\ f.state[x] = "none" THEN "dead" ELSE f.state[x]]
<1>1. f \in Works
  BY DEF Fit
<1>2. Chained(f, S) = [f EXCEPT !.state = st]
  BY DEF Chained
<1>3. st \in [Objects -> Statuses \cup {"none"}]
  BY <1>1 DEF Works, Statuses
<1>4. \A x \in Objects : st[x] = IF x \in S /\ f.state[x] = "none" THEN "dead" ELSE f.state[x]
  OBVIOUS
<1> HIDE DEF st
<1>5. Chained(f, S) = [state |-> st, link |-> f.link, twice |-> f.twice]
  BY <1>1, <1>2 DEF Works
<1>6. /\ Chained(f, S).state = st /\ Chained(f, S).link = f.link
      /\ Chained(f, S).twice = f.twice /\ Chained(f, S) \in Works
  BY <1>1, <1>3, <1>5 DEF Works
<1> QED
  BY <1>4, <1>6 DEF Fit

LowersTo(w, f, o, up, A) ==
    /\ A \in Works /\ A.twice = f.twice
    /\ \A x \in Objects : A.state[x] =
          IF x \in up \ LastStep(f) THEN "idle"
          ELSE IF x \in up /\ f.state[x] = "none" THEN "dead" ELSE f.state[x]
    /\ \A r \in A.link : \E x \in f.link :
          /\ Edge(x) = Edge(r)
          /\ r[3] = "live" => r = x /\ ~(r[1] \in up /\ Edge(r) \in Toward(w, o))
    /\ \A x \in f.link :
          /\ x[2] \in w.alive => \E r \in A.link : Edge(r) = Edge(x)
          /\ x[2] \in w.alive /\ x[3] = "live" /\ ~(x[1] \in up /\ Edge(x) \in Toward(w, o))
                => x \in A.link

LEMMA LowerIs ==
  ASSUME NEW w, NEW f, Fit(w, f), NEW o
  PROVE  /\ LowersTo(w, f, o, Lowered(w, f, o), Lower(w, f, o))
         /\ Fit(w, Lower(w, f, o))
<1> DEFINE up   == Lowered(w, f, o)
           last == up \cap LastStep(f)
           New  == [r \in Links |-> IF Edge(r) \notin Toward(w, o) THEN r[3]
                                    ELSE IF r[1] \in last THEN "dead" ELSE "idle"]
           W    == Walk(w, f, up, New)
           C    == Chained(W, last)
           A    == Notify(C, up \ last, "idle")
<1>1. A = Lower(w, f, o)
  BY DEF Lower
<1>2. f \in Works /\ f.link \subseteq Links
  BY DEF Fit, Works
<1> HIDE DEF last
<1>3. /\ New \in [Links -> Statuses]
      /\ \A r \in Links : /\ Edge(r) \notin Toward(w, o) => New[r] = r[3]
                          /\ Edge(r) \in Toward(w, o) => New[r] # "live"
  <2>1. "dead" \in Statuses /\ "idle" \in Statuses /\ \A r \in Links : r[3] \in Statuses
    BY DEF Links, Statuses
  <2>2. New \in [Links -> Statuses]
    BY <2>1
  <2> QED
    BY <2>2
<1> HIDE DEF New, up
<1>4. WalksTo(w, f, up, New, W) /\ Fit(w, W)
  BY <1>2, <1>3, WalkIs, WalkFits
<1> HIDE DEF W
<1>5. /\ Fit(w, C) /\ C.link = W.link /\ C.twice = W.twice
      /\ \A x \in Objects : C.state[x] =
            IF x \in last /\ W.state[x] = "none" THEN "dead" ELSE W.state[x]
  BY <1>4, ChainedIs
<1> HIDE DEF C
<1>6. "idle" \in Statuses /\ C \in Works
  BY <1>5 DEF Statuses, Fit
<1>7. /\ A \in Works /\ A.link = C.link /\ A.twice = C.twice
      /\ \A x \in Objects : A.state[x] = IF x \in up \ last THEN "idle" ELSE C.state[x]
  BY <1>6, NotifyIs
<1>8. Fit(w, A)
  BY <1>5, <1>6, NotifyFits
<1> HIDE DEF A
<1>9. ASSUME NEW r \in A.link
      PROVE  \E x \in f.link :
                /\ Edge(x) = Edge(r)
                /\ r[3] = "live" => r = x /\ ~(r[1] \in up /\ Edge(r) \in Toward(w, o))
  <2>1. PICK x \in f.link : /\ Edge(r) = Edge(x)
                            /\ x[1] \in up => r[2] \in w.alive /\ r[3] = New[x]
                            /\ x[1] \notin up => r = x
    BY <1>4, <1>5, <1>7 DEF WalksTo
  <2>2. r \in Links /\ x \in Links /\ r[1] = x[1] /\ r[2] = x[2]
    BY <1>2, <1>7, <2>1 DEF Edge, Works
  <2>3. r[3] = x[3] => r = x
    BY <2>2 DEF Links
  <2> QED
    BY <1>3, <2>1, <2>2, <2>3
<1>10. ASSUME NEW x \in f.link
       PROVE  /\ x[2] \in w.alive => \E r \in A.link : Edge(r) = Edge(x)
              /\ x[2] \in w.alive /\ x[3] = "live"
                    /\ ~(x[1] \in up /\ Edge(x) \in Toward(w, o)) => x \in A.link
  <2>1. /\ x[1] \notin up => x \in A.link
        /\ x[1] \in up /\ x[2] \in w.alive => <<x[1], x[2], New[x]>> \in A.link
    BY <1>4, <1>5, <1>7 DEF WalksTo
  <2>2. x \in Links /\ x = <<x[1], x[2], x[3]>> /\ Edge(<<x[1], x[2], New[x]>>) = Edge(x)
    BY <1>2 DEF Edge, Links
  <2>3. Edge(x) \notin Toward(w, o) => New[x] = x[3]
    BY <1>3, <2>2
  <2> QED
    BY <2>1, <2>2, <2>3
<1>11. \A x \in Objects : A.state[x] =
          IF x \in up \ LastStep(f) THEN "idle"
          ELSE IF x \in up /\ f.state[x] = "none" THEN "dead" ELSE f.state[x]
  <2>1. W.state = f.state
    BY <1>4 DEF WalksTo
  <2> QED
    BY <1>5, <1>7, <2>1 DEF last
<1>12. A.twice = f.twice
  BY <1>4, <1>5, <1>7 DEF WalksTo
<1>13. LowersTo(w, f, o, up, A)
  BY <1>7, <1>9, <1>10, <1>11, <1>12 DEF LowersTo
<1> QED
  BY <1>1, <1>8, <1>13 DEF up

----------------------------------------------------------------------------
(* The requests.  No chain is lost by one, and no object links another     *)
(* without a chain of its own.                                             *)

Wider(f, A) == \A x \in Objects : f.state[x] # "none" => A.state[x] # "none"

LEMMA BareKept ==
  ASSUME NEW f \in Works, Bare(f) = {}, NEW A \in Works, Wider(f, A),
         \A r \in A.link : A.state[r[1]] # "none" \/ \E x \in f.link : Edge(x) = Edge(r)
  PROVE  Bare(A) = {}
<1> SUFFICES ASSUME NEW r \in A.link, r[1] \in Objects, A.state[r[1]] = "none" PROVE FALSE
  BY DEF Bare
<1>1. PICK x \in f.link : Edge(x) = Edge(r)
  OBVIOUS
<1>2. x[1] = r[1]
  BY <1>1 DEF Edge
<1> QED
  BY <1>2 DEF Bare, Wider

LEMMA ReleaseBare ==
  ASSUME NEW w, NEW f, Fit(w, f), Bare(f) = {}, NEW S \in SUBSET Objects
  PROVE  Wider(f, Release(w, f, S)) /\ Bare(Release(w, f, S)) = {}
<1> DEFINE A == Release(w, f, S)
<1>1. ReleasesTo(w, f, S, Freed(w, f, S), A)
  BY ReleaseIs
<1> HIDE DEF A
<1>2. Wider(f, A) /\ A \in Works /\ f \in Works
  BY <1>1 DEF ReleasesTo, Wider, Fit
<1>3. \A r \in A.link : \E x \in f.link : Edge(x) = Edge(r)
  BY <1>1 DEF ReleasesTo
<1> QED
  BY <1>2, <1>3, BareKept DEF A

LEMMA ActivateBare ==
  ASSUME NEW w, NEW g, NEW f, Fit(w, f), Bare(f) = {}, NEW d, Sound(w, d),
         NEW o \in Objects, NEW first
  PROVE  LET A == Activate(w, g, f, d, o, first)
         IN  Fit(w, A) /\ Wider(f, A) /\ Bare(A) = {}
<1> DEFINE F == Prepared(w, g, f, d, o, first)
           A == Activate(w, g, f, d, o, first)
           hit == Reach(Passed(w, F), {o})
<1>1. Fit(w, F) /\ Bare(F) = {}
  BY PreparedFits
<1>2. Wider(f, F)
  <2>1. DupsTo(w, f, d, o, Copied(w, f, d, o), Dup(w, f, d, o))
    BY DupIs
  <2>2. Wider(f, Dup(w, f, d, o))
    BY <2>1 DEF DupsTo, Wider
  <2> QED
    BY <2>2 DEF Prepared, Wider
<1>3. ActivatesTo(w, F, o, hit, A) /\ Fit(w, A)
  BY <1>1, ActivateIs
<1> HIDE DEF A, F, hit
<1>4. Wider(F, A) /\ A \in Works /\ F \in Works
  BY <1>1, <1>3 DEF ActivatesTo, Wider, Fit
<1>5. \A r \in A.link : \E x \in F.link : Edge(x) = Edge(r)
  BY <1>3 DEF ActivatesTo
<1>6. Bare(A) = {}
  BY <1>1, <1>4, <1>5, BareKept
<1> QED
  BY <1>2, <1>3, <1>4, <1>6 DEF Wider, A

LEMMA RaiseBare ==
  ASSUME NEW w \in Scenes, NEW g, NEW f, Fit(w, f), Bare(f) = {}, NEW o \in Objects,
         NEW solo \in BOOLEAN
  PROVE  LET A == Raise(w, g, f, o, solo)
         IN  Fit(w, A) /\ Wider(f, A) /\ Bare(A) = {}
<1> DEFINE A == Raise(w, g, f, o, solo)
           up == Raised(w, f, o, solo)
<1>1. Fit(w, A)
  BY RaiseIs
<1>2. PICK hit : RaisesTo(w, f, o, solo, up, hit, A)
  BY RaiseIs
<1>3. up \subseteq Line(w, o) /\ Line(w, o) \subseteq Objects
  BY VisitedLine, LineObjects DEF Raised
<1>4. \A e \in Path(w, o, up) : e[1] \in up
  BY DEF Path
<1> HIDE DEF A, up
<1>5. Wider(f, A) /\ A \in Works /\ f \in Works
  BY <1>2 DEF RaisesTo, Wider, Fit
<1>6. ASSUME NEW r \in A.link
      PROVE  A.state[r[1]] # "none" \/ \E x \in f.link : Edge(x) = Edge(r)
  <2>1. CASE Edge(r) \in Path(w, o, up)
    <3>1. r[1] \in up
      BY <1>4, <2>1 DEF Edge
    <3> QED
      BY <1>2, <1>3, <3>1 DEF RaisesTo
  <2>2. CASE Edge(r) \notin Path(w, o, up)
    BY <1>2, <2>2 DEF RaisesTo
  <2> QED
    BY <2>1, <2>2
<1>7. Bare(A) = {}
  BY <1>5, <1>6, BareKept
<1> QED
  BY <1>1, <1>5, <1>7 DEF A

LEMMA LowerBare ==
  ASSUME NEW w, NEW f, Fit(w, f), Bare(f) = {}, NEW o
  PROVE  LET A == Lower(w, f, o)
         IN  Fit(w, A) /\ Wider(f, A) /\ Bare(A) = {}
<1> DEFINE A == Lower(w, f, o)
           up == Lowered(w, f, o)
<1>1. LowersTo(w, f, o, up, A) /\ Fit(w, A)
  BY LowerIs
<1> HIDE DEF A, up
<1>2. Wider(f, A) /\ A \in Works /\ f \in Works
  BY <1>1 DEF LowersTo, Wider, Fit
<1>3. \A r \in A.link : \E x \in f.link : Edge(x) = Edge(r)
  BY <1>1 DEF LowersTo
<1>4. Bare(A) = {}
  BY <1>2, <1>3, BareKept
<1> QED
  BY <1>1, <1>2, <1>4 DEF A

LEMMA NotifyBare ==
  ASSUME NEW w, NEW f, Fit(w, f), Bare(f) = {}, NEW S, NEW st \in Statuses
  PROVE  LET A == Notify(f, S, st)
         IN  Fit(w, A) /\ Wider(f, A) /\ Bare(A) = {}
<1> DEFINE A == Notify(f, S, st)
<1>1. Fit(w, A)
  BY NotifyFits
<1>2. /\ f \in Works /\ A \in Works /\ A.link = f.link
      /\ \A x \in Objects : A.state[x] = IF x \in S THEN st ELSE f.state[x]
  BY NotifyIs DEF Fit
<1> HIDE DEF A
<1>3. Wider(f, A)
  BY <1>2 DEF Wider, Statuses
<1>4. Bare(A) = {}
  BY <1>2, <1>3, BareKept
<1> QED
  BY <1>1, <1>3, <1>4 DEF A

----------------------------------------------------------------------------
(* pro::focus::set: what it does at o before it rises.                     *)

Dropped(w, f, o) ==
    Walk(w, f, {o}, [r \in Links |-> IF r[3] = "live" THEN "dead" ELSE r[3]])
Down(w, f, o) == {r[2] : r \in {x \in Records(f, o) : x[3] = "live" /\ x[2] \in w.alive}}

Begun(w, g, f, d, o, solo, just) ==
    LET alone == o \in Endpoints /\ ~just /\ solo
    IN  IF g # Default /\ ~alone THEN Activate(w, g, f, d, o, TRUE)
        ELSE Notify(IF alone THEN Release(w, Dropped(w, f, o), Down(w, f, o)) ELSE f, {o}, "live")

LEMMA FocusIs ==
  ASSUME NEW w, NEW g, NEW f, NEW d, NEW o, NEW solo, NEW just
  PROVE  Focus(w, g, f, d, o, solo, just) =
             Raise(w, g, Begun(w, g, f, d, o, solo, just), o, solo)
<1>1. Down(w, f, o) = {r[2] : r \in {r \in Records(f, o) : r[3] = "live" /\ r[2] \in w.alive}}
  BY DEF Down
<1> QED
  BY <1>1 DEF Focus, Begun, Dropped

\* An endpoint focused alone releases what it leads to.
LEMMA DroppedIs ==
  ASSUME NEW w, NEW f, Fit(w, f), Bare(f) = {}, NEW o \in Objects
  PROVE  /\ Fit(w, Dropped(w, f, o)) /\ Bare(Dropped(w, f, o)) = {}
         /\ Dropped(w, f, o).state = f.state /\ Dropped(w, f, o).twice = f.twice
         /\ \A r \in Dropped(w, f, o).link : \E x \in f.link :
               /\ Edge(r) = Edge(x) /\ (x[1] # o => r = x)
               /\ (x[1] = o => r[2] \in w.alive /\ r[3] # "live")
         /\ \A x \in f.link :
               /\ x[1] # o => x \in Dropped(w, f, o).link
               /\ x[2] \in w.alive => \E r \in Dropped(w, f, o).link : Edge(r) = Edge(x)
         /\ Down(w, f, o) \subseteq Objects \cap w.alive
         /\ \A s \in Down(w, f, o) : s # Gate /\ w.parent[s] = o
         /\ \A x \in f.link : x[1] = o /\ x[3] = "live" /\ x[2] \in w.alive
                                 => x[2] \in Down(w, f, o)
<1> DEFINE Drop == [r \in Links |-> IF r[3] = "live" THEN "dead" ELSE r[3]]
           W    == Walk(w, f, {o}, Drop)
<1>1. f \in Works /\ f.link \subseteq Links
  BY DEF Fit, Works
<1>2. Drop \in [Links -> Statuses] /\ \A r \in Links : Drop[r] # "live"
  <2>1. "dead" \in Statuses /\ \A r \in Links : r[3] \in Statuses
    BY DEF Links, Statuses
  <2> QED
    BY <2>1
<1> HIDE DEF Drop
<1>3. WalksTo(w, f, {o}, Drop, W) /\ Fit(w, W)
  BY <1>1, <1>2, WalkIs, WalkFits
<1>4. W = Dropped(w, f, o)
  BY DEF Dropped, Drop
<1> HIDE DEF W
<1>5. ASSUME NEW r \in W.link
      PROVE  \E x \in f.link : /\ Edge(r) = Edge(x) /\ (x[1] # o => r = x)
                               /\ (x[1] = o => r[2] \in w.alive /\ r[3] # "live")
  <2>1. PICK x \in f.link : /\ Edge(r) = Edge(x)
                            /\ x[1] \in {o} => r[2] \in w.alive /\ r[3] = Drop[x]
                            /\ x[1] \notin {o} => r = x
    BY <1>3 DEF WalksTo
  <2> QED
    BY <1>1, <1>2, <2>1
<1>6. ASSUME NEW x \in f.link
      PROVE  /\ x[1] # o => x \in W.link
             /\ x[2] \in w.alive => \E r \in W.link : Edge(r) = Edge(x)
  <2>1. /\ x[1] \notin {o} => x \in W.link
        /\ x[1] \in {o} /\ x[2] \in w.alive => <<x[1], x[2], Drop[x]>> \in W.link
    BY <1>3 DEF WalksTo
  <2>2. Edge(<<x[1], x[2], Drop[x]>>) = Edge(x)
    BY DEF Edge
  <2> QED
    BY <2>1, <2>2
<1>7. W.state = f.state /\ W.twice = f.twice /\ W \in Works
  BY <1>3 DEF WalksTo
<1>8. Wider(f, W)
  BY <1>7 DEF Wider
<1>9. Bare(W) = {}
  BY <1>1, <1>5, <1>7, <1>8, BareKept
<1>10. ASSUME NEW s \in Down(w, f, o)
       PROVE  s \in Objects \cap w.alive /\ s # Gate /\ w.parent[s] = o
  <2>1. PICK x \in f.link : x[1] = o /\ x[2] = s /\ x[2] \in w.alive
    BY DEF Down, Records
  <2> QED
    BY <1>1, <2>1 DEF Fit, Follows, Links
<1>11. \A x \in f.link : x[1] = o /\ x[3] = "live" /\ x[2] \in w.alive
                            => x[2] \in Down(w, f, o)
  BY DEF Down, Records
<1> QED
  BY <1>3, <1>4, <1>5, <1>6, <1>7, <1>9, <1>10, <1>11

LEMMA BegunIs ==
  ASSUME NEW w, NEW g, NEW f, Fit(w, f), Bare(f) = {}, NEW d, Sound(w, d),
         NEW o \in Objects, NEW solo, NEW just
  PROVE  LET F == Begun(w, g, f, d, o, solo, just)
         IN  /\ Fit(w, F) /\ Wider(f, F) /\ Bare(F) = {}
             /\ F.state[o] = "live"
             /\ \A x \in Objects : o \notin Line(w, x) => F.state[x] = f.state[x]
<1> DEFINE F     == Begun(w, g, f, d, o, solo, just)
           alone == o \in Endpoints /\ ~just /\ solo
           P     == Prepared(w, g, f, d, o, TRUE)
           A     == Activate(w, g, f, d, o, TRUE)
           W     == Dropped(w, f, o)
           D     == Down(w, f, o)
           R     == Release(w, W, D)
<1>0. "live" \in Statuses
  BY DEF Statuses
<1>1. CASE g # Default /\ ~alone
  <2>1. F = A
    BY <1>1 DEF Begun
  <2>2. Fit(w, A) /\ Wider(f, A) /\ Bare(A) = {}
    BY ActivateBare
  <2>3. Fit(w, P)
    BY PreparedFits
  <2>4. ActivatesTo(w, P, o, Reach(Passed(w, P), {o}), A)
    BY <2>3, ActivateIs
  <2>5. \A x \in Objects : o \notin Line(w, x) => P.state[x] = f.state[x]
    <3>1. DupsTo(w, f, d, o, Copied(w, f, d, o), Dup(w, f, d, o))
      BY DupIs
    <3>2. \A x \in Objects : o \notin Line(w, x) => Dup(w, f, d, o).state[x] = f.state[x]
      BY <3>1 DEF DupsTo
    <3> QED
      BY <3>2 DEF Prepared
  <2> HIDE DEF A, P, F
  <2>6. A.state[o] = "live" /\ \A x \in Objects : o \notin Line(w, x) => A.state[x] = P.state[x]
    BY <2>4 DEF ActivatesTo
  <2> QED
    BY <2>1, <2>2, <2>5, <2>6 DEF F
<1>2. CASE ~(g # Default /\ ~alone) /\ alone
  <2>1. F = Notify(R, {o}, "live")
    BY <1>2 DEF Begun
  <2>2. /\ Fit(w, W) /\ Bare(W) = {} /\ W.state = f.state
        /\ D \subseteq Objects /\ \A s \in D : s # Gate /\ w.parent[s] = o
    BY DroppedIs
  <2> HIDE DEF W, D
  <2>3. ReleasesTo(w, W, D, Freed(w, W, D), R) /\ Fit(w, R)
    BY <2>2, ReleaseIs
  <2>4. Wider(W, R) /\ Bare(R) = {}
    BY <2>2, ReleaseBare
  <2> HIDE DEF R
  <2>5. Fit(w, F) /\ Wider(R, F) /\ Bare(F) = {}
    BY <1>0, <2>1, <2>3, <2>4, NotifyBare
  <2>6. \A x \in Objects : F.state[x] = IF x \in {o} THEN "live" ELSE R.state[x]
    BY <1>0, <2>1, <2>3, NotifyIs DEF Fit
  <2> HIDE DEF F
  <2>7. Wider(f, F)
    BY <2>2, <2>4, <2>5 DEF Wider
  <2>8. ASSUME NEW x \in Objects, o \notin Line(w, x) PROVE F.state[x] = f.state[x]
    <3>1. x # o
      BY <2>8, LineSelf
    <3>2. ASSUME x \in Freed(w, W, D) PROVE FALSE
      <4>1. PICK s \in D : s \in Line(w, x)
        BY <2>3, <3>2 DEF ReleasesTo
      <4>2. o \in Line(w, s)
        BY <2>2, LineStep, LineSelf
      <4> QED
        BY <2>8, <4>1, <4>2, LineTrans
    <3> QED
      BY <2>2, <2>3, <2>6, <3>1, <3>2 DEF ReleasesTo
  <2> QED
    BY <2>5, <2>6, <2>7, <2>8 DEF F
<1>3. CASE ~(g # Default /\ ~alone) /\ ~alone
  <2>1. F = Notify(f, {o}, "live")
    BY <1>3 DEF Begun
  <2>2. Fit(w, F) /\ Wider(f, F) /\ Bare(F) = {}
    BY <1>0, <2>1, NotifyBare
  <2>3. \A x \in Objects : F.state[x] = IF x \in {o} THEN "live" ELSE f.state[x]
    BY <1>0, <2>1, NotifyIs DEF Fit
  <2> HIDE DEF F
  <2> QED
    BY <2>2, <2>3, LineSelf DEF F
<1> QED
  BY <1>1, <1>2, <1>3

LEMMA FocusFits ==
  ASSUME NEW w \in Scenes, NEW g, NEW f, Fit(w, f), Bare(f) = {}, NEW d, Sound(w, d),
         NEW o \in Objects, NEW solo \in BOOLEAN, NEW just
  PROVE  LET A == Focus(w, g, f, d, o, solo, just)
         IN  Fit(w, A) /\ Wider(f, A) /\ Bare(A) = {}
<1> DEFINE F == Begun(w, g, f, d, o, solo, just)
           A == Raise(w, g, F, o, solo)
<1>1. Fit(w, F) /\ Wider(f, F) /\ Bare(F) = {}
  BY BegunIs
<1> HIDE DEF F
<1>2. Fit(w, A) /\ Wider(F, A) /\ Bare(A) = {}
  BY <1>1, RaiseBare
<1> HIDE DEF A
<1>3. Wider(f, A)
  BY <1>1, <1>2 DEF Wider
<1> QED
  BY <1>2, <1>3, FocusIs DEF A, F

----------------------------------------------------------------------------
(* What becomes of the gate: a request that ends there says so.            *)

\* No ancestor of an object is below it.
LEMMA AncestorsAside ==
  ASSUME NEW w \in Scenes, NEW o \in Objects \ {Gate}, Gate \in Line(w, o),
         NEW x \in Line(w, w.parent[o])
  PROVE  o \notin Line(w, x)
BY LineTrans, LineAcyclic, LineObjects

LEMMA ReleaseGate ==
  ASSUME NEW w, NEW f, Fit(w, f), NEW S \in SUBSET Objects, Gate \in Objects, Gate \notin S
  PROVE  Release(w, f, S).state[Gate] = f.state[Gate]
<1>1. ReleasesTo(w, f, S, Freed(w, f, S), Release(w, f, S))
  BY ReleaseIs
<1> QED
  BY <1>1, LineGate DEF ReleasesTo

LEMMA ActivateGate ==
  ASSUME NEW w, NEW g, NEW f, Fit(w, f), Bare(f) = {}, NEW d, Sound(w, d),
         NEW o \in Objects, NEW first, Gate \in Objects
  PROVE  LET A == Activate(w, g, f, d, o, first)
         IN  /\ o = Gate => A.state[Gate] = "live"
             /\ o # Gate => A.state[Gate] = f.state[Gate]
<1> DEFINE P == Prepared(w, g, f, d, o, first)
           A == Activate(w, g, f, d, o, first)
           hit == Reach(Passed(w, P), {o})
<1>1. Fit(w, P)
  BY PreparedFits
<1>2. ActivatesTo(w, P, o, hit, A)
  BY <1>1, ActivateIs
<1>3. o # Gate => o \notin Line(w, Gate)
  BY LineGate
<1>4. o # Gate => P.state[Gate] = f.state[Gate]
  <2>1. DupsTo(w, f, d, o, Copied(w, f, d, o), Dup(w, f, d, o))
    BY DupIs
  <2>2. o # Gate => Dup(w, f, d, o).state[Gate] = f.state[Gate]
    BY <1>3, <2>1 DEF DupsTo
  <2> QED
    BY <2>2 DEF Prepared
<1> HIDE DEF A, P, hit
<1>5. /\ o = Gate => A.state[Gate] = "live"
      /\ o # Gate => A.state[Gate] = P.state[Gate]
  BY <1>2, <1>3 DEF ActivatesTo
<1> QED
  BY <1>4, <1>5 DEF A

LEMMA RaiseGate ==
  ASSUME NEW w \in Scenes, NEW g, NEW f, Fit(w, f), NEW o \in Objects,
         NEW solo \in BOOLEAN, Gate \in Objects
  PROVE  Raise(w, g, f, o, solo).state[Gate] =
             IF Gate \in Raised(w, f, o, solo) THEN "live" ELSE f.state[Gate]
<1> DEFINE up == Raised(w, f, o, solo)
<1>1. PICK hit : RaisesTo(w, f, o, solo, up, hit, Raise(w, g, f, o, solo))
  BY RaiseIs
<1>2. Gate \notin hit
  <2>1. \A s \in Beside(w, f, o, up) : s # Gate
    BY BesideIs
  <2> HIDE DEF up
  <2>2. \A x \in hit : \E s \in Beside(w, f, o, up) : s \in Line(w, x)
    BY <1>1 DEF RaisesTo
  <2> QED
    BY <2>1, <2>2, LineGate
<1> HIDE DEF up
<1>3. \A x \in Objects : Raise(w, g, f, o, solo).state[x] =
         IF x \in up THEN "live" ELSE IF x \in hit THEN "idle" ELSE f.state[x]
  BY <1>1 DEF RaisesTo
<1> QED
  BY <1>2, <1>3 DEF up

\* What a rising set::on visits depends only on which ancestors are active.
LEMMA RaisedSame ==
  ASSUME NEW w \in Scenes, NEW o \in Objects \ {Gate}, NEW f, NEW F, NEW solo \in BOOLEAN,
         \A x \in Line(w, w.parent[o]) \cap Objects : F.state[x] = f.state[x]
  PROVE  Raised(w, F, o, solo) = Raised(w, f, o, solo)
<1>1. CASE solo
  BY <1>1 DEF Raised
<1>2. CASE ~solo
  <2>1. \A x \in Line(w, w.parent[o]) \cap Objects : x \in LiveObjects(F) <=> x \in LiveObjects(f)
    BY DEF LiveObjects
  <2>2. /\ Visited(w, o, LiveObjects(f)) \subseteq Visited(w, o, LiveObjects(F))
        /\ Visited(w, o, LiveObjects(F)) \subseteq Visited(w, o, LiveObjects(f))
    BY <2>1, VisitedFewer
  <2> QED
    BY <1>2, <2>2 DEF Raised
<1> QED
  BY <1>1, <1>2

LEMMA FocusGate ==
  ASSUME NEW w \in Scenes, NEW g, NEW f, Fit(w, f), Bare(f) = {}, NEW d, Sound(w, d),
         NEW o \in Objects, Gate \in Line(w, o), NEW solo \in BOOLEAN, NEW just,
         Gate \in Objects
  PROVE  Focus(w, g, f, d, o, solo, just).state[Gate] = "live"
             <=> Rose(w, f, o, solo) \/ f.state[Gate] = "live"
<1> DEFINE F == Begun(w, g, f, d, o, solo, just)
<1>1. /\ Fit(w, F) /\ F.state[o] = "live"
      /\ \A x \in Objects : o \notin Line(w, x) => F.state[x] = f.state[x]
  BY BegunIs
<1> HIDE DEF F
<1>2. Raise(w, g, F, o, solo).state[Gate] =
         IF Gate \in Raised(w, F, o, solo) THEN "live" ELSE F.state[Gate]
  BY <1>1, RaiseGate
<1>3. o # Gate => F.state[Gate] = f.state[Gate]
  BY <1>1, LineGate
<1>4. o # Gate => Raised(w, F, o, solo) = Raised(w, f, o, solo)
  <2>1. SUFFICES ASSUME o # Gate PROVE Raised(w, F, o, solo) = Raised(w, f, o, solo)
    OBVIOUS
  <2>2. \A x \in Line(w, w.parent[o]) : o \notin Line(w, x)
    BY <2>1, AncestorsAside
  <2>3. \A x \in Line(w, w.parent[o]) \cap Objects : F.state[x] = f.state[x]
    BY <1>1, <2>2
  <2> QED
    BY <2>1, <2>3, RaisedSame
<1>5. Raise(w, g, F, o, solo).state[Gate] = "live"
         <=> Rose(w, f, o, solo) \/ f.state[Gate] = "live"
  BY <1>1, <1>2, <1>3, <1>4 DEF Rose
<1> QED
  BY <1>5, FocusIs DEF F

\* What a set::off that rises from o leaves of the gate: idle where it passes it.
GateFalls(w, f, F, o, A) ==
    A.state[Gate] = "live" <=> /\ F.state[Gate] = "live"
                               /\ ~(Fell(w, f, o) /\ Gate \notin LastStep(f))

\* What stops a falling set::off depends only on the links of the ancestors.
LEMMA LowerGate ==
  ASSUME NEW w \in Scenes, NEW f, NEW F, Fit(w, F), NEW o \in Objects \ {Gate},
         Gate \in Line(w, o), Gate \in Objects,
         \A x \in Line(w, w.parent[o]) \cap Objects : Records(F, x) = Records(f, x)
  PROVE  GateFalls(w, f, F, o, Lower(w, F, o))
<1>1. \A x \in Line(w, w.parent[o]) \cap Objects : x \in LastStep(f) <=> x \in LastStep(F)
  BY DEF LastStep
<1>2. /\ Visited(w, o, LastStep(F)) \subseteq Visited(w, o, LastStep(f))
      /\ Visited(w, o, LastStep(f)) \subseteq Visited(w, o, LastStep(F))
  BY <1>1, VisitedFewer
<1>3. Gate \in Lowered(w, F, o) <=> Fell(w, f, o)
  BY <1>2 DEF Fell, Lowered
<1>4. Gate \in LastStep(f) <=> Gate \in LastStep(F)
  <2>1. Gate \in Line(w, w.parent[o])
    BY LineStep
  <2> QED
    BY <1>1, <2>1
<1>5. LowersTo(w, F, o, Lowered(w, F, o), Lower(w, F, o))
  BY LowerIs
<1> DEFINE A == Lower(w, F, o)
           up == Lowered(w, F, o)
<1> HIDE DEF A, up
<1>6. A.state[Gate] = IF Gate \in up \ LastStep(F) THEN "idle"
                      ELSE IF Gate \in up /\ F.state[Gate] = "none" THEN "dead" ELSE F.state[Gate]
  BY <1>5 DEF LowersTo, A, up
<1>7. Gate \in up <=> Fell(w, f, o)
  BY <1>3 DEF up
<1> QED
  BY <1>4, <1>6, <1>7 DEF GateFalls, A

LEMMA UnfocusGate ==
  ASSUME NEW w \in Scenes, NEW f, Fit(w, f), NEW o \in Objects \ {Gate},
         Gate \in Line(w, o), Gate \in Objects
  PROVE  GateFalls(w, f, f, o, Unfocus(w, f, o))
<1>1. CASE f.state[o] = "live"
  <2> DEFINE R == Release(w, f, {o})
  <2>0. (\E hit : ReleasesTo(w, f, {o}, hit, R)) /\ Fit(w, R)
    BY ReleaseIs
  <2>1. PICK hit : ReleasesTo(w, f, {o}, hit, R)
    BY <2>0
  <2>2. R.state[Gate] = f.state[Gate]
    BY ReleaseGate
  <2> HIDE DEF R
  <2>3. ASSUME NEW x \in Line(w, w.parent[o]) \cap Objects
        PROVE  Records(R, x) = Records(f, x)
    <3>1. x \notin hit
      <4>1. \A y \in hit : o \in Line(w, y)
        BY <2>1 DEF ReleasesTo
      <4> QED
        BY <4>1, AncestorsAside
    <3>2. ASSUME NEW r \in R.link, r[1] = x PROVE r \in f.link
      <4>1. PICK y \in f.link : /\ Edge(r) = Edge(y)
                                /\ y[1] \notin hit => r = y
        BY <2>1 DEF ReleasesTo
      <4>2. y[1] = x
        BY <3>2, <4>1 DEF Edge
      <4> QED
        BY <3>1, <4>1, <4>2
    <3>3. ASSUME NEW r \in f.link, r[1] = x PROVE r \in R.link
      BY <2>1, <3>1, <3>3 DEF ReleasesTo
    <3> QED
      BY <3>2, <3>3 DEF Records
  <2>4. GateFalls(w, f, R, o, Lower(w, R, o))
    BY <2>0, <2>3, LowerGate
  <2>5. Unfocus(w, f, o) = Lower(w, R, o)
    BY <1>1 DEF Unfocus, R
  <2> QED
    BY <2>2, <2>4, <2>5 DEF GateFalls
<1>2. CASE f.state[o] # "live"
  <2> DEFINE C == Chained(f, {o})
  <2>1. /\ Fit(w, C) /\ C.link = f.link
        /\ \A x \in Objects : C.state[x] =
              IF x \in {o} /\ f.state[x] = "none" THEN "dead" ELSE f.state[x]
    BY ChainedIs
  <2> HIDE DEF C
  <2>2. GateFalls(w, f, C, o, Lower(w, C, o))
    BY <2>1, LowerGate DEF Records
  <2>3. Unfocus(w, f, o) = Lower(w, C, o)
    BY <1>2 DEF Unfocus, C
  <2> QED
    BY <2>1, <2>2, <2>3 DEF GateFalls
<1> QED
  BY <1>1, <1>2

----------------------------------------------------------------------------
(* The requests cut and hop, and the end of a gear.                        *)

Unlinked(f, p, o) == [f EXCEPT !.link = {r \in @ : Edge(r) # <<p, o>>}]

LEMMA UnlinkedIs ==
  ASSUME NEW w, NEW f, Fit(w, f), Bare(f) = {}, NEW p, NEW o
  PROVE  LET C == Unlinked(f, p, o)
         IN  /\ Fit(w, C) /\ Bare(C) = {} /\ C.state = f.state /\ C.twice = f.twice
             /\ \A r \in f.link : r \in C.link <=> Edge(r) # <<p, o>>
             /\ C.link \subseteq f.link
<1> DEFINE C == Unlinked(f, p, o)
           L == {r \in f.link : Edge(r) # <<p, o>>}
<1>1. C = [f EXCEPT !.link = L]
  BY DEF Unlinked
<1>2. L \subseteq f.link /\ \A r \in f.link : r \in L <=> Edge(r) # <<p, o>>
  OBVIOUS
<1> HIDE DEF C, L
<1>3. f \in Works
  BY DEF Fit
<1>4. C = [state |-> f.state, link |-> L, twice |-> f.twice]
  BY <1>1, <1>3 DEF Works
<1>5. C \in Works /\ C.state = f.state /\ C.twice = f.twice /\ C.link = L
  BY <1>2, <1>3, <1>4 DEF Works
<1>6. Fit(w, C)
  BY <1>2, <1>5 DEF Fit, Single, Follows
<1>7. Bare(C) = {}
  BY <1>2, <1>5 DEF Bare
<1> QED
  BY <1>2, <1>5, <1>6, <1>7 DEF C

LEMMA CutIs ==
  ASSUME NEW w, NEW g, NEW f, Fit(w, f), Bare(f) = {}, NEW p, NEW o \in Objects
  PROVE  LET A == Cut(w, g, f, p, o)
         IN  /\ Fit(w, A) /\ Bare(A) = {} /\ Wider(f, A)
             /\ \A r \in A.link : Edge(r) # <<p, o>> /\ \E x \in f.link : Edge(x) = Edge(r)
             /\ o # Gate /\ Gate \in Objects => A.state[Gate] = f.state[Gate]
<1> DEFINE A == Cut(w, g, f, p, o)
           C == Unlinked(f, p, o)
           R == Release(w, C, {o})
<1>1. A = IF g # Default /\ <<p, o, "live">> \in f.link THEN R ELSE C
  BY DEF Cut, Unlinked
<1>2. /\ Fit(w, C) /\ Bare(C) = {} /\ C.state = f.state /\ C.link \subseteq f.link
      /\ \A r \in f.link : r \in C.link <=> Edge(r) # <<p, o>>
  BY UnlinkedIs
<1> HIDE DEF C
<1>3. ReleasesTo(w, C, {o}, Freed(w, C, {o}), R) /\ Fit(w, R)
  BY <1>2, ReleaseIs
<1>4. Wider(C, R) /\ Bare(R) = {}
  BY <1>2, ReleaseBare
<1>5. o # Gate /\ Gate \in Objects => R.state[Gate] = C.state[Gate]
  BY <1>2, ReleaseGate
<1> HIDE DEF R
<1>6. \A r \in R.link : \E x \in C.link : Edge(r) = Edge(x)
  BY <1>3 DEF ReleasesTo
<1>7. Wider(f, C)
  BY <1>2 DEF Wider
<1>8. Wider(f, R)
  BY <1>4, <1>7 DEF Wider
<1> HIDE DEF A
<1>9. CASE A = R
  BY <1>2, <1>3, <1>4, <1>5, <1>6, <1>8, <1>9 DEF A
<1>10. CASE A = C
  BY <1>2, <1>7, <1>10 DEF A
<1> QED
  BY <1>1, <1>9, <1>10

Swapped(w, f, p, prev, next) ==
    [Walk(w, f, {p}, [r \in Links |-> r[3]]) EXCEPT
        !.link = {r \in @ : Edge(r) \notin {<<p, prev>>, <<p, next>>}}
                    \cup {<<p, next, r[3]>> : r \in {x \in @ : Edge(x) = <<p, prev>>}}]

LEMMA SwappedIs ==
  ASSUME NEW w, NEW f, Fit(w, f), Bare(f) = {}, NEW p \in Objects, NEW prev,
         NEW next \in Objects \ {Gate}, w.parent[next] = p
  PROVE  LET H == Swapped(w, f, p, prev, next)
         IN  /\ Fit(w, H) /\ Bare(H) = {} /\ H.state = f.state /\ H.twice = f.twice
             /\ \A r \in H.link : \/ r \in f.link /\ Edge(r) \notin {<<p, prev>>, <<p, next>>}
                                  \/ Edge(r) = <<p, next>> /\ <<p, prev, r[3]>> \in f.link
             /\ \A r \in f.link : Edge(r) \notin {<<p, prev>>, <<p, next>>} /\ r[2] \in w.alive
                                     => r \in H.link
<1> DEFINE H   == Swapped(w, f, p, prev, next)
           New == [r \in Links |-> r[3]]
           W   == Walk(w, f, {p}, New)
           A   == {r \in W.link : Edge(r) \notin {<<p, prev>>, <<p, next>>}}
           X   == {x \in W.link : Edge(x) = <<p, prev>>}
           B   == {<<p, next, r[3]>> : r \in X}
<1>1. H = [W EXCEPT !.link = A \cup B]
  BY DEF Swapped
<1>2. f \in Works /\ f.link \subseteq Links
  BY DEF Fit, Works
<1>3. New \in [Links -> Statuses] /\ \A r \in Links : New[r] = r[3]
  BY DEF Links
<1> HIDE DEF New
<1>4. WalksTo(w, f, {p}, New, W) /\ Fit(w, W)
  BY <1>2, <1>3, WalkIs, WalkFits
<1> HIDE DEF W
<1>5. W.link \subseteq Links /\ Single(W.link) /\ Follows(w, W.link) /\ W \in Works
  BY <1>4 DEF Fit, Works
<1>6. ASSUME NEW r \in W.link PROVE r \in f.link
  <2>1. PICK x \in f.link : /\ Edge(r) = Edge(x)
                            /\ x[1] \in {p} => r[2] \in w.alive /\ r[3] = New[x]
                            /\ x[1] \notin {p} => r = x
    BY <1>4 DEF WalksTo
  <2>2. r = x
    BY <1>2, <1>3, <1>5, <2>1 DEF Edge, Links
  <2> QED
    BY <2>2
<1>7. ASSUME NEW r \in f.link, r[2] \in w.alive PROVE r \in W.link
  <2>1. /\ r[1] \notin {p} => r \in W.link
        /\ r[1] \in {p} /\ r[2] \in w.alive => <<r[1], r[2], New[r]>> \in W.link
    BY <1>4 DEF WalksTo
  <2>2. r = <<r[1], r[2], New[r]>>
    BY <1>2, <1>3 DEF Links
  <2> QED
    BY <1>7, <2>1, <2>2
<1>8. ASSUME NEW r \in B
      PROVE  /\ r \in Links /\ Edge(r) = <<p, next>> /\ r = <<p, next, r[3]>>
             /\ <<p, prev, r[3]>> \in W.link
  <2>1. PICK x \in X : r = <<p, next, x[3]>>
    OBVIOUS
  <2>2. x = <<p, prev, x[3]>>
    BY <1>5, <2>1 DEF Links, Edge
  <2> QED
    BY <1>5, <2>1, <2>2 DEF Links, Edge
<1>9. /\ A \subseteq W.link /\ \A r \in A : Edge(r) \notin {<<p, prev>>, <<p, next>>}
      /\ \A r \in W.link : Edge(r) \notin {<<p, prev>>, <<p, next>>} => r \in A
  OBVIOUS
<1> HIDE DEF A, B, H
<1>10. H = [state |-> W.state, link |-> A \cup B, twice |-> W.twice] /\ H \in Works
  <2>1. A \cup B \subseteq Links
    BY <1>5, <1>8, <1>9
  <2> QED
    BY <1>1, <1>5, <2>1 DEF Works
<1>11. H.state = f.state /\ H.link = A \cup B /\ H.twice = f.twice
  BY <1>4, <1>10 DEF WalksTo
<1>12. Single(H.link)
  <2>1. ASSUME NEW r \in H.link, NEW x \in H.link, Edge(r) = Edge(x) PROVE r = x
    <3>1. CASE r \in A /\ x \in A
      BY <1>5, <1>9, <2>1, <3>1 DEF Single
    <3>2. CASE r \in B /\ x \in B
      <4> DEFINE a == <<p, prev, r[3]>>
                 b == <<p, prev, x[3]>>
      <4>1. a \in W.link /\ b \in W.link /\ Edge(a) = Edge(b) /\ a[3] = r[3] /\ b[3] = x[3]
        BY <1>8, <3>2 DEF Edge
      <4> HIDE DEF a, b
      <4>2. a = b
        BY <1>5, <4>1 DEF Single
      <4> QED
        BY <1>8, <3>2, <4>1, <4>2
    <3> QED
      BY <1>8, <1>9, <1>11, <2>1, <3>1, <3>2
  <2> QED
    BY <2>1 DEF Single
<1>13. Follows(w, H.link)
  <2>1. ASSUME NEW r \in H.link, r[2] \in w.alive PROVE r[2] # Gate /\ w.parent[r[2]] = r[1]
    <3>1. CASE r \in A
      BY <1>5, <1>9, <2>1, <3>1 DEF Follows
    <3>2. CASE r \in B
      BY <1>8, <3>2 DEF Edge
    <3> QED
      BY <1>11, <2>1, <3>1, <3>2
  <2> QED
    BY <2>1 DEF Follows
<1>14. ASSUME NEW r \in H.link
       PROVE  \/ r \in f.link /\ Edge(r) \notin {<<p, prev>>, <<p, next>>}
              \/ Edge(r) = <<p, next>> /\ <<p, prev, r[3]>> \in f.link
  BY <1>6, <1>8, <1>9, <1>11
<1>15. ASSUME NEW r \in f.link, Edge(r) \notin {<<p, prev>>, <<p, next>>}, r[2] \in w.alive
       PROVE  r \in H.link
  BY <1>7, <1>9, <1>11, <1>15
<1>16. Bare(H) = {}
  <2> SUFFICES ASSUME NEW r \in H.link, r[1] \in Objects, H.state[r[1]] = "none" PROVE FALSE
    BY DEF Bare
  <2>1. \A x \in f.link : x[1] \in Objects => f.state[x[1]] # "none"
    BY DEF Bare
  <2>2. CASE r \in f.link
    BY <1>11, <2>1, <2>2
  <2>3. CASE Edge(r) = <<p, next>> /\ <<p, prev, r[3]>> \in f.link
    <3>1. r[1] = p
      BY <2>3 DEF Edge
    <3>2. f.state[p] # "none"
      BY <2>1, <2>3
    <3> QED
      BY <1>11, <3>1, <3>2
  <2> QED
    BY <1>14, <2>2, <2>3
<1> QED
  BY <1>10, <1>11, <1>12, <1>13, <1>14, <1>15, <1>16 DEF Fit, H

LEMMA HopFits ==
  ASSUME NEW w, NEW g, NEW f, Fit(w, f), Bare(f) = {}, NEW d, Sound(w, d),
         NEW p \in Objects, NEW prev \in Objects, NEW next \in Objects \ {Gate},
         w.parent[next] = p
  PROVE  LET A == Hop(w, g, f, d, p, prev, next)
         IN  Fit(w, A) /\ Bare(A) = {}
<1> DEFINE A == Hop(w, g, f, d, p, prev, next)
           H == Swapped(w, f, p, prev, next)
           R == Release(w, H, {prev})
           T == Activate(w, g, R, d, next, TRUE)
<1>1. A = IF g # Default /\ <<p, prev, "live">> \in f.link THEN T ELSE H
  BY DEF Hop, Swapped
<1>2. Fit(w, H) /\ Bare(H) = {} /\ H.state = f.state
  BY SwappedIs
<1> HIDE DEF H
<1>3. Fit(w, R) /\ Bare(R) = {}
  BY <1>2, ReleaseIs, ReleaseBare
<1> HIDE DEF R
<1>4. Fit(w, T) /\ Bare(T) = {}
  BY <1>3, ActivateBare
<1> HIDE DEF A, T
<1> QED
  BY <1>1, <1>2, <1>4 DEF A

LEMMA HopGate ==
  ASSUME NEW w, NEW g, NEW f, Fit(w, f), Bare(f) = {}, NEW d, Sound(w, d),
         NEW p \in Objects, NEW prev \in Objects \ {Gate}, NEW next \in Objects \ {Gate},
         w.parent[next] = p, Gate \in Objects
  PROVE  Hop(w, g, f, d, p, prev, next).state[Gate] = f.state[Gate]
<1> DEFINE A == Hop(w, g, f, d, p, prev, next)
           H == Swapped(w, f, p, prev, next)
           R == Release(w, H, {prev})
           T == Activate(w, g, R, d, next, TRUE)
<1>1. A = IF g # Default /\ <<p, prev, "live">> \in f.link THEN T ELSE H
  BY DEF Hop, Swapped
<1>2. Fit(w, H) /\ Bare(H) = {} /\ H.state = f.state
  BY SwappedIs
<1> HIDE DEF H
<1>3. Fit(w, R) /\ Bare(R) = {} /\ R.state[Gate] = H.state[Gate]
  BY <1>2, ReleaseIs, ReleaseBare, ReleaseGate
<1> HIDE DEF R
<1>4. T.state[Gate] = R.state[Gate]
  <2>1. ASSUME NEW first
        PROVE  Activate(w, g, R, d, next, first).state[Gate] = R.state[Gate]
    BY <1>3, ActivateGate
  <2> QED
    BY <2>1
<1> HIDE DEF A, T
<1>5. A.state[Gate] = f.state[Gate]
  BY <1>1, <1>2, <1>3, <1>4
<1> QED
  BY <1>5 DEF A

----------------------------------------------------------------------------
(* The chains of a gear, before and after the work.                        *)

Good(w, c) == c \in Chains /\ ListOK(c) /\ Follows(w, c.link)

LEMMA WorkGood ==
  ASSUME NEW w, NEW c, Good(w, c)
  PROVE  /\ Fit(w, Work(c)) /\ Bare(Work(c)) = {} /\ Sound(w, c)
         /\ Work(c).state = c.state /\ Work(c).link = c.link /\ Work(c).twice = {}
<1>1. /\ c.state \in [Objects -> Statuses \cup {"none"}] /\ c.link \subseteq Links
      /\ Follows(w, c.link) /\ \A r \in c.link : c.state[r[1]] # "none"
  BY DEF Good, Chains, ListOK
<1>2. Single(c.link)
  BY DEF Good, ListOK, Single
<1>3. Work(c).state = c.state /\ Work(c).link = c.link /\ Work(c).twice = {}
  BY DEF Work
<1>4. Work(c) \in Works
  BY <1>1 DEF Work, Works
<1> QED
  BY <1>1, <1>2, <1>3, <1>4 DEF Fit, Bare, Sound

LEMMA DoneGood ==
  ASSUME NEW w, NEW f, Fit(w, f), Bare(f) = {}
  PROVE  /\ Good(w, Done(f)) /\ Sound(w, f)
         /\ Done(f).state = f.state /\ Done(f).link = f.link
<1>1. /\ f.state \in [Objects -> Statuses \cup {"none"}] /\ f.link \subseteq Links
      /\ Follows(w, f.link) /\ Single(f.link)
  BY DEF Fit, Works
<1>2. Done(f).state = f.state /\ Done(f).link = f.link /\ Done(f) \in Chains
  BY <1>1 DEF Done, Chains
<1>3. \A r \in f.link : r[1] \in Objects
  BY <1>1 DEF Links
<1>4. \A r \in f.link : f.state[r[1]] # "none"
  BY <1>3 DEF Bare
<1>5. ListOK(Done(f))
  BY <1>1, <1>2, <1>4 DEF ListOK, Single
<1> QED
  BY <1>1, <1>2, <1>5 DEF Good, Sound

LEMMA NoneGood == ASSUME NEW w PROVE Good(w, NoChains)
BY DEF Good, NoChains, Chains, ListOK, Follows

\* The chains of a gear that dies replace the default ones object by object.
LEMMA InheritIs ==
  ASSUME NEW w, NEW d, Good(w, d), NEW f, Good(w, f)
  PROVE  LET A == Inherit(d, f)
         IN  /\ Good(w, A)
             /\ \A x \in Objects : A.state[x] = IF f.state[x] # "none" THEN f.state[x] ELSE d.state[x]
             /\ \A r \in A.link : r \in f.link \/ (r \in d.link /\ f.state[r[1]] = "none")
<1> DEFINE A == Inherit(d, f)
           own == {o \in Objects : f.state[o] # "none"}
           st == [o \in Objects |-> IF o \in own THEN f.state[o] ELSE d.state[o]]
           L  == {r \in d.link : r[1] \notin own} \cup f.link
<1>1. A = [state |-> st, link |-> L]
  BY DEF Inherit
<1>2. /\ d.state \in [Objects -> Statuses \cup {"none"}] /\ d.link \subseteq Links
      /\ f.state \in [Objects -> Statuses \cup {"none"}] /\ f.link \subseteq Links
  BY DEF Good, Chains
<1>3. st \in [Objects -> Statuses \cup {"none"}] /\ L \subseteq Links
  BY <1>2
<1>4. \A x \in Objects : st[x] = IF f.state[x] # "none" THEN f.state[x] ELSE d.state[x]
  OBVIOUS
<1>5. \A r \in L : r \in f.link \/ (r \in d.link /\ f.state[r[1]] = "none")
  BY <1>2 DEF Links
<1> HIDE DEF A, st, L
<1>6. A.state = st /\ A.link = L /\ A \in Chains
  BY <1>1, <1>3 DEF Chains
<1>7. Follows(w, L)
  BY <1>5 DEF Good, Follows
<1>8. /\ \A r \in f.link : f.state[r[1]] # "none" /\ r[1] \in Objects
      /\ \A r \in d.link : d.state[r[1]] # "none" /\ r[1] \in Objects
  BY <1>2 DEF Good, ListOK, Links
<1>9. ASSUME NEW r \in L PROVE st[r[1]] # "none"
  BY <1>4, <1>5, <1>8
<1>10. ASSUME NEW r \in L, NEW x \in L, Edge(x) = Edge(r) PROVE x = r
  <2>1. x[1] = r[1]
    BY <1>10 DEF Edge
  <2>2. (r \in f.link /\ x \in f.link) \/ (r \in d.link /\ x \in d.link)
    BY <1>5, <1>8, <2>1
  <2> QED
    BY <1>10, <2>2 DEF Good, ListOK
<1> QED
  BY <1>4, <1>5, <1>6, <1>7, <1>9, <1>10 DEF Good, ListOK, A

LEMMA MergedGood ==
  ASSUME NEW w, NEW c, \A g \in Ids : Good(w, c[g]), NEW G, NEW F,
         \A g \in Ids : g \in G => Fit(w, F[g]) /\ Bare(F[g]) = {}
  PROVE  /\ Merged(c, G, F) \in [Ids -> Chains]
         /\ \A g \in Ids : Good(w, Merged(c, G, F)[g])
<1> DEFINE m == Merged(c, G, F)
<1>1. \A g \in Ids : m[g] = IF g \in G THEN Done(F[g]) ELSE c[g]
  BY DEF Merged
<1>2. m = [g \in Ids |-> m[g]]
  BY DEF Merged
<1> HIDE DEF m
<1>3. \A g \in Ids : Good(w, m[g])
  BY <1>1, DoneGood
<1>4. \A g \in Ids : m[g] \in Chains
  BY <1>3 DEF Good
<1> QED
  BY <1>2, <1>3, <1>4 DEF m

LEMMA CountedInt ==
  ASSUME IsFiniteSet(Gears), NEW n \in [Objects -> Int], NEW c, NEW G, NEW F
  PROVE  Counted(n, c, G, F) \in [Objects -> Int]
<1>1. ASSUME NEW X \in SUBSET Gears PROVE Cardinality(X) \in Int
  BY <1>1, FS_Subset, FS_CardinalityType
<1>2. ASSUME NEW o \in Objects, NEW m
      PROVE  /\ Cardinality(WhoIsLive(m, o) \ WhoIsLive(c, o)) \in Int
             /\ Cardinality(WhoIsLive(c, o) \ WhoIsLive(m, o)) \in Int
             /\ Cardinality({g \in G \cap Gears : o \in F[g].twice}) \in Int
  <2>1. /\ WhoIsLive(m, o) \ WhoIsLive(c, o) \in SUBSET Gears
        /\ WhoIsLive(c, o) \ WhoIsLive(m, o) \in SUBSET Gears
        /\ {g \in G \cap Gears : o \in F[g].twice} \in SUBSET Gears
    BY DEF WhoIsLive
  <2> QED
    BY <1>1, <2>1
<1> DEFINE m == Merged(c, G, F)
<1>3. \A o \in Objects :
        n[o] + Cardinality(WhoIsLive(m, o) \ WhoIsLive(c, o))
             - Cardinality(WhoIsLive(c, o) \ WhoIsLive(m, o))
             + Cardinality({g \in G \cap Gears : o \in F[g].twice}) \in Int
  <2> HIDE DEF m
  <2> QED
    BY <1>2
<1> QED
  BY <1>3 DEF Counted

\* The part of the invariant that is about the chains c of all gears.
AllGood(w, c) == c \in [Ids -> Chains] /\ \A g \in Ids : Good(w, c[g])

\* u is the scene w without the objects of S; and what becomes of the chains.
Pruned(w, S, u) == u.alive = w.alive \ S /\ u.parent = w.parent
BuriedTo(c, S) ==
    \A g \in Ids : /\ \A x \in Objects : Buried(c, S)[g].state[x] =
                             IF x \in S THEN "none" ELSE c[g].state[x]
                   /\ Buried(c, S)[g].link = {r \in c[g].link : r[1] \notin S}

\* Objects that are gone leave their chains behind, and shrink the scene.
LEMMA BuriedGood ==
  ASSUME NEW w, NEW S, NEW u, NEW c, Pruned(w, S, u), AllGood(w, c)
  PROVE  AllGood(u, Buried(c, S)) /\ BuriedTo(c, S)
<1>0. u.alive = w.alive \ S /\ u.parent = w.parent /\ \A g \in Ids : Good(w, c[g])
  BY DEF Pruned, AllGood
<1> DEFINE st(g) == [o \in Objects |-> IF o \in S THEN "none" ELSE c[g].state[o]]
           L(g)  == {r \in c[g].link : r[1] \notin S}
<1>1. ASSUME NEW g \in Ids
      PROVE  /\ Buried(c, S)[g].state = st(g) /\ Buried(c, S)[g].link = L(g)
             /\ Good(u, Buried(c, S)[g]) /\ Buried(c, S)[g] \in Chains
  <2>1. Buried(c, S)[g] = [state |-> st(g), link |-> L(g)]
    BY DEF Buried
  <2>2. /\ c[g].state \in [Objects -> Statuses \cup {"none"}] /\ c[g].link \subseteq Links
        /\ Follows(w, c[g].link) /\ ListOK(c[g])
    BY <1>0 DEF Good, Chains
  <2>3. st(g) \in [Objects -> Statuses \cup {"none"}]
    BY <2>2
  <2>4. L(g) \subseteq c[g].link /\ \A r \in L(g) : r[1] \notin S /\ r[1] \in Objects
    BY <2>2 DEF Links
  <2>5. \A x \in Objects : x \notin S => st(g)[x] = c[g].state[x]
    OBVIOUS
  <2>6. \A r \in L(g) : st(g)[r[1]] # "none"
    BY <2>2, <2>4, <2>5 DEF ListOK
  <2> DEFINE b == Buried(c, S)[g]
  <2> HIDE DEF st, L, b
  <2>7. b.state = st(g) /\ b.link = L(g) /\ b \in Chains
    BY <2>1, <2>2, <2>3, <2>4 DEF Chains, b
  <2>8. ListOK(b)
    BY <2>2, <2>4, <2>6, <2>7 DEF ListOK
  <2>9. Follows(u, b.link)
    BY <1>0, <2>2, <2>4, <2>7 DEF Follows
  <2> QED
    BY <2>7, <2>8, <2>9 DEF Good, b
<1>2. Buried(c, S) = [g \in Ids |-> Buried(c, S)[g]]
  BY DEF Buried
<1>3. ASSUME NEW g \in Ids
      PROVE  /\ \A x \in Objects : Buried(c, S)[g].state[x] =
                   IF x \in S THEN "none" ELSE c[g].state[x]
             /\ Buried(c, S)[g].link = {r \in c[g].link : r[1] \notin S}
  <2>1. \A x \in Objects : st(g)[x] = IF x \in S THEN "none" ELSE c[g].state[x]
    OBVIOUS
  <2>2. L(g) = {r \in c[g].link : r[1] \notin S}
    OBVIOUS
  <2> HIDE DEF st, L
  <2>3. Buried(c, S)[g].state = st(g) /\ Buried(c, S)[g].link = L(g)
    BY <1>1
  <2> QED
    BY <2>1, <2>2, <2>3
<1> HIDE DEF st, L
<1>4. Buried(c, S) \in [Ids -> Chains]
  BY <1>1, <1>2
<1> QED
  BY <1>1, <1>3, <1>4 DEF AllGood, BuriedTo

\* A work that links o nowhere fits wherever o goes.
LEMMA FitsMoved ==
  ASSUME NEW w \in Scenes, NEW f, Fit(w, f), NEW o, NEW q, \A r \in f.link : r[2] # o
  PROVE  Fit([w EXCEPT !.parent[o] = q], f)
<1> DEFINE u == [w EXCEPT !.parent[o] = q]
<1>1. u.alive = w.alive /\ \A x \in Objects : x # o => u.parent[x] = w.parent[x]
  BY DEF Scenes
<1> HIDE DEF u
<1>2. \A r \in f.link : r[2] \in Objects
  BY DEF Fit, Works, Links
<1>3. Follows(u, f.link)
  BY <1>1, <1>2 DEF Fit, Follows
<1> QED
  BY <1>3 DEF Fit, u

----------------------------------------------------------------------------
(* The scene is a tree under the gate.                                     *)

Rooted(w) == /\ w \in Scenes /\ Gate \in w.alive
             /\ \A x \in w.alive \ {Gate} : w.parent[x] \in w.alive
             /\ \A x \in w.alive : Gate \in Line(w, x)

LEMMA LineAlive ==
  ASSUME NEW w, Rooted(w), NEW x \in w.alive
  PROVE  Line(w, x) \subseteq w.alive
<1>1. \A y \in (w.alive \cap Objects) \ {Gate} : w.parent[y] \in w.alive
  BY DEF Rooted
<1> QED
  BY <1>1, LineLeast

LEMMA OpenTree ==
  ASSUME NEW w, Rooted(w), NEW o \in Objects, o \notin w.alive, NEW p \in w.alive
  PROVE  Rooted([w EXCEPT !.alive = @ \cup {o}, !.parent[o] = p])
<1> DEFINE u == [w EXCEPT !.alive = @ \cup {o}, !.parent[o] = p]
<1>0. w.alive \subseteq Objects
  BY DEF Rooted, Scenes
<1>1. /\ u \in Scenes /\ u.alive = w.alive \cup {o} /\ u.parent[o] = p
      /\ \A x \in Objects : x # o => u.parent[x] = w.parent[x]
  BY <1>0 DEF Rooted, Scenes
<1> HIDE DEF u
<1>2. ASSUME NEW x \in w.alive PROVE Line(u, x) = Line(w, x) /\ Gate \in Line(u, x)
  <2>1. Line(w, x) \subseteq w.alive
    BY LineAlive
  <2>2. \A y \in (Line(w, x) \cap Objects) \ {Gate} : u.parent[y] = w.parent[y]
    BY <1>1, <2>1
  <2>3. Line(u, x) = Line(w, x)
    BY <2>2, LineKept
  <2> QED
    BY <2>3 DEF Rooted
<1>3. Gate \in Line(u, o)
  <2>1. o # Gate
    BY DEF Rooted
  <2>2. Gate \in Line(u, u.parent[o])
    BY <1>1, <1>2
  <2> QED
    BY <2>1, <2>2, LineStep
<1>4. \A x \in u.alive \ {Gate} : u.parent[x] \in u.alive
  BY <1>0, <1>1 DEF Rooted
<1> QED
  BY <1>1, <1>2, <1>3, <1>4 DEF Rooted, u

LEMMA CloseTree ==
  ASSUME NEW w, Rooted(w), NEW o \in Objects \ {Gate}
  PROVE  LET S == Below(w, {o})
         IN  Gate \notin S /\ Rooted([w EXCEPT !.alive = @ \ S])
<1> DEFINE S == Below(w, {o})
           u == [w EXCEPT !.alive = @ \ S]
<1>1. \A x : x \in S <=> x \in w.alive /\ o \in Line(w, x)
  <2>1. \A x : x \in S <=> x \in w.alive /\ \E s \in {o} : s \in Line(w, x)
    BY BelowIs
  <2> QED
    BY <2>1
<1> HIDE DEF S
<1>2. Gate \notin S
  BY <1>1, LineGate
<1>3. u \in Scenes /\ u.alive = w.alive \ S /\ u.parent = w.parent
  BY DEF Rooted, Scenes
<1> HIDE DEF u
<1>4. ASSUME NEW x \in u.alive PROVE Gate \in Line(u, x)
  <2>1. Line(u, x) = Line(w, x)
    BY <1>3, LineKept
  <2> QED
    BY <1>3, <2>1 DEF Rooted
<1>5. ASSUME NEW x \in u.alive \ {Gate} PROVE u.parent[x] \in u.alive
  <2>1. x \in Objects \ {Gate} /\ w.parent[x] \in w.alive /\ o \notin Line(w, x)
    BY <1>1, <1>3 DEF Rooted, Scenes
  <2>2. o \notin Line(w, w.parent[x])
    BY <2>1, LineStep
  <2> QED
    BY <1>1, <1>3, <2>1, <2>2
<1> QED
  BY <1>2, <1>3, <1>4, <1>5 DEF Rooted, S, u

LEMMA MoveTree ==
  ASSUME NEW w, Rooted(w), NEW o \in w.alive \ {Gate}, NEW q \in w.alive \ Below(w, {o})
  PROVE  LET u == [w EXCEPT !.parent[o] = q]
         IN  /\ Rooted(u)
             /\ \A x \in Objects : o \notin Line(w, x) => Line(u, x) = Line(w, x)
             /\ \A x \in Objects : o \in Line(u, x) <=> o \in Line(w, x)
<1> DEFINE u == [w EXCEPT !.parent[o] = q]
<1>0. w.alive \subseteq Objects
  BY DEF Rooted, Scenes
<1>1. /\ u \in Scenes /\ u.alive = w.alive /\ u.parent[o] = q
      /\ \A x \in Objects : x # o => u.parent[x] = w.parent[x]
  BY <1>0 DEF Rooted, Scenes
<1>2. o \notin Line(w, q)
  <2>1. q \in Below(w, {o}) <=> q \in w.alive /\ \E s \in {o} : s \in Line(w, q)
    BY BelowIs
  <2> QED
    BY <2>1
<1> HIDE DEF u
<1>3. ASSUME NEW x \in Objects, o \notin Line(w, x) PROVE Line(u, x) = Line(w, x)
  <2>1. \A y \in (Line(w, x) \cap Objects) \ {Gate} : u.parent[y] = w.parent[y]
    BY <1>1, <1>3
  <2> QED
    BY <2>1, LineKept
<1>4. ASSUME NEW x \in Objects, o \notin Line(u, x) PROVE Line(w, x) = Line(u, x)
  <2>1. \A y \in (Line(u, x) \cap Objects) \ {Gate} : w.parent[y] = u.parent[y]
    BY <1>1, <1>4
  <2> QED
    BY <2>1, LineKept
<1>5. Gate \in Line(u, o)
  <2>1. Gate \in Line(u, q)
    BY <1>0, <1>2, <1>3 DEF Rooted
  <2> QED
    BY <1>0, <1>1, <2>1, LineStep
<1>6. ASSUME NEW x \in u.alive PROVE Gate \in Line(u, x)
  <2>1. CASE o \in Line(w, x)
    <3>1. o \in Line(u, x)
      BY <1>0, <1>1, <1>4, <2>1
    <3> QED
      BY <1>5, <3>1, LineTrans
  <2>2. CASE o \notin Line(w, x)
    BY <1>0, <1>1, <1>3, <2>2 DEF Rooted
  <2> QED
    BY <2>1, <2>2
<1>7. \A x \in u.alive \ {Gate} : u.parent[x] \in u.alive
  BY <1>0, <1>1 DEF Rooted
<1> QED
  BY <1>1, <1>3, <1>4, <1>6, <1>7 DEF Rooted, u

----------------------------------------------------------------------------
(* What keeps a gear's tree in one piece.  w is a scene of which the       *)
(* objects of h are hidden, f the work on a gear's chains or a chain.      *)

\* Nothing is below an applet of a slot or the border of a process, and beside an
\* applet that is shown all is hidden.
Seated(w, h) ==
    /\ Rooted(w) /\ h \subseteq Slotted
    /\ \A x \in w.alive \ {Gate} : w.parent[x] \notin Slotted \cup Relays
    /\ \A x \in w.alive \cap Slotted : x # Gate /\ w.parent[x] # Gate
    /\ \A x \in (w.alive \cap Slotted) \ h : \A y \in w.alive \ {x, Gate} :
          w.parent[y] = w.parent[x] => y \in h

Live(f, x) == f.state[x] = "live"
Named(f, y) == \E r \in f.link : r[2] = y

\* A live link comes from an active object, and leads to one but for those of X.
Sourced(w, f)    == \A r \in f.link : r[3] = "live" /\ r[2] \in w.alive => Live(f, r[1])
Arrives(w, f, X) == \A r \in f.link : r[3] = "live" /\ r[2] \in w.alive \ X => Live(f, r[2])

\* An object that is active, but for those of X and the applets of a slot, is
\* linked by a live link if it is linked at all.
Answered(w, f, X) ==
    \A r \in f.link : r[2] \in w.alive \ (Slotted \cup X) /\ Live(f, r[2]) => r[3] = "live"

\* An object that is linked has a chain, and is not hidden; one that does not
\* exist has none.
Known(w, f)    == \A r \in f.link : r[2] \in w.alive \ Slotted => f.state[r[2]] # "none"
Shows(w, h, f) == \A r \in f.link : r[2] \in w.alive => r[2] \notin h
Exists(w, f)   == \A x \in Objects \ w.alive : f.state[x] = "none"

\* All above an active object is linked: all, or all below o.
Strung(w, f) ==
    \A x \in w.alive : Live(f, x) =>
        \A y \in Line(w, x) \ (Slotted \cup {Gate}) : Named(f, y)
StrungTo(w, f, o) ==
    \A x \in w.alive : Live(f, x) =>
        \A y \in Line(w, x) \ (Slotted \cup {Gate}) :
            Named(f, y) \/ (o \in Line(w, x) /\ y \in Line(w, o))

\* The default chains, and those of a gear.
Half(w, h, f)  == /\ Sourced(w, f) /\ Answered(w, f, {})
                  /\ Known(w, f) /\ Shows(w, h, f) /\ Exists(w, f)
Whole(w, h, f) == Half(w, h, f) /\ Arrives(w, f, {}) /\ Strung(w, f)

LEMMA Inner ==
  ASSUME NEW w, NEW h, Seated(w, h), NEW x \in w.alive
  PROVE  /\ Line(w, x) \subseteq w.alive /\ x \in Line(w, x) /\ w.alive \subseteq Objects
         /\ \A y \in Line(w, x) : Gate \in Line(w, y)
         /\ \A y \in Line(w, x) \ {x} : y \notin Slotted \cup Relays
         /\ \A y \in w.alive \ {Gate} : w.parent[y] \in w.alive
<1>1. Rooted(w) /\ w \in Scenes /\ w.alive \subseteq Objects
  BY DEF Seated, Rooted, Scenes
<1>2. Line(w, x) \subseteq w.alive
  BY <1>1, LineAlive
<1>3. ASSUME NEW y \in Line(w, x) \ {x} PROVE y \notin Slotted \cup Relays
  <2>1. y \in Reach(Rising(w, {}), {x}) /\ y \notin {x}
    BY <1>3 DEF Line
  <2>2. PICK e \in Rising(w, {}) : e[2] = y /\ e[1] \in Reach(Rising(w, {}), {x})
    BY <2>1, ReachStep
  <2>3. e[1] \in Line(w, x) \ {Gate} /\ w.parent[e[1]] = y
    BY <2>2 DEF Line, Rising
  <2> QED
    BY <1>2, <2>3 DEF Seated
<1> QED
  BY <1>1, <1>2, <1>3, LineSelf DEF Rooted

\* Below o, activity goes up the line from an object that is active.
LEMMA Climb ==
  ASSUME NEW w, NEW h, Seated(w, h), NEW f, Fit(w, f), NEW X, Sourced(w, f), Answered(w, f, X),
         NEW o, NEW x \in w.alive \ Slotted, Live(f, x),
         \A y \in Line(w, x) \ {Gate, o} : o \in Line(w, y) => Named(f, y) /\ y \notin X
  PROVE  \A y \in Line(w, x) : o \in Line(w, y) =>
            /\ Live(f, y)
            /\ y \notin {Gate, o} => <<w.parent[y], y, "live">> \in f.link
<1> DEFINE Y == {y \in Line(w, x) : o \in Line(w, y) => Live(f, y)}
<1>1. /\ Line(w, x) \subseteq w.alive /\ x \in Line(w, x) /\ w.alive \subseteq Objects
      /\ \A y \in Line(w, x) : Gate \in Line(w, y) /\ y \notin Slotted
  BY Inner
<1>2. ASSUME NEW y \in Line(w, x) \ {Gate, o}, o \in Line(w, y), Live(f, y)
      PROVE  <<w.parent[y], y, "live">> \in f.link /\ Live(f, w.parent[y])
  <2>1. PICK r \in f.link : r[2] = y
    BY <1>2 DEF Named
  <2>2. y \in w.alive \ (Slotted \cup X)
    BY <1>1, <1>2
  <2>3. w.parent[y] = r[1] /\ r[3] = "live" /\ r = <<r[1], r[2], r[3]>>
    BY <1>2, <2>1, <2>2 DEF Fit, Follows, Answered, Works, Links
  <2> QED
    BY <2>1, <2>2, <2>3 DEF Sourced
<1>3. ASSUME NEW y \in (Y \cap Objects) \ {Gate} PROVE w.parent[y] \in Y
  <2>1. w.parent[y] \in Line(w, x)
    BY LineUp
  <2>2. ASSUME o \in Line(w, w.parent[y]) PROVE Live(f, w.parent[y])
    <3>1. o \in Line(w, y) /\ Gate \in Line(w, y) /\ Line(w, y) \subseteq Objects
      BY <1>1, <2>2, LineStep, LineTrans
    <3>2. y # o
      BY <2>2, <3>1, LineAcyclic
    <3> QED
      BY <1>2, <3>1, <3>2
  <2> QED
    BY <2>1, <2>2
<1>4. x \in Y
  BY <1>1
<1> HIDE DEF Y
<1>5. Line(w, x) \subseteq Y
  BY <1>3, <1>4, LineLeast
<1> QED
  BY <1>2, <1>5 DEF Y

\* In a tree in one piece all above an active object is active, by live links.
LEMMA LineLive ==
  ASSUME NEW w, NEW h, Seated(w, h), NEW f, Fit(w, f), Sourced(w, f), Answered(w, f, {}),
         Strung(w, f), NEW x \in w.alive \ Slotted, Live(f, x)
  PROVE  \A y \in Line(w, x) : /\ Live(f, y)
                               /\ y # Gate => <<w.parent[y], y, "live">> \in f.link
<1>1. \A y \in Line(w, x) \ {Gate} : y \notin Slotted
  BY Inner
<1>2. \A y \in Line(w, x) \ {Gate, Gate} : Gate \in Line(w, y) => Named(f, y) /\ y \notin {}
  BY <1>1 DEF Strung
<1>3. \A y \in Line(w, x) : Gate \in Line(w, y)
  BY Inner
<1> QED
  BY <1>2, <1>3, Climb

----------------------------------------------------------------------------
(* What each signal keeps of it.                                           *)

\* Every object that exists and was linked still is.
Keeps(w, f, A) == \A r \in f.link : r[2] \in w.alive => \E a \in A.link : Edge(a) = Edge(r)

LEMMA NamedKept ==
  ASSUME NEW w, NEW f, NEW A, Keeps(w, f, A), NEW y \in w.alive, Named(f, y)
  PROVE  Named(A, y)
BY DEF Keeps, Named, Edge

LEMMA StrungKept ==
  ASSUME NEW w, NEW h, Seated(w, h), NEW f, NEW A, Keeps(w, f, A), Strung(w, f),
         \A x \in w.alive : Live(A, x) => Live(f, x)
  PROVE  Strung(w, A)
<1>1. ASSUME NEW x \in w.alive, Live(A, x), NEW y \in Line(w, x) \ (Slotted \cup {Gate})
      PROVE  Named(A, y)
  <2>1. y \in w.alive /\ Named(f, y)
    BY <1>1, Inner DEF Strung
  <2> QED
    BY <2>1, NamedKept
<1> QED
  BY <1>1 DEF Strung

\* A release ends the activity of S and of what hangs on it.
TurnsOff(w, h, f, S, X, R) ==
    /\ Half(w, h, R) /\ Keeps(w, f, R) /\ R.twice = f.twice
    /\ Arrives(w, f, X) => Arrives(w, R, X)
    /\ \A x \in Objects : Live(R, x) => Live(f, x) /\ x \notin S
    /\ \A r \in R.link : /\ r[3] = "live" => r \in f.link
                         /\ \E x \in f.link : Edge(x) = Edge(r)

LEMMA ReleaseWhole ==
  ASSUME NEW w, NEW h, Seated(w, h), NEW f, Fit(w, f), NEW S \in SUBSET Objects,
         S \subseteq w.alive, Sourced(w, f), Answered(w, f, S), Known(w, f), Shows(w, h, f),
         Exists(w, f), NEW X, S \subseteq X
  PROVE  TurnsOff(w, h, f, S, X, Release(w, f, S))
<1> DEFINE R == Release(w, f, S)
<1>1. PICK hit : ReleasesTo(w, f, S, hit, R)
  BY ReleaseIs
<1>2. Fit(w, R) /\ w.alive \subseteq Objects /\ f.link \subseteq Links /\ R.link \subseteq Links
  BY ReleaseIs DEF Seated, Rooted, Scenes, Fit, Works
<1> HIDE DEF R
<1>3. /\ R.twice = f.twice /\ S \subseteq hit /\ hit \subseteq w.alive
      /\ \A x \in Objects : R.state[x] = IF x \in hit THEN "idle" ELSE f.state[x]
      /\ \A x \in hit : x \in S \/ w.parent[x] \in hit
      /\ \A x \in f.link :
            x[3] = "live" /\ f.state[x[1]] = "live" /\ x[1] \in hit /\ x[2] \in w.alive
               => x[2] \in hit
  BY <1>1 DEF ReleasesTo
<1>4. ASSUME NEW r \in R.link
      PROVE  \E x \in f.link :
                /\ r[1] = x[1] /\ r[2] = x[2] /\ r[1] \in Objects /\ r[2] \in Objects
                /\ r[3] = "live" => r = x /\ ~(r[1] \in hit /\ f.state[r[1]] = "live")
                /\ r[1] \notin hit => r = x
  <2>1. PICK x \in f.link :
          /\ Edge(r) = Edge(x)
          /\ x[1] \in hit /\ f.state[x[1]] = "live" =>
                r[2] \in w.alive /\ r[3] = IF x[3] = "live" THEN "idle" ELSE x[3]
          /\ x[1] \notin hit \/ f.state[x[1]] # "live" => r = x
    BY <1>1 DEF ReleasesTo
  <2>2. r[1] = x[1] /\ r[2] = x[2] /\ r[1] \in Objects /\ r[2] \in Objects
    BY <1>2, <2>1 DEF Edge, Links
  <2>3. r[3] = "live" => ~(x[1] \in hit /\ f.state[x[1]] = "live")
    BY <2>1
  <2> QED
    BY <2>1, <2>2, <2>3
<1>5. Keeps(w, f, R)
  BY <1>1 DEF ReleasesTo, Keeps
<1>6. \A x \in Objects : Live(R, x) => Live(f, x) /\ x \notin hit /\ x \notin S
  BY <1>3 DEF Live
<1>7. Sourced(w, R)
  <2>1. ASSUME NEW r \in R.link, r[3] = "live", r[2] \in w.alive PROVE Live(R, r[1])
    BY <1>3, <1>4, <2>1 DEF Sourced, Live
  <2> QED
    BY <2>1 DEF Sourced
<1>8. Answered(w, R, {})
  <2>1. ASSUME NEW r \in R.link, r[2] \in w.alive \ Slotted, Live(R, r[2]) PROVE r[3] = "live"
    <3>1. PICK x \in f.link : /\ r[1] = x[1] /\ r[2] = x[2] /\ r[2] \in Objects
                              /\ r[1] \notin hit => r = x
      BY <1>4
    <3>2. x[2] \in w.alive \ (Slotted \cup S) /\ Live(f, x[2]) /\ r[2] \notin hit
      BY <1>6, <2>1, <3>1
    <3>3. x[3] = "live" /\ Live(f, x[1])
      BY <3>2 DEF Answered, Sourced
    <3>4. r[1] \notin hit
      BY <1>3, <3>1, <3>2, <3>3 DEF Live
    <3> QED
      BY <3>1, <3>3, <3>4
  <2> QED
    BY <2>1 DEF Answered
<1>9. Known(w, R) /\ Shows(w, h, R) /\ Exists(w, R)
  <2>1. Known(w, R) /\ Shows(w, h, R)
    BY <1>3, <1>4 DEF Known, Shows
  <2>2. Exists(w, R)
    BY <1>3 DEF Exists
  <2> QED
    BY <2>1, <2>2
<1>10. ASSUME Arrives(w, f, X), NEW r \in R.link, r[3] = "live", r[2] \in w.alive \ X
       PROVE  Live(R, r[2])
  <2>1. r \in f.link /\ (r[1] \notin hit \/ f.state[r[1]] # "live")
    BY <1>4, <1>10
  <2>2. r \in f.link /\ Live(f, r[1]) /\ Live(f, r[2]) /\ w.parent[r[2]] = r[1]
    BY <1>4, <1>10 DEF Sourced, Arrives, Fit, Follows
  <2>3. r[1] \notin hit
    BY <1>4, <1>10, <2>2 DEF Live
  <2>4. r[2] \notin hit
    BY <1>3, <1>10, <2>2, <2>3
  <2> QED
    BY <1>2, <1>3, <1>10, <2>2, <2>4 DEF Live
<1>11. \A r \in R.link : /\ r[3] = "live" => r \in f.link
                         /\ \E x \in f.link : Edge(x) = Edge(r)
  BY <1>4 DEF Edge
<1> QED
  BY <1>3, <1>5, <1>6, <1>7, <1>8, <1>9, <1>10, <1>11 DEF Half, Arrives, TurnsOff, R

LEMMA PreparedIs ==
  ASSUME NEW w, NEW f, Fit(w, f), NEW d, Sound(w, d), NEW o \in Objects, NEW g, NEW first
  PROVE  \E C : /\ DupsTo(w, f, d, o, C, Prepared(w, g, f, d, o, first))
                /\ C # {} => f.state[o] = "none"
<1>1. DupsTo(w, f, d, o, {}, f)
  BY DEF DupsTo, Fit
<1>2. DupsTo(w, f, d, o, Copied(w, f, d, o), Dup(w, f, d, o))
  BY DupIs
<1> HIDE DEF DupsTo
<1>3. CASE f.state[o] = "none" /\ d.state[o] # "none" /\ g # Default /\ first
  BY <1>2, <1>3 DEF Prepared
<1>4. CASE ~(f.state[o] = "none" /\ d.state[o] # "none" /\ g # Default /\ first)
  BY <1>1, <1>4 DEF Prepared
<1> QED
  BY <1>3, <1>4

\* What follows the live links from o comes by all that is copied as active.
SpreadsOn(w, f, d, o, C, F) ==
    \A H : o \in H /\ (\A r \in F.link : r[1] \in H \ Relays /\ r[3] = "live"
                                            /\ r[2] \in w.alive => r[2] \in H)
              => \A x \in C \ Slotted : f.state[x] = "none" /\ d.state[x] = "live" => x \in H

\* What the default chains d offer to a gear that copies them at o.
Offers(w, h, d, o) ==
    /\ Sourced(w, d) /\ Answered(w, d, {}) /\ Known(w, d) /\ Exists(w, d)
    /\ \A r \in d.link : o \in Line(w, r[1]) /\ r[2] \in w.alive => r[2] \notin h

\* Copying the default chains where a gear has none adds links and chains only
\* below o, and counts nothing twice.
LEMMA CopyWhole ==
  ASSUME NEW w, NEW h, Seated(w, h), NEW f, Fit(w, f), Bare(f) = {},
         Half(w, h, f), Strung(w, f), NEW d, Sound(w, d),
         NEW o \in w.alive, Offers(w, h, d, o), NEW C, NEW F, Fit(w, F), DupsTo(w, f, d, o, C, F),
         C # {} => f.state[o] = "none"
  PROVE  /\ Half(w, h, F) /\ Keeps(w, f, F) /\ F.twice = f.twice
         /\ StrungTo(w, F, o)
         /\ Arrives(w, f, {o}) => \A r \in F.link :
               r[3] = "live" /\ r[2] \in w.alive \ {o} /\ ~Live(F, r[2])
                  => r[1] \in C /\ f.state[r[1]] = "none" /\ d.state[r[1]] = "live"
         /\ SpreadsOn(w, f, d, o, C, F)
<1>1. /\ w.alive \subseteq Objects /\ f.link \subseteq Links /\ d.link \subseteq Links
      /\ F.link \subseteq Links /\ C \subseteq w.alive /\ o \in Objects
  BY DEF Seated, Rooted, Scenes, Fit, Works, Sound, DupsTo
<1>2. /\ \A x \in C : d.state[x] # "none" /\ o \in Line(w, x)
      /\ \A x \in C \ {o} : \E r \in F.link : r[2] = x /\ r[1] \in C
      /\ \A r \in F.link : r[1] \in C /\ d.state[r[2]] # "none" => r[2] \in C
      /\ \A x \in Objects : F.state[x] = IF x \in C /\ f.state[x] = "none"
                                         THEN d.state[x] ELSE f.state[x]
      /\ \A r \in F.link : \/ r \in f.link
                           \/ /\ r \in d.link /\ f.state[r[1]] = "none"
                              /\ r[1] \in C /\ r[2] \in w.alive
      /\ \A r \in f.link : r[2] \in w.alive => r \in F.link
      /\ F.twice = f.twice \cup {x \in C : f.state[x] = "live"}
  BY DEF DupsTo
<1>3. Keeps(w, f, F)
  BY <1>2 DEF Keeps
<1>4. ASSUME NEW r \in f.link PROVE f.state[r[1]] # "none"
  BY <1>1 DEF Bare, Links
<1>5. ASSUME NEW r \in F.link
      PROVE  /\ r[1] \in Objects /\ r[2] \in Objects
             /\ r[2] \in w.alive => r[2] # Gate /\ w.parent[r[2]] = r[1]
  BY <1>1 DEF Links, Fit, Follows
<1>6. Sourced(w, F)
  <2>1. ASSUME NEW r \in F.link, r[3] = "live", r[2] \in w.alive PROVE Live(F, r[1])
    <3>1. CASE r \in f.link
      <4>1. f.state[r[1]] = "live"
        BY <2>1, <3>1 DEF Half, Offers, Sourced, Live
      <4> QED
        BY <1>2, <1>5, <4>1 DEF Live
    <3>2. CASE r \in d.link /\ f.state[r[1]] = "none" /\ r[1] \in C
      <4>1. d.state[r[1]] = "live"
        BY <2>1, <3>2 DEF Half, Offers, Sourced, Live
      <4> QED
        BY <1>2, <1>5, <3>2, <4>1 DEF Live
    <3> QED
      BY <1>2, <3>1, <3>2
  <2> QED
    BY <2>1 DEF Sourced
<1>7. Answered(w, F, {})
  <2>1. ASSUME NEW r \in F.link, r[2] \in w.alive \ Slotted, Live(F, r[2]) PROVE r[3] = "live"
    <3>1. CASE r \in f.link
      <4>1. f.state[r[2]] # "none"
        BY <2>1, <3>1 DEF Half, Offers, Known
      <4>2. Live(f, r[2])
        BY <1>2, <1>5, <2>1, <4>1 DEF Live
      <4> QED
        BY <2>1, <3>1, <4>2 DEF Half, Answered
    <3>2. CASE r \in d.link /\ f.state[r[1]] = "none" /\ r[1] \in C
      <4>1. ASSUME Live(f, r[2]) PROVE FALSE
        <5>1. r[2] \in Line(w, r[2]) \ (Slotted \cup {Gate})
          BY <1>5, <2>1, LineSelf
        <5>2. PICK y \in f.link : y[2] = r[2]
          BY <2>1, <4>1, <5>1 DEF Strung, Named
        <5>3. y[1] = r[1]
          BY <1>5, <2>1, <5>2 DEF Fit, Follows
        <5> QED
          BY <1>4, <3>2, <5>2, <5>3
      <4>2. d.state[r[2]] = "live"
        BY <1>2, <1>5, <2>1, <4>1 DEF Live
      <4> QED
        BY <2>1, <3>2, <4>2 DEF Half, Offers, Answered, Live
    <3> QED
      BY <1>2, <3>1, <3>2
  <2> QED
    BY <2>1 DEF Answered
<1>8. Known(w, F)
  <2>1. ASSUME NEW r \in F.link, r[2] \in w.alive \ Slotted PROVE F.state[r[2]] # "none"
    <3>1. CASE r \in f.link
      <4>1. f.state[r[2]] # "none"
        BY <2>1, <3>1 DEF Half, Offers, Known
      <4> QED
        BY <1>2, <1>5, <4>1
    <3>2. CASE r \in d.link /\ r[1] \in C
      <4>1. d.state[r[2]] # "none"
        BY <2>1, <3>2 DEF Half, Offers, Known
      <4>2. r[2] \in C
        BY <1>2, <3>2, <4>1
      <4> QED
        BY <1>2, <1>5, <4>1, <4>2
    <3> QED
      BY <1>2, <3>1, <3>2
  <2> QED
    BY <2>1 DEF Known
<1>9. Shows(w, h, F)
  BY <1>2 DEF Half, Offers, Shows
<1>10. Exists(w, F)
  BY <1>1, <1>2 DEF Half, Exists
<1>11. ASSUME NEW x \in C PROVE \A y \in Line(w, x) : o \in Line(w, y) => y \in C
  <2> DEFINE Y == {y \in Line(w, x) : o \in Line(w, y) => y \in C}
  <2>1. /\ Line(w, x) \subseteq w.alive /\ x \in Line(w, x)
        /\ \A y \in Line(w, x) : Gate \in Line(w, y)
    BY <1>1, Inner
  <2>2. ASSUME NEW y \in (Y \cap Objects) \ {Gate} PROVE w.parent[y] \in Y
    <3>1. w.parent[y] \in Line(w, x)
      BY LineUp
    <3>2. ASSUME o \in Line(w, w.parent[y]) PROVE w.parent[y] \in C
      <4>1. o \in Line(w, y) /\ Gate \in Line(w, y) /\ Line(w, y) \subseteq Objects
        BY <1>1, <2>1, <3>2, LineStep, LineTrans
      <4>2. y # o
        BY <3>2, <4>1, LineAcyclic
      <4>3. y \in C \ {o} /\ y \in w.alive
        BY <2>1, <4>1, <4>2
      <4>4. PICK r \in F.link : r[2] = y /\ r[1] \in C
        BY <1>2, <4>3
      <4> QED
        BY <1>5, <4>3, <4>4
    <3> QED
      BY <3>1, <3>2
  <2>3. x \in Y
    BY <1>11, <2>1
  <2> HIDE DEF Y
  <2>4. Line(w, x) \subseteq Y
    BY <2>2, <2>3, LineLeast
  <2> QED
    BY <2>4 DEF Y
<1>12. StrungTo(w, F, o)
  <2>1. ASSUME NEW x \in w.alive, Live(F, x), NEW y \in Line(w, x) \ (Slotted \cup {Gate})
        PROVE  Named(F, y) \/ (o \in Line(w, x) /\ y \in Line(w, o))
    <3>1. Line(w, x) \subseteq w.alive /\ Gate \in Line(w, x)
      BY <1>1, Inner
    <3>2. CASE x \in C
      <4>1. o \in Line(w, x) /\ (o \in Line(w, y) \/ y \in Line(w, o))
        BY <1>1, <1>2, <2>1, <3>1, <3>2, LineOrder
      <4>2. ASSUME o \in Line(w, y), y # o PROVE Named(F, y)
        BY <1>2, <1>11, <2>1, <3>2, <4>2 DEF Named
      <4> QED
        BY <4>1, <4>2, LineSelf
    <3>3. CASE x \notin C
      <4>1. Live(f, x)
        BY <1>1, <1>2, <2>1, <3>3 DEF Live
      <4>2. Named(f, y)
        BY <2>1, <4>1 DEF Strung
      <4> QED
        BY <1>3, <2>1, <3>1, <4>2, NamedKept
    <3> QED
      BY <3>2, <3>3
  <2> QED
    BY <2>1 DEF StrungTo
<1>13. F.twice = f.twice
  <2>1. ASSUME NEW x \in C, f.state[x] = "live" PROVE FALSE
    <3>1. /\ o \in Line(w, x) /\ f.state[o] = "none" /\ x # o /\ x \in w.alive
      BY <1>1, <1>2, <2>1
    <3>2. o \notin Slotted /\ Line(w, x) \subseteq w.alive
      BY <3>1, Inner
    <3>3. \A y \in Line(w, x) \ (Slotted \cup {Gate}) : Named(f, y)
      BY <2>1, <3>1 DEF Strung, Live
    <3>4. CASE o # Gate
      <4>1. PICK r \in f.link : r[2] = o
        BY <3>1, <3>2, <3>3, <3>4 DEF Named
      <4> QED
        BY <3>1, <3>2, <4>1 DEF Half, Offers, Known
    <3>5. CASE o = Gate
      <4>1. Gate \in Reach(Rising(w, {}), {x}) /\ Gate \notin {x}
        BY <3>1, <3>5 DEF Line
      <4>2. PICK e \in Rising(w, {}) : e[2] = Gate /\ e[1] \in Reach(Rising(w, {}), {x})
        BY <4>1, ReachStep
      <4>3. e[1] \in Line(w, x) \ {Gate} /\ w.parent[e[1]] = Gate
        BY <4>2 DEF Line, Rising
      <4>4. e[1] \notin Slotted /\ e[1] \in w.alive
        BY <3>2, <4>3 DEF Seated
      <4>5. PICK r \in f.link : r[2] = e[1]
        BY <3>3, <4>3, <4>4 DEF Named
      <4>6. r[1] = Gate
        BY <4>3, <4>4, <4>5 DEF Fit, Follows
      <4> QED
        BY <1>4, <3>1, <3>5, <4>5, <4>6
    <3> QED
      BY <3>4, <3>5
  <2> QED
    BY <1>2, <2>1
<1>14. ASSUME Arrives(w, f, {o}), NEW r \in F.link, r[3] = "live", r[2] \in w.alive \ {o},
              ~Live(F, r[2])
       PROVE  r[1] \in C /\ f.state[r[1]] = "none" /\ d.state[r[1]] = "live"
  <2>1. r \notin f.link
    <3>1. ASSUME r \in f.link PROVE FALSE
      <4>1. f.state[r[2]] = "live"
        BY <1>14, <3>1 DEF Arrives, Live
      <4> QED
        BY <1>2, <1>5, <1>14, <4>1 DEF Live
    <3> QED
      BY <3>1
  <2>2. r \in d.link /\ f.state[r[1]] = "none" /\ r[1] \in C
    BY <1>2, <2>1
  <2> QED
    BY <1>14, <2>2 DEF Half, Offers, Sourced, Live
<1>15. ASSUME NEW H, o \in H,
              \A r \in F.link : r[1] \in H \ Relays /\ r[3] = "live"
                                       /\ r[2] \in w.alive => r[2] \in H,
              NEW x \in C \ Slotted, f.state[x] = "none", d.state[x] = "live"
       PROVE  x \in H
  <2> DEFINE Y == {y \in C : f.state[y] = "none" /\ d.state[y] = "live" /\ y \notin Slotted
                             /\ y \notin H}
  <2>1. SUFFICES ASSUME x \notin H PROVE FALSE
    OBVIOUS
  <2>2. ASSUME NEW y \in (Y \cap Objects) \ {Gate} PROVE w.parent[y] \in Y
    <3>1. y \in w.alive /\ y # o
      BY <1>1, <1>15
    <3>2. PICK r \in F.link : r[2] = y /\ r[1] \in C
      BY <1>2, <3>1
    <3>3. r \notin f.link
      BY <3>1, <3>2 DEF Half, Offers, Known
    <3>4. r \in d.link /\ f.state[r[1]] = "none"
      BY <1>2, <3>2, <3>3
    <3>5. r[3] = "live"
      BY <3>1, <3>2, <3>4 DEF Half, Offers, Answered, Live
    <3>6. d.state[r[1]] = "live" /\ w.parent[y] = r[1]
      BY <1>5, <3>1, <3>2, <3>4, <3>5 DEF Half, Offers, Sourced, Live
    <3>7. r[1] \notin Slotted \cup Relays
      BY <3>1, <3>6 DEF Seated
    <3>8. r[1] \notin H
      BY <1>15, <3>1, <3>2, <3>5, <3>7
    <3> QED
      BY <3>2, <3>4, <3>6, <3>7, <3>8
  <2>3. x \in Y
    BY <1>15, <2>1
  <2>4. o \notin Y
    BY <1>15
  <2> HIDE DEF Y
  <2>5. Line(w, x) \subseteq Y
    BY <2>2, <2>3, LineLeast
  <2> QED
    BY <1>2, <1>15, <2>4, <2>5
<1>16. SpreadsOn(w, f, d, o, C, F)
  BY <1>15 DEF SpreadsOn
<1> QED
  BY <1>3, <1>6, <1>7, <1>8, <1>9, <1>10, <1>12, <1>13, <1>14, <1>16 DEF Half

\* A set that goes up from each of its members but o goes up to o.
LEMMA Between ==
  ASSUME NEW w, NEW h, Seated(w, h), NEW o, NEW C,
         \A y \in C \ {o} : w.parent[y] \in C, NEW x \in C \cap w.alive
  PROVE  \A y \in Line(w, x) : o \in Line(w, y) => y \in C
<1> DEFINE Y == {y \in Line(w, x) : o \in Line(w, y) => y \in C}
<1>1. /\ Line(w, x) \subseteq w.alive /\ x \in Line(w, x) /\ w.alive \subseteq Objects
      /\ \A y \in Line(w, x) : Gate \in Line(w, y)
  BY Inner
<1>2. ASSUME NEW y \in (Y \cap Objects) \ {Gate} PROVE w.parent[y] \in Y
  <2>1. w.parent[y] \in Line(w, x)
    BY LineUp
  <2>2. ASSUME o \in Line(w, w.parent[y]) PROVE w.parent[y] \in C
    <3>1. o \in Line(w, y) /\ Gate \in Line(w, y)
      BY <1>1, <2>2, LineStep
    <3>2. Line(w, y) \subseteq Objects
      BY <1>1, LineTrans
    <3>3. y # o
      BY <2>2, <3>1, <3>2, LineAcyclic
    <3> QED
      BY <3>1, <3>3
  <2> QED
    BY <2>1, <2>2
<1>3. x \in Y
  BY <1>1
<1> HIDE DEF Y
<1>4. Line(w, x) \subseteq Y
  BY <1>2, <1>3, LineLeast
<1> QED
  BY <1>4 DEF Y

LEMMA KeepsTrans ==
  ASSUME NEW w, NEW f, NEW F, NEW A, Keeps(w, f, F), Keeps(w, F, A)
  PROVE  Keeps(w, f, A)
<1>1. ASSUME NEW r \in f.link, r[2] \in w.alive PROVE \E a \in A.link : Edge(a) = Edge(r)
  <2>1. PICK x \in F.link : Edge(x) = Edge(r)
    BY <1>1 DEF Keeps
  <2>2. x[2] \in w.alive
    BY <1>1, <2>1 DEF Edge
  <2> QED
    BY <2>1, <2>2 DEF Keeps
<1> QED
  BY <1>1 DEF Keeps

\* Where a set::on that rises from o finds the chains: the record of o is to come.
HalfBegins(w, h, f, o) ==
    /\ Sourced(w, f) /\ Answered(w, f, {o})
    /\ Known(w, f) /\ Shows(w, h, f) /\ Exists(w, f) /\ Live(f, o)
Begins(w, h, f, o) == HalfBegins(w, h, f, o) /\ Arrives(w, f, {}) /\ StrungTo(w, f, o)

\* A set::on sent to o turns on its whole branch.
TurnsOn(w, h, f, o, A) ==
    /\ Fit(w, A) /\ Bare(A) = {} /\ Begins(w, h, A, o)
    /\ A.twice = f.twice /\ Keeps(w, f, A)
    /\ \A x \in Objects : Live(A, x) => Live(f, x) \/ o \in Line(w, x)

LEMMA ActivateWhole ==
  ASSUME NEW w, NEW h, Seated(w, h), NEW g, NEW f, Fit(w, f), Bare(f) = {},
         Half(w, h, f), Strung(w, f), NEW d, Sound(w, d),
         NEW o \in w.alive, Offers(w, h, d, o), NEW first, Arrives(w, f, {o})
  PROVE  TurnsOn(w, h, f, o, Activate(w, g, f, d, o, first))
<1> DEFINE A == Activate(w, g, f, d, o, first)
           F == Prepared(w, g, f, d, o, first)
<1>1. o \in Objects /\ w.alive \subseteq Objects
  BY DEF Seated, Rooted, Scenes
<1>2. Fit(w, F) /\ Bare(F) = {}
  BY <1>1, PreparedFits
<1>3. PICK C : DupsTo(w, f, d, o, C, F) /\ (C # {} => f.state[o] = "none")
  BY <1>1, PreparedIs
<1>4. ActivatesTo(w, F, o, Reach(Passed(w, F), {o}), A) /\ Fit(w, A)
  BY <1>1, <1>2, ActivateIs
<1>5. Bare(A) = {}
  BY <1>1, ActivateBare
<1> DEFINE hit == Reach(Passed(w, F), {o})
<1> HIDE DEF F, A, hit
<1>6. /\ Half(w, h, F) /\ Keeps(w, f, F) /\ F.twice = f.twice
      /\ StrungTo(w, F, o)
      /\ \A r \in F.link :
               r[3] = "live" /\ r[2] \in w.alive \ {o} /\ ~Live(F, r[2])
                  => r[1] \in C /\ f.state[r[1]] = "none" /\ d.state[r[1]] = "live"
  BY <1>2, <1>3, CopyWhole
<1>7. ActivatesTo(w, F, o, hit, A)
  BY <1>4 DEF hit
<1>8. /\ A.twice = F.twice /\ o \in hit /\ hit \subseteq w.alive
      /\ \A x \in hit : o \in Line(w, x)
      /\ \A x \in hit \ {o} : w.parent[x] \in hit /\ <<w.parent[x], x, "live">> \in A.link
      /\ \A x \in Objects : A.state[x] = IF x \in hit THEN "live" ELSE F.state[x]
      /\ \A x \in F.link :
            x[1] \in hit \ Relays /\ x[3] # "dead" /\ x[2] \in w.alive => x[2] \in hit
      /\ \A r \in A.link :
            /\ r[1] \in hit \ Relays => (r[3] = "live" => r[2] \in hit)
            /\ \E x \in F.link : Edge(r) = Edge(x) /\ (x[1] \notin hit \ Relays => r = x)
      /\ \A x \in F.link :
            x[2] \in w.alive => \E r \in A.link : Edge(r) = Edge(x) /\ (x[3] = "live" => r = x)
  BY <1>7 DEF ActivatesTo
<1>9. \A x \in C \ Slotted : f.state[x] = "none" /\ d.state[x] = "live" => x \in hit
  <2>1. \A r \in F.link : r[1] \in hit \ Relays /\ r[3] = "live" /\ r[2] \in w.alive => r[2] \in hit
    BY <1>8
  <2>2. SpreadsOn(w, f, d, o, C, F)
    BY <1>2, <1>3, CopyWhole
  <2> QED
    BY <1>8, <2>1, <2>2 DEF SpreadsOn
<1>10. ASSUME NEW r \in A.link
       PROVE  /\ r[1] \in Objects /\ r[2] \in Objects
              /\ r[2] \in w.alive => r[2] # Gate /\ w.parent[r[2]] = r[1] /\ r[1] \notin Slotted \cup Relays
              /\ \E x \in F.link : /\ r[1] = x[1] /\ r[2] = x[2] /\ Edge(r) = Edge(x)
                                   /\ r[1] \notin hit \ Relays => r = x
  <2>1. r[1] \in Objects /\ r[2] \in Objects
    BY <1>4 DEF Fit, Works, Links
  <2>2. r[2] \in w.alive => r[2] # Gate /\ w.parent[r[2]] = r[1]
    BY <1>4 DEF Fit, Follows
  <2>3. PICK x \in F.link : Edge(r) = Edge(x) /\ (x[1] \notin hit \ Relays => r = x)
    BY <1>8
  <2>4. r[1] = x[1] /\ r[2] = x[2]
    BY <2>3 DEF Edge
  <2> QED
    BY <2>1, <2>2, <2>3, <2>4 DEF Seated
<1>11. Sourced(w, A)
  <2>1. ASSUME NEW r \in A.link, r[3] = "live", r[2] \in w.alive PROVE Live(A, r[1])
    <3>1. CASE r[1] \in hit
      BY <1>8, <1>10, <3>1 DEF Live
    <3>2. CASE r[1] \notin hit
      <4>1. r \in F.link
        BY <1>10, <3>2
      <4>2. F.state[r[1]] = "live"
        BY <1>6, <2>1, <4>1 DEF Half, Sourced, Live
      <4> QED
        BY <1>8, <1>10, <4>2 DEF Live
    <3> QED
      BY <3>1, <3>2
  <2> QED
    BY <2>1 DEF Sourced
<1>12. Arrives(w, A, {})
  <2>1. ASSUME NEW r \in A.link, r[3] = "live", r[2] \in w.alive PROVE Live(A, r[2])
    <3>1. ASSUME r[2] \in hit PROVE Live(A, r[2])
      BY <1>8, <1>10, <3>1 DEF Live
    <3>2. ASSUME r[2] \notin hit PROVE Live(A, r[2])
      <4>1. r[1] \notin hit \ Relays /\ r[2] # o
        BY <1>8, <2>1, <3>2
      <4>2. r \in F.link /\ r[1] \notin hit
        BY <1>10, <2>1, <4>1
      <4>3. ASSUME ~Live(F, r[2]) PROVE FALSE
        <5>1. r[1] \in C /\ f.state[r[1]] = "none" /\ d.state[r[1]] = "live"
          BY <1>6, <2>1, <4>1, <4>2, <4>3
        <5> QED
          BY <1>9, <1>10, <2>1, <4>2, <5>1
      <4> QED
        BY <1>8, <1>10, <4>3 DEF Live
    <3> QED
      BY <3>1, <3>2
  <2> QED
    BY <2>1 DEF Arrives
<1>13. Answered(w, A, {o})
  <2>1. ASSUME NEW r \in A.link, r[2] \in w.alive \ (Slotted \cup {o}), Live(A, r[2])
        PROVE  r[3] = "live"
    <3>1. CASE r[2] \in hit
      <4> DEFINE e == <<w.parent[r[2]], r[2], "live">>
      <4>1. e \in A.link /\ e[3] = "live" /\ Edge(e) = Edge(r)
        BY <1>8, <1>10, <2>1, <3>1 DEF Edge
      <4> HIDE DEF e
      <4>2. e = r
        BY <1>4, <4>1 DEF Fit, Single
      <4> QED
        BY <4>1, <4>2
    <3>2. CASE r[2] \notin hit
      <4>1. PICK x \in F.link : Edge(r) = Edge(x) /\ r[2] = x[2]
        BY <1>10
      <4>2. Live(F, x[2])
        BY <1>8, <1>10, <2>1, <3>2, <4>1 DEF Live
      <4>3. x[3] = "live"
        BY <1>6, <2>1, <4>1, <4>2 DEF Half, Answered
      <4>4. x \in A.link
        BY <1>8, <2>1, <4>1, <4>3
      <4>5. r = x
        BY <1>4, <4>1, <4>4 DEF Fit, Single
      <4> QED
        BY <4>3, <4>5
    <3> QED
      BY <3>1, <3>2
  <2> QED
    BY <2>1 DEF Answered
<1>14. Known(w, A) /\ Shows(w, h, A) /\ Exists(w, A)
  <2>1. Known(w, A)
    BY <1>6, <1>8, <1>10 DEF Half, Known
  <2>2. Shows(w, h, A)
    BY <1>6, <1>10 DEF Half, Shows
  <2>3. Exists(w, A)
    BY <1>6, <1>8 DEF Half, Exists
  <2> QED
    BY <2>1, <2>2, <2>3
<1>15. Keeps(w, F, A) /\ Keeps(w, f, A)
  <2>1. Keeps(w, F, A)
    BY <1>8 DEF Keeps
  <2> QED
    BY <1>6, <2>1, KeepsTrans
<1>16. StrungTo(w, A, o)
  <2>1. ASSUME NEW x \in w.alive, Live(A, x), NEW y \in Line(w, x) \ (Slotted \cup {Gate})
        PROVE  Named(A, y) \/ (o \in Line(w, x) /\ y \in Line(w, o))
    <3>1. Line(w, x) \subseteq w.alive /\ Gate \in Line(w, x) /\ w.alive \subseteq Objects
      BY Inner, LineSelf
    <3>2. CASE Live(F, x)
      <4>1. Named(F, y) \/ (o \in Line(w, x) /\ y \in Line(w, o))
        BY <1>6, <2>1, <3>2 DEF StrungTo
      <4> QED
        BY <1>15, <2>1, <3>1, <4>1, NamedKept
    <3>3. CASE ~Live(F, x)
      <4>1. x \in hit /\ o \in Line(w, x)
        BY <1>1, <1>8, <2>1, <3>3 DEF Live
      <4>2. o \in Line(w, y) \/ y \in Line(w, o)
        BY <2>1, <3>1, <4>1, LineOrder
      <4>3. ASSUME o \in Line(w, y), y # o PROVE Named(A, y)
        <5>1. \A z \in hit \ {o} : w.parent[z] \in hit
          BY <1>8
        <5>2. y \in hit
          BY <2>1, <4>1, <4>3, <5>1, Between
        <5>3. <<w.parent[y], y, "live">> \in A.link
          BY <1>8, <4>3, <5>2
        <5> QED
          BY <5>3 DEF Named
      <4> QED
        BY <4>1, <4>2, <4>3, LineSelf
    <3> QED
      BY <3>2, <3>3
  <2> QED
    BY <2>1 DEF StrungTo
<1>17. Live(A, o)
  BY <1>1, <1>8 DEF Live
<1>18. ASSUME NEW x \in Objects, Live(A, x), ~Live(f, x) PROVE o \in Line(w, x)
  <2>1. CASE x \in hit
    BY <1>8, <2>1
  <2>2. CASE x \notin hit
    <3>1. x \in C
      BY <1>3, <1>8, <1>18, <2>2 DEF DupsTo, Live
    <3> QED
      BY <1>3, <3>1 DEF DupsTo
  <2> QED
    BY <2>1, <2>2
<1>19. Begins(w, h, A, o)
  BY <1>11, <1>12, <1>13, <1>14, <1>16, <1>17 DEF Begins, HalfBegins
<1> QED
  BY <1>4, <1>5, <1>6, <1>8, <1>15, <1>18, <1>19 DEF TurnsOn, A

\* The live links of the line keep to it, but for those that o has itself.
StandsAlone(w, f, o, A) ==
    /\ \A x \in Line(w, o) : Live(A, x)
    /\ \A r \in A.link : r[3] = "live" /\ r[1] \in Line(w, o)
                             => r[2] \in Line(w, o) \/ (r[1] = o /\ r \in f.link)

\* What rises from o links all of its line.
LEMMA RaiseWhole ==
  ASSUME NEW w, NEW h, Seated(w, h), NEW g, NEW f, Fit(w, f), NEW o \in w.alive,
         HalfBegins(w, h, f, o), Line(w, o) \cap h = {}, NEW solo \in BOOLEAN
  PROVE  LET A == Raise(w, g, f, o, solo)
         IN  /\ Fit(w, A) /\ Half(w, h, A) /\ Keeps(w, f, A) /\ A.twice = f.twice /\ Live(A, o)
             /\ Arrives(w, f, {}) => Arrives(w, A, {})
             /\ StrungTo(w, f, o) => Strung(w, A)
             /\ solo => StandsAlone(w, f, o, A)
<1> DEFINE A  == Raise(w, g, f, o, solo)
           up == Raised(w, f, o, solo)
<1>1. w \in Scenes /\ o \in Objects /\ w.alive \subseteq Objects
  BY DEF Seated, Rooted, Scenes
<1>2. /\ Line(w, o) \subseteq w.alive /\ Gate \in Line(w, o) /\ o \in Line(w, o)
      /\ \A y \in w.alive \ {Gate} : w.parent[y] \in w.alive
  BY Inner
<1>3. PICK hit : RaisesTo(w, f, o, solo, up, hit, A)
  BY <1>1, RaiseIs
<1>4. Fit(w, A)
  BY <1>1, RaiseIs
<1>5. up \subseteq Line(w, o) /\ (o = Gate => up = {}) /\ (o # Gate => up \subseteq Line(w, w.parent[o]))
  BY <1>1, VisitedLine, VisitedIn DEF Raised, Visited
<1>6. ASSUME NEW y \in Line(w, o) \ {Gate, o}, w.parent[y] \in up PROVE y \in up
  BY <1>1, <1>2, <1>5, <1>6, VisitedBelow DEF Raised
<1>7. o # Gate => w.parent[o] \in up
  BY <1>1, VisitedFirst DEF Raised
<1>8. ASSUME NEW y \in up \ {Gate}, solo \/ ~Live(f, y) PROVE w.parent[y] \in up
  BY <1>1, <1>2, <1>5, <1>8, VisitedUp DEF Raised, LiveObjects, Live
<1>9. o # Gate => \A s \in up : o \notin Line(w, s)
  BY <1>1, <1>2, <1>5, AncestorsAside
<1> DEFINE path == Path(w, o, up)
           side == Beside(w, f, o, up)
<1>10. /\ \A e \in path : /\ e = <<e[1], e[2]>> /\ e[1] \in up
                          /\ e[2] \in Line(w, o) \ {Gate} /\ w.parent[e[2]] = e[1]
       /\ \A x \in Line(w, o) \ {Gate} : w.parent[x] \in up => <<w.parent[x], x>> \in path
  BY <1>1, PathIs
<1>11. /\ \A s \in side : w.parent[s] \in up /\ s \notin Line(w, o)
       /\ \A x \in f.link : x[1] \in up /\ Edge(x) \notin path /\ x[2] \in w.alive => x[2] \in side
  BY <1>1, BesideIs
<1>12. /\ A.twice = f.twice
       /\ \A x \in Objects : A.state[x] = IF x \in up THEN "live"
                                        ELSE IF x \in hit THEN "idle" ELSE f.state[x]
       /\ hit \subseteq w.alive /\ (~solo => hit = {})
       /\ \A x \in hit : \E s \in side : s \in Line(w, x)
       /\ solo => side \subseteq hit
       /\ \A x \in hit : x \in side \/ w.parent[x] \in hit
       /\ \A x \in f.link :
           x[3] = "live" /\ f.state[x[1]] = "live" /\ x[1] \in hit \ up /\ x[2] \in w.alive
             => x[2] \in hit
       /\ \A e \in path : <<e[1], e[2], "live">> \in A.link
       /\ \A r \in A.link :
           \/ Edge(r) \in path /\ r[3] = "live"
           \/ \E x \in f.link : /\ Edge(x) = Edge(r)
                                /\ r[3] = "live" => /\ r = x /\ ~(solo /\ r[1] \in up)
                                                    /\ ~(r[1] \in hit /\ f.state[r[1]] = "live")
       /\ \A x \in f.link :
           /\ x[2] \in w.alive => \E r \in A.link : Edge(r) = Edge(x)
           /\ x[2] \in w.alive /\ x[3] = "live" /\ ~(solo /\ x[1] \in up)
                /\ ~(x[1] \in hit /\ f.state[x[1]] = "live") => x \in A.link
  BY <1>3 DEF RaisesTo
<1> HIDE DEF A, up, path, side
<1>13. hit \cap Line(w, o) = {}
  <2>1. ASSUME NEW x \in hit, x \in Line(w, o) PROVE FALSE
    <3>1. PICK s \in side : s \in Line(w, x)
      BY <1>12
    <3>2. s \in Line(w, o)
      BY <2>1, <3>1, LineTrans
    <3> QED
      BY <1>11, <3>2
  <2> QED
    BY <2>1
<1>14. up \cap hit = {} /\ o \notin hit
  BY <1>2, <1>5, <1>13
<1>15. Live(A, o) /\ \A x \in up : Live(A, x)
  BY <1>1, <1>2, <1>5, <1>12, <1>14 DEF HalfBegins, Live
<1>16. \A x \in Objects : Live(A, x) => x \in up \/ (Live(f, x) /\ x \notin hit)
  BY <1>12 DEF Live
<1>17. ASSUME NEW r \in A.link
       PROVE  /\ r[1] \in Objects /\ r[2] \in Objects /\ Edge(r) = <<r[1], r[2]>>
              /\ r[2] \in w.alive => r[2] # Gate /\ w.parent[r[2]] = r[1]
              /\ \/ Edge(r) \in path /\ r[3] = "live"
                 \/ \E x \in f.link : /\ Edge(x) = Edge(r) /\ x[1] = r[1] /\ x[2] = r[2]
                                      /\ r[3] = "live" => /\ r = x /\ ~(solo /\ r[1] \in up)
                                                          /\ ~(r[1] \in hit /\ Live(f, r[1]))
  <2>1. /\ r[1] \in Objects /\ r[2] \in Objects
        /\ r[2] \in w.alive => r[2] # Gate /\ w.parent[r[2]] = r[1]
    BY <1>4 DEF Fit, Works, Links, Follows
  <2>2. \/ Edge(r) \in path /\ r[3] = "live"
        \/ \E x \in f.link : /\ Edge(x) = Edge(r)
                             /\ r[3] = "live" => /\ r = x /\ ~(solo /\ r[1] \in up)
                                                 /\ ~(r[1] \in hit /\ Live(f, r[1]))
    BY <1>12 DEF Live
  <2> QED
    BY <2>1, <2>2 DEF Edge
<1>18. ASSUME NEW r \in A.link, Edge(r) \in path
       PROVE  r[1] \in up /\ r[2] \in Line(w, o) \ {Gate} /\ r[2] \in up \cup {o}
  <2>1. r[1] \in up /\ r[2] \in Line(w, o) \ {Gate} /\ w.parent[r[2]] = r[1]
    BY <1>10, <1>18 DEF Edge
  <2> QED
    BY <1>6, <2>1
<1>19. Sourced(w, A)
  <2>1. ASSUME NEW r \in A.link, r[3] = "live", r[2] \in w.alive PROVE Live(A, r[1])
    <3>1. CASE Edge(r) \in path
      BY <1>15, <1>18, <3>1
    <3>2. CASE r \in f.link /\ ~(r[1] \in hit /\ Live(f, r[1]))
      <4>1. Live(f, r[1]) /\ r[1] \notin hit
        BY <2>1, <3>2 DEF HalfBegins, Sourced
      <4> QED
        BY <1>12, <1>17, <4>1 DEF Live
    <3> QED
      BY <1>17, <2>1, <3>1, <3>2
  <2> QED
    BY <2>1 DEF Sourced
<1>20. ASSUME Arrives(w, f, {}) PROVE Arrives(w, A, {})
  <2>1. ASSUME NEW r \in A.link, r[3] = "live", r[2] \in w.alive PROVE Live(A, r[2])
    <3>1. CASE Edge(r) \in path
      BY <1>15, <1>18, <3>1
    <3>2. CASE r \in f.link /\ ~(solo /\ r[1] \in up) /\ ~(r[1] \in hit /\ Live(f, r[1]))
      <4>1. Live(f, r[1]) /\ Live(f, r[2]) /\ r[1] \notin hit /\ w.parent[r[2]] = r[1]
        BY <1>17, <1>20, <2>1, <3>2 DEF HalfBegins, Sourced, Arrives
      <4>2. r[2] \notin hit
        BY <1>11, <1>12, <3>2, <4>1
      <4> QED
        BY <1>12, <1>17, <4>1, <4>2 DEF Live
    <3> QED
      BY <1>17, <2>1, <3>1, <3>2
  <2> QED
    BY <2>1 DEF Arrives
<1>21. Answered(w, A, {})
  <2>1. ASSUME NEW r \in A.link, r[2] \in w.alive \ Slotted, Live(A, r[2]), r[3] # "live"
        PROVE  FALSE
    <3>1. PICK x \in f.link : Edge(x) = Edge(r) /\ x[1] = r[1] /\ x[2] = r[2]
      BY <1>17, <2>1
    <3>2. r[2] \in Objects \ {Gate} /\ w.parent[r[2]] = r[1]
      BY <1>17, <2>1
    <3>3. ASSUME Edge(r) \in path PROVE FALSE
      <4> DEFINE e == <<r[1], r[2], "live">>
      <4>1. e \in A.link /\ Edge(e) = Edge(r) /\ e[3] = "live"
        BY <1>12, <1>17, <3>3 DEF Edge
      <4> HIDE DEF e
      <4>2. e = r
        BY <1>4, <4>1 DEF Fit, Single
      <4> QED
        BY <2>1, <4>1, <4>2
    <3>4. r[2] # o /\ ~(r[2] \in Line(w, o) /\ r[1] \in up)
      BY <1>2, <1>7, <1>10, <1>17, <3>2, <3>3
    <3>5. Live(f, r[2]) /\ r[2] \notin hit
      <4>1. CASE r[2] \in up
        <5>1. ~solo /\ Live(f, r[2])
          BY <1>5, <1>8, <3>2, <3>4, <4>1
        <5> QED
          BY <1>12, <5>1
      <4>2. CASE r[2] \notin up
        BY <1>16, <2>1, <3>2, <4>2
      <4> QED
        BY <4>1, <4>2
    <3>6. x[3] = "live"
      BY <2>1, <3>1, <3>4, <3>5 DEF HalfBegins, Answered
    <3>7. ~(solo /\ x[1] \in up)
      BY <1>11, <1>12, <2>1, <3>1, <3>3, <3>5
    <3>8. ~(x[1] \in hit /\ f.state[x[1]] = "live")
      BY <1>12, <1>14, <2>1, <3>1, <3>5, <3>6
    <3>9. x \in A.link
      BY <1>12, <2>1, <3>1, <3>6, <3>7, <3>8
    <3>10. x = r
      BY <1>4, <3>1, <3>9 DEF Fit, Single
    <3> QED
      BY <2>1, <3>6, <3>10
  <2> QED
    BY <2>1 DEF Answered
<1>22. Known(w, A)
  <2>1. ASSUME NEW r \in A.link, r[2] \in w.alive \ Slotted PROVE A.state[r[2]] # "none"
    <3>1. CASE Edge(r) \in path
      BY <1>15, <1>18, <3>1 DEF Live
    <3>2. CASE \E x \in f.link : x[2] = r[2]
      <4>1. f.state[r[2]] # "none"
        BY <2>1, <3>2 DEF HalfBegins, Known
      <4> QED
        BY <1>12, <1>17, <4>1
    <3> QED
      BY <1>17, <3>1, <3>2
  <2> QED
    BY <2>1 DEF Known
<1>23. Shows(w, h, A)
  <2>1. ASSUME NEW r \in A.link, r[2] \in w.alive PROVE r[2] \notin h
    <3>1. CASE Edge(r) \in path
      BY <1>18, <3>1
    <3>2. CASE \E x \in f.link : x[2] = r[2]
      BY <2>1, <3>2 DEF HalfBegins, Shows
    <3> QED
      BY <1>17, <3>1, <3>2
  <2> QED
    BY <2>1 DEF Shows
<1>24. Exists(w, A)
  <2>1. \A x \in Objects \ w.alive : x \notin up /\ x \notin hit
    BY <1>2, <1>5, <1>12
  <2> QED
    BY <1>12, <2>1 DEF HalfBegins, Exists
<1>25. Keeps(w, f, A)
  BY <1>12 DEF Keeps
<1>26. ASSUME StrungTo(w, f, o), NEW y \in Line(w, o) \ (Slotted \cup {Gate}) PROVE Named(A, y)
  <2>1. CASE w.parent[y] \in up
    <3> DEFINE e == <<w.parent[y], y>>
    <3>0. e \in path /\ e[1] = w.parent[y] /\ e[2] = y
      BY <1>10, <1>26, <2>1
    <3> HIDE DEF e
    <3>1. <<w.parent[y], y, "live">> \in A.link
      BY <1>12, <3>0
    <3> QED
      BY <3>1 DEF Named
  <2>2. CASE w.parent[y] \notin up
    <3> DEFINE Y == {z \in Line(w, o) : \/ z = o \/ z \in up
                                        \/ \E s \in up : Live(f, s) /\ z \in Line(w, s)}
    <3>1. ASSUME NEW z \in (Y \cap Objects) \ {Gate} PROVE w.parent[z] \in Y
      <4>1. w.parent[z] \in Line(w, o)
        BY LineUp
      <4>2. CASE z = o
        BY <1>7, <4>1, <4>2
      <4>3. CASE z \in up /\ ~Live(f, z)
        BY <1>8, <4>1, <4>3
      <4>4. CASE z \in up /\ Live(f, z)
        BY <4>1, <4>4, LineUp, LineSelf
      <4>5. CASE \E s \in up : Live(f, s) /\ z \in Line(w, s)
        BY <4>1, <4>5, LineUp
      <4> QED
        BY <4>2, <4>3, <4>4, <4>5
    <3>2. o \in Y
      BY <1>2
    <3> HIDE DEF Y
    <3>3. Line(w, o) \subseteq Y
      BY <3>1, <3>2, LineLeast
    <3>4. y # o
      BY <1>7, <1>26, <2>2
    <3>5. \E s \in up : Live(f, s) /\ y \in Line(w, s)
      <4>1. CASE y \in up
        BY <1>8, <1>26, <2>2, <4>1, LineSelf
      <4>2. CASE y \notin up
        BY <1>26, <3>3, <3>4, <4>2 DEF Y
      <4> QED
        BY <4>1, <4>2
    <3>6. PICK s \in up : Live(f, s) /\ y \in Line(w, s)
      BY <3>5
    <3>7. s \in w.alive /\ o # Gate
      BY <1>2, <1>5
    <3>8. Named(f, y)
      BY <1>9, <1>26, <3>6, <3>7 DEF StrungTo
    <3> QED
      BY <1>2, <1>25, <1>26, <3>8, NamedKept
  <2> QED
    BY <2>1, <2>2
<1>27. ASSUME StrungTo(w, f, o) PROVE Strung(w, A)
  <2>1. ASSUME NEW x \in w.alive, Live(A, x), NEW y \in Line(w, x) \ (Slotted \cup {Gate})
        PROVE  Named(A, y)
    <3>1. y \in w.alive
      BY Inner
    <3>2. CASE x \in up
      <4>1. y \in Line(w, o)
        BY <1>5, <2>1, <3>2, LineTrans
      <4> QED
        BY <1>26, <1>27, <2>1, <4>1
    <3>3. CASE x \notin up
      <4>1. Live(f, x)
        BY <1>1, <1>16, <2>1, <3>3
      <4>2. Named(f, y) \/ y \in Line(w, o)
        BY <1>27, <2>1, <4>1 DEF StrungTo
      <4> QED
        BY <1>25, <1>26, <1>27, <2>1, <3>1, <4>2, NamedKept
    <3> QED
      BY <3>2, <3>3
  <2> QED
    BY <2>1 DEF Strung
<1>28. ASSUME solo, o # Gate PROVE Line(w, o) = up \cup {o}
  BY <1>1, <1>28, VisitedAll, LineStep DEF Raised, up
<1>29. ASSUME solo PROVE StandsAlone(w, f, o, A)
  <2>1. Line(w, o) = up \cup {o}
    BY <1>5, <1>28, <1>29, LineGate
  <2>2. \A x \in Line(w, o) : Live(A, x)
    BY <1>15, <2>1
  <2>3. ASSUME NEW r \in A.link, r[3] = "live", r[1] \in Line(w, o)
        PROVE  r[2] \in Line(w, o) \/ (r[1] = o /\ r \in f.link)
    BY <1>17, <1>18, <1>29, <2>1, <2>3
  <2> QED
    BY <2>2, <2>3 DEF StandsAlone
<1> QED
  BY <1>4, <1>12, <1>15, <1>19, <1>20, <1>21, <1>22, <1>23, <1>24, <1>25, <1>27, <1>29 DEF A, Half

\* The handler of set::on at o itself.
LEMMA NotifyBegins ==
  ASSUME NEW w, NEW h, Seated(w, h), NEW f, Fit(w, f), Half(w, h, f), NEW o \in w.alive
  PROVE  LET N == Notify(f, {o}, "live")
         IN  /\ Fit(w, N) /\ HalfBegins(w, h, N, o) /\ Keeps(w, f, N) /\ N.twice = f.twice
             /\ N.link = f.link
             /\ Arrives(w, f, {}) => Arrives(w, N, {})
             /\ Strung(w, f) => StrungTo(w, N, o)
<1> DEFINE N == Notify(f, {o}, "live")
<1>1. o \in Objects /\ w.alive \subseteq Objects /\ f \in Works /\ "live" \in Statuses
  BY DEF Seated, Rooted, Scenes, Fit, Statuses
<1>2. Fit(w, N)
  BY <1>1, NotifyFits
<1>3. /\ N.link = f.link /\ N.twice = f.twice
      /\ \A x \in Objects : N.state[x] = IF x \in {o} THEN "live" ELSE f.state[x]
  BY <1>1, NotifyIs
<1> HIDE DEF N
<1>4. \A r \in N.link : r[1] \in Objects /\ r[2] \in Objects
  BY <1>2 DEF Fit, Works, Links
<1>5. Sourced(w, N) /\ Known(w, N) /\ Live(N, o)
  BY <1>1, <1>3, <1>4 DEF Half, Sourced, Known, Live
<1>6. Answered(w, N, {o})
  BY <1>3, <1>4 DEF Half, Answered, Live
<1>7. Shows(w, h, N) /\ Exists(w, N)
  BY <1>1, <1>3 DEF Half, Shows, Exists
<1>8. Keeps(w, f, N)
  BY <1>3 DEF Keeps
<1>9. Arrives(w, f, {}) => Arrives(w, N, {})
  BY <1>3, <1>4 DEF Arrives, Live
<1>10. ASSUME Strung(w, f), NEW x \in w.alive, Live(N, x), NEW y \in Line(w, x) \ (Slotted \cup {Gate})
       PROVE  Named(N, y) \/ (o \in Line(w, x) /\ y \in Line(w, o))
  <2>1. CASE x = o
    BY <1>10, <2>1, LineSelf
  <2>2. CASE x # o
    BY <1>1, <1>3, <1>10, <2>2 DEF Strung, Named, Live
  <2> QED
    BY <2>1, <2>2
<1>11. Strung(w, f) => StrungTo(w, N, o)
  BY <1>10 DEF StrungTo
<1> QED
  BY <1>2, <1>3, <1>5, <1>6, <1>7, <1>8, <1>9, <1>11 DEF N, HalfBegins

\* An endpoint focused alone drops the links to what is below it.
LEMMA AloneBegins ==
  ASSUME NEW w, NEW h, Seated(w, h), NEW f, Fit(w, f), Bare(f) = {}, Half(w, h, f),
         NEW o \in w.alive
  PROVE  LET N == Notify(Release(w, Dropped(w, f, o), Down(w, f, o)), {o}, "live")
         IN  /\ Fit(w, N) /\ HalfBegins(w, h, N, o) /\ Keeps(w, f, N) /\ N.twice = f.twice
             /\ Arrives(w, f, {}) => Arrives(w, N, {})
             /\ Strung(w, f) => StrungTo(w, N, o)
             /\ \A r \in N.link : r[1] = o => r[3] # "live"
<1> DEFINE D == Dropped(w, f, o)
           S == Down(w, f, o)
           R == Release(w, D, S)
           N == Notify(R, {o}, "live")
<1>1. o \in Objects /\ w.alive \subseteq Objects /\ f.link \subseteq Links
  BY DEF Seated, Rooted, Scenes, Fit, Works
<1>2. /\ Fit(w, D) /\ D.state = f.state /\ D.twice = f.twice
      /\ \A r \in D.link : \E x \in f.link :
               /\ Edge(r) = Edge(x) /\ (x[1] # o => r = x)
               /\ (x[1] = o => r[2] \in w.alive /\ r[3] # "live")
      /\ \A x \in f.link :
               /\ x[1] # o => x \in D.link
               /\ x[2] \in w.alive => \E r \in D.link : Edge(r) = Edge(x)
      /\ S \subseteq Objects \cap w.alive
      /\ \A s \in S : s # Gate /\ w.parent[s] = o
      /\ \A x \in f.link : x[1] = o /\ x[3] = "live" /\ x[2] \in w.alive => x[2] \in S
  BY <1>1, DroppedIs
<1> HIDE DEF D, S
<1>3. ASSUME NEW r \in D.link
      PROVE  /\ r[2] \in w.alive => w.parent[r[2]] = r[1]
             /\ \E x \in f.link : /\ r[1] = x[1] /\ r[2] = x[2]
                                  /\ x[1] # o => r = x
                                  /\ x[1] = o => r[3] # "live"
  <2>1. PICK x \in f.link : /\ Edge(r) = Edge(x) /\ (x[1] # o => r = x)
                            /\ (x[1] = o => r[2] \in w.alive /\ r[3] # "live")
    BY <1>2
  <2>2. r[1] = x[1] /\ r[2] = x[2]
    BY <2>1 DEF Edge
  <2> QED
    BY <1>2, <2>1, <2>2 DEF Fit, Follows
<1>4. Sourced(w, D)
  BY <1>2, <1>3 DEF Half, Sourced, Live
<1>5. Answered(w, D, S)
  BY <1>2, <1>3 DEF Half, Answered, Live
<1>6. Known(w, D) /\ Shows(w, h, D) /\ Exists(w, D)
  BY <1>2, <1>3 DEF Half, Known, Shows, Exists
<1>7. Keeps(w, f, D)
  BY <1>2 DEF Keeps
<1>8. /\ Half(w, h, R) /\ Keeps(w, D, R) /\ R.twice = f.twice
      /\ Arrives(w, D, S) => Arrives(w, R, S)
      /\ \A x \in Objects : Live(R, x) => Live(D, x)
      /\ \A r \in R.link : r[3] = "live" => r \in D.link
  <2> HIDE DEF R
  <2>1. TurnsOff(w, h, D, S, S, R)
    BY <1>1, <1>2, <1>4, <1>5, <1>6, ReleaseWhole DEF R
  <2> QED
    BY <1>2, <2>1 DEF TurnsOff
<1>9. Fit(w, R)
  BY <1>2, ReleaseIs
<1> HIDE DEF R
<1>10. \A r \in R.link : r[1] = o => r[3] # "live"
  BY <1>3, <1>8
<1>11. ASSUME Arrives(w, f, {}) PROVE Arrives(w, R, {})
  <2>1. Arrives(w, D, S)
    BY <1>2, <1>3, <1>11 DEF Arrives, Live
  <2>2. \A r \in R.link : r[2] \in S => r[1] = o
    BY <1>2, <1>9 DEF Fit, Follows
  <2> QED
    BY <1>8, <1>10, <2>1, <2>2 DEF Arrives
<1>12. Keeps(w, f, R)
  BY <1>7, <1>8, KeepsTrans
<1>13. Strung(w, f) => Strung(w, R)
  <2>1. \A x \in w.alive : Live(R, x) => Live(f, x)
    BY <1>1, <1>2, <1>8 DEF Live
  <2> QED
    BY <1>12, <2>1, StrungKept
<1>14. /\ Fit(w, N) /\ HalfBegins(w, h, N, o) /\ Keeps(w, R, N) /\ N.twice = R.twice
       /\ N.link = R.link
       /\ Arrives(w, R, {}) => Arrives(w, N, {})
       /\ Strung(w, R) => StrungTo(w, N, o)
  BY <1>8, <1>9, NotifyBegins
<1> HIDE DEF N
<1>15. Keeps(w, f, N)
  BY <1>12, <1>14, KeepsTrans
<1> QED
  BY <1>8, <1>10, <1>11, <1>13, <1>14, <1>15 DEF N, R, D, S

LEMMA ActivateBegins ==
  ASSUME NEW w, NEW h, Seated(w, h), NEW g, NEW f, Fit(w, f), Bare(f) = {}, Whole(w, h, f),
         NEW d, Sound(w, d), Half(w, h, d), NEW o \in w.alive, NEW first
  PROVE  TurnsOn(w, h, f, o, Activate(w, g, f, d, o, first))
<1>1. Half(w, h, f) /\ Strung(w, f) /\ Arrives(w, f, {o})
  BY DEF Whole, Arrives
<1>2. Offers(w, h, d, o)
  BY DEF Offers, Half, Shows
<1> QED
  BY <1>1, <1>2, ActivateWhole

\* What set does at o before it rises; with the default chains only half holds.
LEMMA BegunWhole ==
  ASSUME NEW w, NEW h, Seated(w, h), NEW g, NEW f, Fit(w, f), Bare(f) = {}, Half(w, h, f),
         NEW d, Sound(w, d), Half(w, h, d), NEW o \in w.alive, NEW solo, NEW just,
         g = Default \/ Whole(w, h, f)
  PROVE  LET F == Begun(w, g, f, d, o, solo, just)
         IN  /\ Fit(w, F) /\ HalfBegins(w, h, F, o) /\ F.twice = f.twice
             /\ Whole(w, h, f) => Begins(w, h, F, o)
<1> DEFINE F == Begun(w, g, f, d, o, solo, just)
           alone == o \in Endpoints /\ ~just /\ solo
           T == Activate(w, g, f, d, o, TRUE)
           N == Notify(Release(w, Dropped(w, f, o), Down(w, f, o)), {o}, "live")
           M == Notify(f, {o}, "live")
<1>1. F = IF g # Default /\ ~alone THEN T ELSE IF alone THEN N ELSE M
  BY DEF Begun
<1>2. CASE g # Default /\ ~alone
  <2> HIDE DEF T
  <2>1. Whole(w, h, f)
    BY <1>2
  <2>2. TurnsOn(w, h, f, o, T)
    BY <2>1, ActivateBegins DEF T
  <2>3. F = T
    BY <1>1, <1>2
  <2> HIDE DEF F
  <2> QED
    BY <2>2, <2>3 DEF TurnsOn, Begins, F
<1>3. CASE alone
  <2> HIDE DEF N
  <2>1. /\ Fit(w, N) /\ HalfBegins(w, h, N, o) /\ N.twice = f.twice
        /\ Arrives(w, f, {}) => Arrives(w, N, {})
        /\ Strung(w, f) => StrungTo(w, N, o)
    BY AloneBegins DEF N
  <2>2. F = N
    BY <1>1, <1>3
  <2> HIDE DEF F
  <2> QED
    BY <2>1, <2>2 DEF Begins, Whole, F
<1>4. CASE g = Default /\ ~alone
  <2> HIDE DEF M
  <2>1. /\ Fit(w, M) /\ HalfBegins(w, h, M, o) /\ M.twice = f.twice
        /\ Arrives(w, f, {}) => Arrives(w, M, {})
        /\ Strung(w, f) => StrungTo(w, M, o)
    BY NotifyBegins DEF M
  <2>2. F = M
    BY <1>1, <1>4
  <2> HIDE DEF F
  <2> QED
    BY <2>1, <2>2 DEF Begins, Whole, F
<1> QED
  BY <1>2, <1>3, <1>4

\* What focusing o makes of the chains f.
Focuses(w, h, f, o, A) ==
    /\ Fit(w, A) /\ Bare(A) = {} /\ Half(w, h, A) /\ A.twice = f.twice /\ Live(A, o)
    /\ Whole(w, h, f) => Whole(w, h, A)

LEMMA FocusWhole ==
  ASSUME NEW w, NEW h, Seated(w, h), NEW g, NEW f, Fit(w, f), Bare(f) = {}, Half(w, h, f),
         NEW d, Sound(w, d), Half(w, h, d), NEW o \in w.alive, Line(w, o) \cap h = {},
         NEW solo \in BOOLEAN, NEW just, g = Default \/ Whole(w, h, f)
  PROVE  Focuses(w, h, f, o, Focus(w, g, f, d, o, solo, just))
<1> DEFINE F == Begun(w, g, f, d, o, solo, just)
           A == Raise(w, g, F, o, solo)
<1>1. w \in Scenes /\ o \in Objects
  BY DEF Seated, Rooted, Scenes
<1>2. /\ Fit(w, F) /\ HalfBegins(w, h, F, o) /\ F.twice = f.twice
      /\ Whole(w, h, f) => Begins(w, h, F, o)
  BY BegunWhole
<1>3. Focus(w, g, f, d, o, solo, just) = A
  BY FocusIs
<1>4. Bare(Focus(w, g, f, d, o, solo, just)) = {}
  BY <1>1, FocusFits
<1> HIDE DEF F
<1>5. /\ Fit(w, A) /\ Half(w, h, A) /\ A.twice = F.twice /\ Live(A, o)
      /\ Arrives(w, F, {}) => Arrives(w, A, {})
      /\ StrungTo(w, F, o) => Strung(w, A)
  BY <1>2, RaiseWhole
<1> HIDE DEF A
<1> QED
  BY <1>2, <1>3, <1>4, <1>5 DEF Focuses, Begins, Whole

\* Focusing an endpoint alone leaves nothing active beside its line.
OnlyLine(w, o, A) == LiveObjects(A) \ (Slotted \ {o}) = Line(w, o)

LEMMA SoloLeaves ==
  ASSUME NEW w, NEW h, Seated(w, h), NEW g, NEW f, Fit(w, f), Bare(f) = {}, Whole(w, h, f),
         NEW d, Sound(w, d), Half(w, h, d), NEW o \in w.alive, o \in Endpoints,
         Line(w, o) \cap h = {}, NEW solo \in BOOLEAN, solo, NEW just, ~just
  PROVE  OnlyLine(w, o, Focus(w, g, f, d, o, solo, just))
<1> DEFINE N == Notify(Release(w, Dropped(w, f, o), Down(w, f, o)), {o}, "live")
           A == Raise(w, g, N, o, solo)
<1>1. Half(w, h, f) /\ Arrives(w, f, {}) /\ Strung(w, f)
  BY DEF Whole
<1>2. Focus(w, g, f, d, o, solo, just) = A
  BY FocusIs DEF Begun
<1> HIDE DEF N
<1>3. /\ Fit(w, N) /\ HalfBegins(w, h, N, o)
      /\ Arrives(w, f, {}) => Arrives(w, N, {})
      /\ Strung(w, f) => StrungTo(w, N, o)
      /\ \A r \in N.link : r[1] = o => r[3] # "live"
  BY <1>1, AloneBegins DEF N
<1>4. /\ Fit(w, A) /\ Half(w, h, A)
      /\ Arrives(w, N, {}) => Arrives(w, A, {})
      /\ StrungTo(w, N, o) => Strung(w, A)
      /\ solo => StandsAlone(w, N, o, A)
  BY <1>3, RaiseWhole
<1> HIDE DEF A
<1>5. Strung(w, A) /\ Sourced(w, A) /\ Answered(w, A, {}) /\ Exists(w, A)
  BY <1>1, <1>3, <1>4 DEF Half
<1>6. /\ \A x \in Line(w, o) : Live(A, x)
      /\ \A r \in A.link : r[3] = "live" /\ r[1] \in Line(w, o) => r[2] \in Line(w, o)
  BY <1>3, <1>4 DEF StandsAlone
<1>7. /\ Line(w, o) \subseteq w.alive /\ Gate \in Line(w, o) /\ w.alive \subseteq Objects
      /\ \A y \in Line(w, o) \ {o} : y \notin Slotted \cup Relays
  BY Inner, LineSelf
<1>8. ASSUME NEW x \in Objects, Live(A, x), x \notin Slotted, x \notin Line(w, o) PROVE FALSE
  <2>1. x \in w.alive
    BY <1>5, <1>8 DEF Exists, Live
  <2>2. \A y \in Line(w, x) : /\ Live(A, y)
                              /\ y # Gate => <<w.parent[y], y, "live">> \in A.link
    BY <1>4, <1>5, <1>8, <2>1, LineLive
  <2> DEFINE Y == Line(w, x) \ Line(w, o)
  <2>3. ASSUME NEW y \in (Y \cap Objects) \ {Gate} PROVE w.parent[y] \in Y
    <3>1. w.parent[y] \in Line(w, x)
      BY LineUp
    <3> DEFINE e == <<w.parent[y], y, "live">>
    <3>2. e \in A.link /\ e[1] = w.parent[y] /\ e[2] = y /\ e[3] = "live"
      BY <2>2, <2>3
    <3> HIDE DEF e
    <3>3. w.parent[y] \notin Line(w, o)
      BY <1>6, <2>3, <3>2
    <3> QED
      BY <3>1, <3>3
  <2>4. x \in Y
    BY <1>8, LineSelf
  <2> HIDE DEF Y
  <2>5. Line(w, x) \subseteq Y
    BY <2>3, <2>4, LineLeast
  <2>6. Gate \in Line(w, x)
    BY <2>1, Inner, LineSelf
  <2> QED
    BY <1>7, <2>5, <2>6 DEF Y
<1>9. LiveObjects(A) = {x \in Objects : Live(A, x)}
  BY DEF LiveObjects, Live
<1> QED
  BY <1>2, <1>6, <1>7, <1>8, <1>9, LineSelf DEF OnlyLine

\* Where an object has two records a falling set::off ends.
LEMMA TwoRecords ==
  ASSUME NEW w, NEW f, Fit(w, f), NEW p \in Objects, NEW a \in f.link, NEW b \in f.link,
         a[1] = p, b[1] = p, a # b
  PROVE  p \in LastStep(f)
<1> DEFINE B == Records(f, p)
           M == [r \in B |-> r[2]]
<1>1. IsFiniteSet(Objects)
  BY FocusAssumption
<1>2. \A r \in f.link : r[2] \in Objects /\ Edge(r) = <<r[1], r[2]>>
  BY DEF Fit, Works, Links, Edge
<1>3. M \in [B -> Objects] /\ B \subseteq f.link /\ \A r \in B : r[1] = p
  BY <1>2 DEF Records
<1>4. ASSUME NEW r \in B, NEW x \in B, M[r] = M[x] PROVE r = x
  BY <1>2, <1>3, <1>4 DEF Fit, Single
<1>5. a \in B /\ b \in B
  BY DEF Records
<1> HIDE DEF B
<1>6. M \in Injection(B, Objects)
  BY <1>3, <1>4 DEF Injection, IsInjective
<1> HIDE DEF M
<1>7. IsFiniteSet(B)
  BY <1>1, <1>6, FS_Injection
<1>8. IsFiniteSet({a}) /\ Cardinality({a}) = 1
  BY FS_Singleton
<1>9. Cardinality({a} \cup {b}) = 2
  <2>1. Cardinality({a} \cup {b}) = IF b \in {a} THEN Cardinality({a})
                                                  ELSE Cardinality({a}) + 1
    BY <1>8, FS_AddElement, Zenon
  <2> QED
    BY <1>8, <2>1
<1>10. Cardinality({a} \cup {b}) <= Cardinality(B) /\ Cardinality(B) \in Nat
  <2>1. {a} \cup {b} \in SUBSET B
    BY <1>5
  <2> QED
    BY <1>7, <2>1, FS_Subset, FS_CardinalityType
<1>11. Cardinality(B) > 1
  BY <1>9, <1>10
<1> QED
  BY <1>11 DEF LastStep, B

\* What falls from o turns its line off, up to where the line branches.
LEMMA LowerWhole ==
  ASSUME NEW w, NEW h, Seated(w, h), NEW f, Fit(w, f), Bare(f) = {}, NEW o \in w.alive \ {Gate},
         o \notin h, Half(w, h, f), Arrives(w, f, {o}), Strung(w, f), ~Live(f, o),
         \A y \in Line(w, o) \ (Slotted \cup {Gate}) : Named(f, y)
  PROVE  LET A == Lower(w, f, o)
         IN  /\ Fit(w, A) /\ Bare(A) = {} /\ A.twice = f.twice
             /\ Whole(w, h, A)
<1> DEFINE A  == Lower(w, f, o)
           up == Lowered(w, f, o)
<1>1. w \in Scenes /\ o \in Objects \ {Gate} /\ w.alive \subseteq Objects
  BY DEF Seated, Rooted, Scenes
<1>2. /\ Line(w, o) \subseteq w.alive /\ Gate \in Line(w, o) /\ o \in Line(w, o)
      /\ \A y \in Line(w, o) : Gate \in Line(w, y)
      /\ \A y \in Line(w, o) \ {o} : y \notin Slotted
  BY Inner
<1>3. LowersTo(w, f, o, up, A)
  BY LowerIs
<1>4. Fit(w, A) /\ Bare(A) = {}
  BY LowerBare
<1>5. up \subseteq Line(w, w.parent[o]) /\ up \subseteq Line(w, o)
  BY <1>1, VisitedIn, VisitedLine DEF Lowered
<1>6. ASSUME NEW y \in Line(w, o) \ {Gate, o}, w.parent[y] \in up
      PROVE  y \in up \ LastStep(f)
  BY <1>1, <1>2, <1>6, VisitedBelow DEF Lowered
<1>7. w.parent[o] \in up
  BY <1>1, VisitedFirst DEF Lowered
<1>8. ASSUME NEW y \in (up \ LastStep(f)) \ {Gate} PROVE w.parent[y] \in up
  BY <1>1, <1>2, <1>5, <1>8, VisitedUp DEF Lowered
<1>9. ASSUME NEW y \in Line(w, o) \ {Gate} PROVE <<w.parent[y], y>> \in Toward(w, o)
  BY <1>9 DEF Toward
<1>10. ASSUME NEW e \in Toward(w, o)
       PROVE  e[2] \in Line(w, o) \ {Gate} /\ e[1] = w.parent[e[2]]
  BY <1>10 DEF Toward
<1>11. /\ A.twice = f.twice
       /\ \A x \in Objects : A.state[x] =
             IF x \in up \ LastStep(f) THEN "idle"
             ELSE IF x \in up /\ f.state[x] = "none" THEN "dead" ELSE f.state[x]
       /\ \A r \in A.link : \E x \in f.link :
             /\ Edge(x) = Edge(r)
             /\ r[3] = "live" => r = x /\ ~(r[1] \in up /\ Edge(r) \in Toward(w, o))
       /\ \A x \in f.link :
             /\ x[2] \in w.alive => \E r \in A.link : Edge(r) = Edge(x)
             /\ x[2] \in w.alive /\ x[3] = "live" /\ ~(x[1] \in up /\ Edge(x) \in Toward(w, o))
                   => x \in A.link
  BY <1>3 DEF LowersTo
<1> HIDE DEF A, up
<1>12. ASSUME NEW r \in A.link
       PROVE  /\ r[1] \in Objects /\ r[2] \in Objects /\ Edge(r) = <<r[1], r[2]>>
              /\ r[2] \in w.alive => r[2] # Gate /\ w.parent[r[2]] = r[1]
              /\ \E x \in f.link : /\ Edge(x) = Edge(r) /\ x[1] = r[1] /\ x[2] = r[2]
                                   /\ r[3] = "live" => /\ r = x
                                                       /\ ~(r[1] \in up /\ Edge(r) \in Toward(w, o))
  <2>1. /\ r[1] \in Objects /\ r[2] \in Objects
        /\ r[2] \in w.alive => r[2] # Gate /\ w.parent[r[2]] = r[1]
    BY <1>4 DEF Fit, Works, Links, Follows
  <2> QED
    BY <1>11, <2>1 DEF Edge
<1>13. \A x \in Objects : Live(A, x) => Live(f, x) /\ x \notin up \ LastStep(f)
  BY <1>11 DEF Live
<1>14. Sourced(w, A)
  <2>1. ASSUME NEW r \in A.link, r[3] = "live", r[2] \in w.alive PROVE Live(A, r[1])
    <3>1. r \in f.link /\ ~(r[1] \in up /\ Edge(r) \in Toward(w, o))
      BY <1>12, <2>1
    <3>2. Live(f, r[1])
      BY <2>1, <3>1 DEF Half, Sourced
    <3>3. ASSUME r[1] \in up, r[1] \notin LastStep(f) PROVE FALSE
      <4> DEFINE p == r[1]
      <4>1. p \in Objects /\ p \in Line(w, w.parent[o]) /\ p \in Line(w, o)
        BY <1>5, <1>12, <3>3
      <4>2. PICK q \in Line(w, o) \ {Gate} : w.parent[q] = p
        <5>1. p # o
          BY <1>1, <1>2, <3>3, <1>5, AncestorsAside, LineSelf
        <5>2. p \in Reach(Rising(w, {}), {o}) /\ p \notin {o}
          BY <4>1, <5>1 DEF Line
        <5>3. PICK e \in Rising(w, {}) : e[2] = p /\ e[1] \in Reach(Rising(w, {}), {o})
          BY <5>2, ReachStep
        <5>4. e[1] \in Line(w, o) \ {Gate} /\ w.parent[e[1]] = p
          BY <5>3 DEF Line, Rising
        <5> QED
          BY <5>4
      <4> HIDE DEF p
      <4>3. <<p, q>> \in Toward(w, o)
        BY <1>9, <4>2
      <4>4. r[2] # q
        BY <1>12, <3>1, <3>3, <4>3 DEF p
      <4>5. q \notin Slotted
        <5>1. SUFFICES ASSUME q \in Slotted PROVE FALSE
          OBVIOUS
        <5>2. q = o
          BY <1>2, <4>2, <5>1
        <5>3. r[2] \in w.alive \ {o, Gate} /\ w.parent[r[2]] = w.parent[o]
          BY <1>12, <2>1, <4>2, <4>4, <5>2 DEF p
        <5>4. r[2] \in h
          BY <5>1, <5>2, <5>3 DEF Seated
        <5> QED
          BY <2>1, <3>1, <5>4 DEF Half, Shows
      <4>6. PICK x \in f.link : x[2] = q
        BY <4>2, <4>5 DEF Named
      <4>7. x[1] = p
        BY <1>2, <4>2, <4>6 DEF Fit, Follows
      <4>8. p \in LastStep(f)
        BY <3>1, <4>1, <4>4, <4>6, <4>7, TwoRecords DEF p
      <4> QED
        BY <3>3, <4>8 DEF p
    <3> QED
      BY <1>11, <1>12, <3>2, <3>3 DEF Live
  <2> QED
    BY <2>1 DEF Sourced
<1>15. Arrives(w, A, {})
  <2>1. ASSUME NEW r \in A.link, r[3] = "live", r[2] \in w.alive PROVE Live(A, r[2])
    <3>1. r \in f.link /\ ~(r[1] \in up /\ Edge(r) \in Toward(w, o))
      BY <1>12, <2>1
    <3>2. r[2] # Gate /\ w.parent[r[2]] = r[1] /\ Edge(r) = <<w.parent[r[2]], r[2]>>
      BY <1>12, <2>1
    <3>3. r[2] # o
      BY <1>2, <1>7, <1>9, <3>1, <3>2
    <3>4. r[2] \notin up \ LastStep(f)
      BY <1>5, <1>8, <1>9, <3>1, <3>2
    <3>5. Live(f, r[2])
      BY <2>1, <3>1, <3>3 DEF Arrives
    <3> QED
      BY <1>11, <1>12, <3>4, <3>5 DEF Live
  <2> QED
    BY <2>1 DEF Arrives
<1>16. Answered(w, A, {})
  <2>1. ASSUME NEW r \in A.link, r[2] \in w.alive \ Slotted, Live(A, r[2]) PROVE r[3] = "live"
    <3>1. PICK x \in f.link : Edge(x) = Edge(r) /\ x[1] = r[1] /\ x[2] = r[2]
      BY <1>12
    <3>2. Live(f, r[2]) /\ r[2] \notin up \ LastStep(f)
      BY <1>12, <1>13, <2>1
    <3>3. x[3] = "live"
      BY <2>1, <3>1, <3>2 DEF Half, Answered
    <3>4. ASSUME r[1] \in up, Edge(r) \in Toward(w, o) PROVE FALSE
      <4>1. r[2] \in Line(w, o) \ {Gate} /\ r[1] = w.parent[r[2]]
        BY <1>10, <1>12, <3>4
      <4> QED
        BY <1>6, <3>2, <3>4, <4>1
    <3>5. x \in A.link
      BY <1>11, <2>1, <3>1, <3>3, <3>4
    <3>6. x = r
      BY <1>4, <3>1, <3>5 DEF Fit, Single
    <3> QED
      BY <3>3, <3>6
  <2> QED
    BY <2>1 DEF Answered
<1>17. Known(w, A) /\ Shows(w, h, A)
  <2>1. Known(w, A)
    BY <1>11, <1>12 DEF Half, Known
  <2>2. Shows(w, h, A)
    BY <1>12 DEF Half, Shows
  <2> QED
    BY <2>1, <2>2
<1>18. Exists(w, A)
  <2>1. up \subseteq w.alive
    BY <1>2, <1>5
  <2> QED
    BY <1>11, <2>1 DEF Half, Exists
<1>19. Strung(w, A)
  <2>1. Keeps(w, f, A)
    BY <1>11 DEF Keeps
  <2> QED
    BY <1>1, <1>13, <2>1, StrungKept
<1> QED
  BY <1>4, <1>11, <1>14, <1>15, <1>16, <1>17, <1>18, <1>19 DEF A, Half, Whole

----------------------------------------------------------------------------
(* The requests for a gear: what is in one piece stays so, and nothing is  *)
(* counted twice.                                                          *)

Kept(w, h, f, A) == Fit(w, A) /\ Bare(A) = {} /\ A.twice = f.twice /\ Whole(w, h, A)

LEMMA GateFocusWhole ==
  ASSUME NEW w, NEW h, Seated(w, h), NEW g, NEW f, Fit(w, f), Bare(f) = {}, Whole(w, h, f),
         NEW d, Sound(w, d), Half(w, h, d), NEW first
  PROVE  Kept(w, h, f, Activate(w, g, f, d, Gate, first))
<1> DEFINE A == Activate(w, g, f, d, Gate, first)
<1>1. Gate \in w.alive /\ w.alive \subseteq Objects
  BY DEF Seated, Rooted, Scenes
<1>2. TurnsOn(w, h, f, Gate, A)
  BY <1>1, ActivateBegins
<1> HIDE DEF A
<1>3. Fit(w, A) /\ Bare(A) = {} /\ A.twice = f.twice /\ HalfBegins(w, h, A, Gate)
      /\ Arrives(w, A, {}) /\ StrungTo(w, A, Gate)
  BY <1>2 DEF TurnsOn, Begins
<1>4. Answered(w, A, {})
  <2>1. \A r \in A.link : r[2] \in w.alive => r[2] # Gate
    BY <1>3 DEF Fit, Follows
  <2> QED
    BY <1>3, <2>1 DEF HalfBegins, Answered
<1>5. Strung(w, A)
  BY <1>3, LineGate DEF StrungTo, Strung
<1> QED
  BY <1>3, <1>4, <1>5 DEF Kept, Whole, Half, HalfBegins, A

LEMMA GateBlurWhole ==
  ASSUME NEW w, NEW h, Seated(w, h), NEW f, Fit(w, f), Bare(f) = {}, Whole(w, h, f)
  PROVE  Kept(w, h, f, Release(w, f, {Gate}))
<1> DEFINE R == Release(w, f, {Gate})
<1>1. Gate \in w.alive /\ w.alive \subseteq Objects
  BY DEF Seated, Rooted, Scenes
<1>2. Half(w, h, f) /\ Arrives(w, f, {}) /\ Strung(w, f)
  BY DEF Whole
<1>3. Answered(w, f, {Gate}) /\ Arrives(w, f, {Gate})
  BY <1>2 DEF Half, Answered, Arrives
<1>4. TurnsOff(w, h, f, {Gate}, {Gate}, R)
  BY <1>1, <1>2, <1>3, ReleaseWhole DEF Half
<1>5. Fit(w, R) /\ Bare(R) = {}
  BY <1>1, ReleaseIs, ReleaseBare
<1> HIDE DEF R
<1>6. Arrives(w, R, {})
  <2>1. \A r \in R.link : r[2] \in w.alive => r[2] # Gate
    BY <1>5 DEF Fit, Follows
  <2> QED
    BY <1>3, <1>4, <2>1 DEF Arrives, TurnsOff
<1>7. Strung(w, R)
  BY <1>1, <1>2, <1>4, StrungKept DEF TurnsOff
<1> QED
  BY <1>4, <1>5, <1>6, <1>7 DEF Kept, Whole, TurnsOff, R

LEMMA UnfocusWhole ==
  ASSUME NEW w, NEW h, Seated(w, h), NEW f, Fit(w, f), Bare(f) = {}, Whole(w, h, f),
         NEW o \in w.alive \ {Gate}, o \notin h, f.state[o] = "live"
  PROVE  Kept(w, h, f, Unfocus(w, f, o))
<1> DEFINE R == Release(w, f, {o})
           A == Lower(w, R, o)
<1>1. o \in Objects /\ w.alive \subseteq Objects
  BY DEF Seated, Rooted, Scenes
<1>2. Half(w, h, f) /\ Arrives(w, f, {}) /\ Strung(w, f)
  BY DEF Whole
<1>3. Answered(w, f, {o}) /\ Arrives(w, f, {o})
  BY <1>2 DEF Half, Answered, Arrives
<1>4. TurnsOff(w, h, f, {o}, {o}, R)
  BY <1>1, <1>2, <1>3, ReleaseWhole DEF Half
<1>5. Fit(w, R) /\ Bare(R) = {}
  BY <1>1, ReleaseIs, ReleaseBare
<1>6. Unfocus(w, f, o) = A
  BY DEF Unfocus
<1> HIDE DEF R
<1>7. Strung(w, R) /\ ~Live(R, o)
  BY <1>1, <1>2, <1>4, StrungKept DEF TurnsOff
<1>8. ASSUME NEW y \in Line(w, o) \ (Slotted \cup {Gate}) PROVE Named(R, y)
  <2>1. y \in w.alive
    BY <1>8, Inner
  <2>2. Named(f, y)
    BY <1>2, <1>8 DEF Strung, Live
  <2> QED
    BY <1>4, <2>1, <2>2, NamedKept DEF TurnsOff
<1>9. Fit(w, A) /\ Bare(A) = {} /\ A.twice = R.twice /\ Whole(w, h, A)
  <2>1. Half(w, h, R) /\ Arrives(w, R, {o})
    BY <1>3, <1>4 DEF TurnsOff
  <2> HIDE DEF A
  <2> QED
    BY <1>5, <1>7, <1>8, <2>1, LowerWhole DEF A
<1> HIDE DEF A
<1> QED
  BY <1>4, <1>6, <1>9 DEF Kept, TurnsOff

\* The border of a process gets or loses the focus.
LEMMA AddWhole ==
  ASSUME NEW w, NEW h, Seated(w, h), NEW g, NEW f, Fit(w, f), Bare(f) = {}, Whole(w, h, f),
         NEW o \in w.alive, Line(w, o) \cap h = {}, NEW solo \in BOOLEAN
  PROVE  Kept(w, h, f, Raise(w, g, Notify(f, {o}, "live"), o, solo))
<1> DEFINE N == Notify(f, {o}, "live")
           A == Raise(w, g, N, o, solo)
<1>1. w \in Scenes /\ o \in Objects /\ "live" \in Statuses
  BY DEF Seated, Rooted, Scenes, Statuses
<1>2. Half(w, h, f) /\ Arrives(w, f, {}) /\ Strung(w, f)
  BY DEF Whole
<1>3. /\ Fit(w, N) /\ HalfBegins(w, h, N, o) /\ N.twice = f.twice
      /\ Arrives(w, f, {}) => Arrives(w, N, {})
      /\ Strung(w, f) => StrungTo(w, N, o)
  BY <1>2, NotifyBegins
<1>4. Bare(N) = {}
  BY <1>1, NotifyBare
<1> HIDE DEF N
<1>5. /\ Fit(w, A) /\ Half(w, h, A) /\ A.twice = N.twice
      /\ Arrives(w, N, {}) => Arrives(w, A, {})
      /\ StrungTo(w, N, o) => Strung(w, A)
  BY <1>3, RaiseWhole
<1>6. Bare(A) = {}
  BY <1>1, <1>3, <1>4, RaiseBare
<1> HIDE DEF A
<1> QED
  BY <1>2, <1>3, <1>5, <1>6 DEF Kept, Whole, A, N

LEMMA RemWhole ==
  ASSUME NEW w, NEW h, Seated(w, h), NEW f, Fit(w, f), Bare(f) = {}, Whole(w, h, f),
         NEW o \in w.alive \ {Gate}, o \in Relays, o \notin h
  PROVE  LET N == Notify(f, {o}, "idle")
         IN  Kept(w, h, f, IF f.state[o] = "live" THEN Lower(w, N, o) ELSE N)
<1> DEFINE N == Notify(f, {o}, "idle")
           A == Lower(w, N, o)
<1>1. o \in Objects /\ w.alive \subseteq Objects /\ f \in Works /\ "idle" \in Statuses
  BY DEF Seated, Rooted, Scenes, Fit, Statuses
<1>2. Half(w, h, f) /\ Arrives(w, f, {}) /\ Strung(w, f)
  BY DEF Whole
<1>3. Fit(w, N) /\ Bare(N) = {}
  BY <1>1, NotifyBare
<1>4. /\ N.link = f.link /\ N.twice = f.twice
      /\ \A x \in Objects : N.state[x] = IF x \in {o} THEN "idle" ELSE f.state[x]
  BY <1>1, NotifyIs
<1> HIDE DEF N
<1>5. ASSUME NEW r \in N.link
      PROVE  /\ r[1] \in Objects /\ r[2] \in Objects
             /\ r[2] \in w.alive => r[1] # o
  BY <1>3 DEF Fit, Works, Links, Follows, Seated
<1>6. \A x \in Objects : Live(N, x) <=> x # o /\ Live(f, x)
  BY <1>4 DEF Live
<1>7. Half(w, h, N)
  <2>1. Sourced(w, N) /\ Answered(w, N, {})
    BY <1>2, <1>4, <1>5, <1>6 DEF Half, Sourced, Answered
  <2>2. Known(w, N) /\ Shows(w, h, N)
    BY <1>2, <1>4, <1>5 DEF Half, Known, Shows
  <2>3. Exists(w, N)
    BY <1>2, <1>4 DEF Half, Exists
  <2> QED
    BY <2>1, <2>2, <2>3 DEF Half
<1>8. Arrives(w, N, {o})
  BY <1>2, <1>4, <1>5, <1>6 DEF Arrives
<1>9. Keeps(w, f, N)
  BY <1>4 DEF Keeps
<1>10. Strung(w, N) /\ ~Live(N, o)
  BY <1>1, <1>2, <1>6, <1>9, StrungKept
<1>11. CASE f.state[o] = "live"
  <2>1. ASSUME NEW y \in Line(w, o) \ (Slotted \cup {Gate}) PROVE Named(N, y)
    BY <1>2, <1>4, <1>11, <2>1 DEF Strung, Live, Named
  <2>2. Fit(w, A) /\ Bare(A) = {} /\ A.twice = N.twice /\ Whole(w, h, A)
    BY <1>3, <1>7, <1>8, <1>10, <2>1, LowerWhole
  <2> HIDE DEF A
  <2> QED
    BY <1>4, <1>11, <2>2 DEF Kept, A, N
<1>12. CASE f.state[o] # "live"
  <2>1. Arrives(w, N, {})
    BY <1>2, <1>4, <1>5, <1>6, <1>12 DEF Arrives, Live
  <2> QED
    BY <1>3, <1>4, <1>7, <1>10, <1>12, <2>1 DEF Kept, Whole, N
<1> QED
  BY <1>11, <1>12

----------------------------------------------------------------------------
(* The changes of the tree: an object opens, closes, moves, or takes the   *)
(* place of another one; the two applets of a slot change places.          *)

\* Once o is cut no record names it, and nothing at or below it is active.
Loose(w, o, A) ==
    /\ \A r \in A.link : r[2] # o
    /\ \A x \in w.alive : Live(A, x) => o \notin Line(w, x)

\* The chains A have no active applet of a slot below o.
Apart(w, o, A) == \A x \in w.alive \cap Slotted : Live(A, x) => o \notin Line(w, x)

LEMMA UnlinkedWhole ==
  ASSUME NEW w, NEW h, Seated(w, h), NEW f, Fit(w, f), Bare(f) = {}, Half(w, h, f),
         NEW o \in w.alive \ {Gate}
  PROVE  LET C == Unlinked(f, w.parent[o], o)
         IN  /\ Fit(w, C) /\ Bare(C) = {} /\ Half(w, h, C) /\ C.twice = f.twice
             /\ C.state = f.state /\ C.link \subseteq f.link
             /\ \A r \in C.link : r[2] # o
             /\ Arrives(w, f, {}) => Arrives(w, C, {})
             /\ \A y \in w.alive \ {o} : Named(f, y) => Named(C, y)
<1> DEFINE C == Unlinked(f, w.parent[o], o)
<1>1. /\ Fit(w, C) /\ Bare(C) = {} /\ C.state = f.state /\ C.twice = f.twice
      /\ \A r \in f.link : r \in C.link <=> Edge(r) # <<w.parent[o], o>>
      /\ C.link \subseteq f.link
  BY UnlinkedIs
<1> HIDE DEF C
<1>2. ASSUME NEW r \in C.link PROVE r[2] # o
  <2>1. SUFFICES ASSUME r[2] = o PROVE FALSE
    OBVIOUS
  <2>2. r[1] = w.parent[o]
    BY <1>1, <2>1 DEF Fit, Follows
  <2>3. Edge(r) = <<w.parent[o], o>>
    BY <2>1, <2>2 DEF Edge
  <2> QED
    BY <1>1, <2>3
<1>3. Half(w, h, C) /\ (Arrives(w, f, {}) => Arrives(w, C, {}))
  BY <1>1 DEF Half, Sourced, Answered, Known, Shows, Exists, Arrives, Live
<1>4. ASSUME NEW y \in w.alive \ {o}, Named(f, y) PROVE Named(C, y)
  <2>1. PICK r \in f.link : r[2] = y
    BY <1>4 DEF Named
  <2>2. r \in C.link
    BY <1>1, <1>4, <2>1 DEF Edge
  <2> QED
    BY <2>1, <2>2 DEF Named
<1> QED
  BY <1>1, <1>2, <1>3, <1>4 DEF C

\* The request cut at the parent of o, for a gear.
LEMMA CutWhole ==
  ASSUME NEW w, NEW h, Seated(w, h), NEW f, Fit(w, f), Bare(f) = {}, Whole(w, h, f),
         NEW o \in w.alive \ {Gate}, o \notin Slotted, NEW g, g # Default,
         Apart(w, o, Cut(w, g, f, w.parent[o], o))
  PROVE  LET A == Cut(w, g, f, w.parent[o], o)
         IN  Kept(w, h, f, A) /\ Loose(w, o, A)
<1> DEFINE p == w.parent[o]
           C == Unlinked(f, p, o)
           R == Release(w, C, {o})
           A == Cut(w, g, f, p, o)
<1>1. w.alive \subseteq Objects /\ o \in Objects
  BY DEF Seated, Rooted, Scenes
<1>2. Half(w, h, f) /\ Arrives(w, f, {}) /\ Strung(w, f)
  BY DEF Whole
<1>3. A = IF g # Default /\ <<p, o, "live">> \in f.link THEN R ELSE C
  BY DEF Cut, Unlinked
<1> HIDE DEF C, A
<1>4. /\ Fit(w, C) /\ Bare(C) = {} /\ Half(w, h, C) /\ C.twice = f.twice
      /\ C.state = f.state /\ C.link \subseteq f.link
      /\ \A r \in C.link : r[2] # o
      /\ Arrives(w, C, {})
      /\ \A y \in w.alive \ {o} : Named(f, y) => Named(C, y)
  BY <1>2, UnlinkedWhole DEF C
<1>5. Answered(w, C, {o}) /\ Arrives(w, C, {o})
  BY <1>4 DEF Half, Answered, Arrives
<1>6. TurnsOff(w, h, C, {o}, {o}, R)
  BY <1>1, <1>4, <1>5, ReleaseWhole DEF Half
<1>7. Fit(w, R) /\ Bare(R) = {}
  BY <1>1, <1>4, ReleaseIs, ReleaseBare
<1> HIDE DEF R
<1>8. ASSUME NEW K, K = C \/ K = R, \A x \in w.alive : Live(K, x) => o \notin Line(w, x)
      PROVE  Kept(w, h, f, K) /\ Loose(w, o, K)
  <2>1. /\ Fit(w, K) /\ Bare(K) = {} /\ Half(w, h, K) /\ K.twice = f.twice
        /\ \A x \in Objects : Live(K, x) => Live(f, x)
    BY <1>4, <1>6, <1>7, <1>8 DEF TurnsOff, Live
  <2>2. \A r \in K.link : r[2] # o
    <3>1. \A r \in K.link : \E x \in C.link : Edge(x) = Edge(r)
      BY <1>6, <1>8 DEF TurnsOff
    <3> QED
      BY <1>4, <3>1 DEF Edge
  <2>3. Arrives(w, K, {})
    BY <1>4, <1>5, <1>6, <1>8, <2>2 DEF TurnsOff, Arrives
  <2>4. \A y \in w.alive \ {o} : Named(f, y) => Named(K, y)
    <3>1. Keeps(w, C, K)
      BY <1>6, <1>8 DEF TurnsOff, Keeps
    <3> QED
      BY <1>4, <3>1, NamedKept
  <2>5. ASSUME NEW x \in w.alive, Live(K, x), NEW y \in Line(w, x) \ (Slotted \cup {Gate})
        PROVE  Named(K, y)
    <3>1. y \in w.alive \ {o}
      BY <1>8, <2>5, Inner
    <3>2. Named(f, y)
      BY <1>1, <1>2, <2>1, <2>5 DEF Strung
    <3> QED
      BY <2>4, <3>1, <3>2
  <2> QED
    BY <1>8, <2>1, <2>2, <2>3, <2>5 DEF Kept, Whole, Strung, Loose
<1>9. CASE <<p, o, "live">> \in f.link
  <2>0. A = R /\ Apart(w, o, R)
    BY <1>3, <1>9 DEF A
  <2>1. ASSUME NEW x \in w.alive, Live(R, x), o \in Line(w, x) PROVE FALSE
    <3>1. x \notin Slotted /\ Live(f, x) /\ ~Live(R, o)
      BY <1>1, <1>4, <1>6, <2>0, <2>1 DEF Apart, TurnsOff, Live
    <3>2. ASSUME NEW y \in Line(w, x) \ {Gate, o}, o \in Line(w, y) PROVE Named(R, y)
      <4>1. y \in w.alive /\ y \notin Slotted
        BY <3>1, <3>2, Inner
      <4>2. Named(f, y)
        BY <1>2, <2>1, <3>1, <3>2, <4>1 DEF Strung
      <4>3. Named(C, y)
        BY <1>4, <3>2, <4>1, <4>2
      <4> QED
        BY <1>6, <4>1, <4>3, NamedKept DEF TurnsOff
    <3>3. Sourced(w, R) /\ Answered(w, R, {})
      BY <1>6 DEF TurnsOff, Half
    <3>4. \A y \in Line(w, x) \ {Gate, o} : o \in Line(w, y) => Named(R, y) /\ y \notin {}
      BY <3>2
    <3>5. \A y \in Line(w, x) : o \in Line(w, y) =>
            /\ Live(R, y)
            /\ y \notin {Gate, o} => <<w.parent[y], y, "live">> \in R.link
      BY <1>7, <2>1, <3>1, <3>3, <3>4, Climb
    <3> QED
      BY <2>1, <3>1, <3>5, LineSelf
  <2> QED
    BY <1>8, <2>0, <2>1 DEF A
<1>10. CASE <<p, o, "live">> \notin f.link
  <2>0. A = C /\ Apart(w, o, C)
    BY <1>3, <1>10 DEF A
  <2>1. ASSUME NEW x \in w.alive, Live(C, x), o \in Line(w, x) PROVE FALSE
    <3>1. x \notin Slotted /\ Live(f, x)
      BY <1>4, <2>0, <2>1 DEF Apart, Live
    <3>2. Sourced(w, f) /\ Answered(w, f, {})
      BY <1>2 DEF Half
    <3>3. \A y \in Line(w, x) : y # Gate => <<w.parent[y], y, "live">> \in f.link
      BY <1>2, <2>1, <3>1, <3>2, LineLive
    <3> QED
      BY <1>10, <2>1, <3>3
  <2> QED
    BY <1>8, <2>0, <2>1 DEF A
<1> QED
  BY <1>9, <1>10

\* The default chains: only the record goes.
LEMMA CutHalf ==
  ASSUME NEW w, NEW h, Seated(w, h), NEW f, Fit(w, f), Bare(f) = {}, Half(w, h, f),
         NEW o \in w.alive \ {Gate}
  PROVE  LET A == Cut(w, Default, f, w.parent[o], o)
         IN  Fit(w, A) /\ Bare(A) = {} /\ Half(w, h, A)
<1>1. Cut(w, Default, f, w.parent[o], o) = Unlinked(f, w.parent[o], o)
  BY DEF Cut, Unlinked
<1> QED
  BY <1>1, UnlinkedWhole

\* Chains that know nothing of o stay in one piece wherever it goes.
LEMMA MovedWhole ==
  ASSUME NEW w, NEW h, Seated(w, h), NEW f, Half(w, h, f), NEW o, NEW q
  PROVE  LET u == [w EXCEPT !.parent[o] = q]
         IN  /\ Half(u, h, f)
             /\ Whole(w, h, f) /\ Loose(w, o, f) => Whole(u, h, f)
<1> DEFINE u == [w EXCEPT !.parent[o] = q]
<1>1. /\ u.alive = w.alive /\ w.alive \subseteq Objects
      /\ \A x \in Objects : x # o => u.parent[x] = w.parent[x]
  BY DEF Seated, Rooted, Scenes
<1> HIDE DEF u
<1>2. Half(u, h, f)
  BY <1>1 DEF Half, Sourced, Answered, Known, Shows, Exists
<1>3. ASSUME Whole(w, h, f), Loose(w, o, f) PROVE Whole(u, h, f)
  <2>1. Arrives(u, f, {})
    BY <1>1, <1>3 DEF Whole, Arrives
  <2>2. ASSUME NEW x \in u.alive, Live(f, x) PROVE Line(u, x) = Line(w, x)
    <3>1. o \notin Line(w, x)
      BY <1>1, <1>3, <2>2 DEF Loose
    <3>2. \A y \in (Line(w, x) \cap Objects) \ {Gate} : u.parent[y] = w.parent[y]
      BY <1>1, <3>1
    <3> QED
      BY <3>2, LineKept
  <2>3. Strung(u, f)
    BY <1>1, <1>3, <2>2 DEF Whole, Strung
  <2> QED
    BY <1>2, <2>1, <2>3 DEF Whole
<1> QED
  BY <1>2, <1>3 DEF u

\* What is left of the chains f, and of the objects hidden, when those of S go.
Buries(f, S, b) ==
    /\ \A x \in Objects : b.state[x] = IF x \in S THEN "none" ELSE f.state[x]
    /\ b.link = {r \in f.link : r[1] \notin S}
Restores(h, S, k) ==
    k = (h \ S) \cup {v[2] : v \in {x \in Veers : S \cap {x[1], x[2]} # {}}}

LEMMA BuriedWhole ==
  ASSUME NEW w, NEW h, Seated(w, h), NEW f, Fit(w, f), Half(w, h, f),
         NEW o \in w.alive \ {Gate}, NEW u, Pruned(w, Below(w, {o}), u),
         NEW k, k \cap u.alive \subseteq h, NEW b, Buries(f, Below(w, {o}), b)
  PROVE  /\ Half(u, k, b)
         /\ Whole(w, h, f) => Whole(u, k, b)
<1> DEFINE S == Below(w, {o})
<1>1. \A x : x \in S <=> x \in w.alive /\ o \in Line(w, x)
  <2>1. \A x : x \in S <=> x \in w.alive /\ \E s \in {o} : s \in Line(w, x)
    BY BelowIs
  <2> QED
    BY <2>1
<1>2. /\ u.alive = w.alive \ S /\ u.parent = w.parent
      /\ \A x \in Objects : b.state[x] = IF x \in S THEN "none" ELSE f.state[x]
      /\ \A r : r \in b.link <=> r \in f.link /\ r[1] \notin S
  BY DEF Pruned, Buries
<1> HIDE DEF S
<1>3. /\ Sourced(w, f) /\ Answered(w, f, {}) /\ Known(w, f) /\ Shows(w, h, f) /\ Exists(w, f)
      /\ w.alive \subseteq Objects
  BY DEF Half, Seated, Rooted, Scenes
<1>4. \A r \in f.link : r[1] \in Objects /\ r[2] \in Objects
  BY DEF Fit, Works, Links
<1>5. \A x \in Objects : (Live(b, x) => Live(f, x)) /\ (x \notin S => b.state[x] = f.state[x])
  BY <1>2 DEF Live
<1>6. Sourced(u, b)
  BY <1>2, <1>3, <1>4, <1>5 DEF Sourced, Live
<1>7. Answered(u, b, {})
  BY <1>2, <1>3, <1>4, <1>5 DEF Answered
<1>8. Known(u, b)
  BY <1>2, <1>3, <1>4, <1>5 DEF Known
<1>9. Shows(u, k, b)
  BY <1>2, <1>3 DEF Shows
<1>10. Exists(u, b)
  BY <1>2, <1>3 DEF Exists
<1>11. Half(u, k, b)
  BY <1>6, <1>7, <1>8, <1>9, <1>10 DEF Half
<1>12. ASSUME Whole(w, h, f) PROVE Arrives(u, b, {}) /\ Strung(u, b)
  <2>1. Arrives(w, f, {}) /\ Strung(w, f)
    BY <1>12 DEF Whole
  <2>2. Arrives(u, b, {})
    BY <1>2, <1>4, <1>5, <2>1 DEF Arrives, Live
  <2>3. ASSUME NEW x \in u.alive, Live(b, x), NEW y \in Line(u, x) \ (Slotted \cup {Gate})
        PROVE  Named(b, y)
    <3>1. x \in w.alive /\ o \notin Line(w, x) /\ Live(f, x) /\ Line(u, x) = Line(w, x)
      BY <1>1, <1>2, <1>3, <1>5, <2>3, LineKept
    <3>2. Line(w, x) \subseteq w.alive /\ y \in Objects
      BY <1>3, <3>1, Inner
    <3>3. PICK r \in f.link : r[2] = y
      BY <2>1, <3>1 DEF Strung, Named
    <3>4. w.parent[y] \in Line(w, x) /\ r[1] = w.parent[y]
      BY <3>1, <3>2, <3>3, LineUp DEF Fit, Follows
    <3>5. r[1] \notin S
      BY <1>1, <3>1, <3>4, LineTrans
    <3> QED
      BY <1>2, <3>3, <3>5 DEF Named
  <2> QED
    BY <2>2, <2>3 DEF Strung
<1> QED
  BY <1>11, <1>12 DEF Whole

\* An object that is attached anew has no chain, and no record names it.
LEMMA OpenedWhole ==
  ASSUME NEW w, NEW h, Seated(w, h), NEW f, Half(w, h, f),
         NEW o \in Objects, o \notin w.alive, \A r \in f.link : r[2] # o,
         NEW u, u.alive = w.alive \cup {o},
         \A x \in Objects : x # o => u.parent[x] = w.parent[x]
  PROVE  /\ Half(u, h, f)
         /\ Whole(w, h, f) => Whole(u, h, f)
<1>1. /\ Sourced(w, f) /\ Answered(w, f, {}) /\ Known(w, f) /\ Shows(w, h, f) /\ Exists(w, f)
      /\ w.alive \subseteq Objects
  BY DEF Half, Seated, Rooted, Scenes
<1>2. \A r \in f.link : r[2] \in u.alive <=> r[2] \in w.alive
  OBVIOUS
<1>3. Sourced(u, f) /\ Answered(u, f, {}) /\ Known(u, f) /\ Shows(u, h, f) /\ Exists(u, f)
  BY <1>1, <1>2 DEF Sourced, Answered, Known, Shows, Exists
<1>4. ASSUME Whole(w, h, f) PROVE Arrives(u, f, {}) /\ Strung(u, f)
  <2>1. Arrives(w, f, {}) /\ Strung(w, f)
    BY <1>4 DEF Whole
  <2>2. Arrives(u, f, {})
    BY <1>2, <2>1 DEF Arrives
  <2>3. ASSUME NEW x \in u.alive, Live(f, x) PROVE x \in w.alive /\ Line(u, x) = Line(w, x)
    <3>1. x \in w.alive
      BY <1>1, <2>3 DEF Exists, Live
    <3>2. Line(w, x) \subseteq w.alive
      BY <3>1, Inner
    <3> QED
      BY <3>1, <3>2, LineKept
  <2> QED
    BY <2>1, <2>2, <2>3 DEF Strung
<1> QED
  BY <1>3, <1>4 DEF Half, Whole

\* The chains of a gear that leaves become the default ones.
LEMMA InheritHalf ==
  ASSUME NEW w, NEW h, Seated(w, h), NEW d, Good(w, d), Half(w, h, d),
         NEW f, Good(w, f), Whole(w, h, f)
  PROVE  Half(w, h, Inherit(d, f))
<1> DEFINE A == Inherit(d, f)
<1>1. /\ \A x \in Objects : A.state[x] = IF f.state[x] # "none" THEN f.state[x] ELSE d.state[x]
      /\ \A r \in A.link : r \in f.link \/ (r \in d.link /\ f.state[r[1]] = "none")
  BY InheritIs
<1> HIDE DEF A
<1>2. /\ Sourced(w, f) /\ Answered(w, f, {}) /\ Known(w, f) /\ Shows(w, h, f) /\ Exists(w, f)
      /\ Strung(w, f) /\ w.alive \subseteq Objects
  BY DEF Whole, Half, Seated, Rooted, Scenes
<1>3. Sourced(w, d) /\ Answered(w, d, {}) /\ Known(w, d) /\ Shows(w, h, d) /\ Exists(w, d)
  BY DEF Half
<1>4. /\ \A r \in f.link : r[1] \in Objects /\ r[2] \in Objects /\ f.state[r[1]] # "none"
      /\ \A r \in d.link : r[1] \in Objects /\ r[2] \in Objects
  BY DEF Good, Chains, ListOK, Links
<1>5. \A x \in Objects : /\ f.state[x] # "none" => A.state[x] = f.state[x]
                         /\ f.state[x] = "none" => A.state[x] = d.state[x]
  BY <1>1
<1>6. Sourced(w, A)
  <2>1. ASSUME NEW r \in A.link, r[3] = "live", r[2] \in w.alive PROVE Live(A, r[1])
    <3>1. CASE r \in f.link
      <4>1. Live(f, r[1]) /\ r[1] \in Objects
        BY <1>2, <1>4, <2>1, <3>1 DEF Sourced
      <4> QED
        BY <1>5, <4>1 DEF Live
    <3>2. CASE r \in d.link /\ f.state[r[1]] = "none"
      <4>1. Live(d, r[1]) /\ r[1] \in Objects
        BY <1>3, <1>4, <2>1, <3>2 DEF Sourced
      <4> QED
        BY <1>5, <3>2, <4>1 DEF Live
    <3> QED
      BY <1>1, <3>1, <3>2
  <2> QED
    BY <2>1 DEF Sourced
<1>7. Answered(w, A, {})
  <2>1. ASSUME NEW r \in A.link, r[2] \in w.alive \ Slotted, Live(A, r[2]) PROVE r[3] = "live"
    <3>1. CASE r \in f.link
      <4>1. f.state[r[2]] # "none" /\ r[2] \in Objects
        BY <1>2, <1>4, <2>1, <3>1 DEF Known
      <4>2. Live(f, r[2])
        BY <1>5, <2>1, <4>1 DEF Live
      <4> QED
        BY <1>2, <2>1, <3>1, <4>2 DEF Answered
    <3>2. CASE r \in d.link /\ f.state[r[1]] = "none"
      <4>1. CASE f.state[r[2]] = "none"
        <5>1. Live(d, r[2])
          BY <1>4, <1>5, <2>1, <3>2, <4>1 DEF Live
        <5> QED
          BY <1>3, <2>1, <3>2, <5>1 DEF Answered
      <4>2. CASE f.state[r[2]] # "none"
        <5>1. Live(f, r[2]) /\ r[2] # Gate /\ w.parent[r[2]] = r[1]
          BY <1>4, <1>5, <2>1, <3>2, <4>2 DEF Live, Good, Follows
        <5>2. r[2] \in Line(w, r[2])
          BY LineSelf
        <5>3. Named(f, r[2])
          BY <1>2, <2>1, <5>1, <5>2 DEF Strung
        <5>4. PICK a \in f.link : a[2] = r[2]
          BY <5>3 DEF Named
        <5>5. a[1] = r[1]
          BY <2>1, <5>1, <5>4 DEF Good, Follows
        <5> QED
          BY <1>4, <3>2, <5>4, <5>5
      <4> QED
        BY <4>1, <4>2
    <3> QED
      BY <1>1, <3>1, <3>2
  <2> QED
    BY <2>1 DEF Answered
<1>8. Known(w, A)
  BY <1>1, <1>2, <1>3, <1>4, <1>5 DEF Known
<1>9. Shows(w, h, A)
  BY <1>1, <1>2, <1>3 DEF Shows
<1>10. Exists(w, A)
  BY <1>2, <1>3, <1>5 DEF Exists
<1> QED
  BY <1>6, <1>7, <1>8, <1>9, <1>10 DEF Half, A

\* The applet shown in a slot takes the record of the one it replaces.
Swaps(w, k, f, prev, next, H) ==
    /\ Fit(w, H) /\ Bare(H) = {} /\ Half(w, k, H) /\ H.state = f.state /\ H.twice = f.twice
    /\ Arrives(w, f, {}) => Arrives(w, H, {next})
    /\ Arrives(w, f, {}) /\ <<w.parent[prev], prev, "live">> \notin f.link
          => Arrives(w, H, {})
    /\ \A y \in w.alive \ Slotted : Named(f, y) => Named(H, y)

LEMMA SwappedWhole ==
  ASSUME NEW w, NEW h, Seated(w, h), NEW f, Fit(w, f), Bare(f) = {}, Half(w, h, f),
         NEW prev \in w.alive \cap Slotted, NEW next \in w.alive \cap Slotted, next # prev,
         w.parent[next] = w.parent[prev], NEW k, k = (h \ {next}) \cup {prev}
  PROVE  Swaps(w, k, f, prev, next, Swapped(w, f, w.parent[prev], prev, next))
<1> DEFINE p == w.parent[prev]
           H == Swapped(w, f, p, prev, next)
<1>1. /\ w.alive \subseteq Objects /\ prev # Gate /\ next # Gate /\ p \in Objects
      /\ prev \in Objects /\ next \in Objects
  BY DEF Seated, Rooted, Scenes
<1>2. w.parent[next] = p /\ w.parent[prev] = p
  OBVIOUS
<1> HIDE DEF p
<1>3. /\ Fit(w, H) /\ Bare(H) = {} /\ H.state = f.state /\ H.twice = f.twice
      /\ \A r \in H.link : \/ r \in f.link /\ Edge(r) \notin {<<p, prev>>, <<p, next>>}
                           \/ Edge(r) = <<p, next>> /\ <<p, prev, r[3]>> \in f.link
      /\ \A r \in f.link : Edge(r) \notin {<<p, prev>>, <<p, next>>} /\ r[2] \in w.alive
                              => r \in H.link
  BY <1>1, <1>2, SwappedIs
<1> HIDE DEF H
<1>4. \A r \in f.link : r[2] \in w.alive => r[1] = w.parent[r[2]]
  BY DEF Fit, Follows
<1>5. ASSUME NEW r \in H.link
      PROVE  \/ r \in f.link /\ (r[2] \in w.alive => r[2] \notin {prev, next})
             \/ r[1] = p /\ r[2] = next /\ <<p, prev, r[3]>> \in f.link
  BY <1>2, <1>3, <1>4 DEF Edge
<1>6. /\ Sourced(w, f) /\ Answered(w, f, {}) /\ Known(w, f) /\ Shows(w, h, f) /\ Exists(w, f)
  BY DEF Half
<1>7. Sourced(w, H)
  <2>1. ASSUME NEW r \in H.link, r[3] = "live", r[2] \in w.alive PROVE Live(f, r[1])
    <3>1. CASE r \in f.link
      BY <1>6, <2>1, <3>1 DEF Sourced
    <3>2. CASE r[1] = p /\ <<p, prev, r[3]>> \in f.link
      <4> DEFINE e == <<p, prev, r[3]>>
      <4>1. e \in f.link /\ e[1] = p /\ e[2] = prev /\ e[3] = "live"
        BY <2>1, <3>2
      <4> HIDE DEF e
      <4> QED
        BY <1>6, <3>2, <4>1 DEF Sourced
    <3> QED
      BY <1>5, <3>1, <3>2
  <2> QED
    BY <1>3, <2>1 DEF Sourced, Live
<1>8. Answered(w, H, {})
  BY <1>3, <1>5, <1>6 DEF Answered, Live
<1>9. Known(w, H)
  BY <1>3, <1>5, <1>6 DEF Known
<1>10. Shows(w, k, H)
  BY <1>5, <1>6 DEF Shows
<1>11. Exists(w, H)
  BY <1>3, <1>6 DEF Exists
<1>12. Half(w, k, H)
  BY <1>7, <1>8, <1>9, <1>10, <1>11 DEF Half
<1>13. ASSUME Arrives(w, f, {}) PROVE Arrives(w, H, {next})
  BY <1>3, <1>5, <1>13 DEF Arrives, Live
<1>14. ASSUME Arrives(w, f, {}), <<p, prev, "live">> \notin f.link PROVE Arrives(w, H, {})
  <2>1. ASSUME NEW r \in H.link, r[3] = "live", r[2] \in w.alive PROVE Live(H, r[2])
    <3>1. r \in f.link
      BY <1>5, <1>14, <2>1
    <3> QED
      BY <1>3, <1>14, <2>1, <3>1 DEF Arrives, Live
  <2> QED
    BY <2>1 DEF Arrives
<1>15. ASSUME NEW y \in w.alive \ Slotted, Named(f, y) PROVE Named(H, y)
  <2>1. PICK r \in f.link : r[2] = y
    BY <1>15 DEF Named
  <2>2. Edge(r) \notin {<<p, prev>>, <<p, next>>}
    BY <1>15, <2>1 DEF Edge
  <2> QED
    BY <1>3, <1>15, <2>1, <2>2 DEF Named
<1> QED
  BY <1>3, <1>12, <1>13, <1>14, <1>15 DEF Swaps, H, p

\* For a gear the focus goes with the record.
LEMMA HopWhole ==
  ASSUME NEW w, NEW h, Seated(w, h), NEW f, Fit(w, f), Bare(f) = {}, Whole(w, h, f),
         NEW d, Sound(w, d), Half(w, h, d),
         NEW prev \in w.alive \cap Slotted, NEW next \in w.alive \cap Slotted, next # prev,
         w.parent[next] = w.parent[prev], NEW k, k = (h \ {next}) \cup {prev}, Seated(w, k),
         NEW g, g # Default
  PROVE  Kept(w, k, f, Hop(w, g, f, d, w.parent[prev], prev, next))
<1> DEFINE p == w.parent[prev]
           H == Swapped(w, f, p, prev, next)
           R == Release(w, H, {prev})
           T == Activate(w, g, R, d, next, TRUE)
           A == Hop(w, g, f, d, p, prev, next)
           X == {prev, next}
           S == {prev}
<1>0. A = IF <<p, prev, "live">> \in f.link THEN T ELSE H
  BY DEF Hop, Swapped
<1>1. /\ w.alive \subseteq Objects /\ prev # Gate /\ next # Gate /\ p \in w.alive
      /\ S \subseteq w.alive /\ S \in SUBSET Objects /\ S \subseteq X
  BY DEF Seated, Rooted, Scenes
<1>2. /\ Half(w, h, f) /\ Arrives(w, f, {}) /\ Strung(w, f)
      /\ Sourced(w, f) /\ Sourced(w, d) /\ Answered(w, d, {}) /\ Known(w, d) /\ Exists(w, d)
  BY DEF Whole, Half
<1>3. /\ Fit(w, H) /\ Bare(H) = {} /\ Half(w, k, H) /\ H.state = f.state /\ H.twice = f.twice
      /\ Arrives(w, H, {next})
      /\ <<p, prev, "live">> \notin f.link => Arrives(w, H, {})
      /\ \A y \in w.alive \ Slotted : Named(f, y) => Named(H, y)
  <2>1. Swaps(w, k, f, prev, next, H)
    BY <1>2, SwappedWhole
  <2> HIDE DEF H
  <2> QED
    BY <1>2, <2>1 DEF Swaps
<1> HIDE DEF A, T, R, H
<1>4. Strung(w, H)
  <2>1. ASSUME NEW x \in w.alive, Live(H, x), NEW y \in Line(w, x) \ (Slotted \cup {Gate})
        PROVE  Named(H, y)
    <3>1. Live(f, x) /\ y \in w.alive
      BY <1>3, <2>1, Inner DEF Live
    <3>2. Named(f, y)
      BY <1>2, <2>1, <3>1 DEF Strung
    <3> QED
      BY <1>3, <2>1, <3>1, <3>2
  <2> QED
    BY <2>1 DEF Strung
<1>5. CASE <<p, prev, "live">> \notin f.link
  <2>1. A = H /\ Whole(w, k, H)
    BY <1>0, <1>3, <1>4, <1>5 DEF Whole
  <2> QED
    BY <1>3, <2>1 DEF Kept, A, p
<1>6. CASE <<p, prev, "live">> \in f.link
  <2>1. A = T
    BY <1>0, <1>6
  <2>2. Live(f, p)
    <3> DEFINE e == <<p, prev, "live">>
    <3>1. e \in f.link /\ e[1] = p /\ e[2] = prev /\ e[3] = "live"
      BY <1>6
    <3> HIDE DEF e, p
    <3> QED
      BY <1>2, <3>1 DEF Sourced
  <2> HIDE DEF p
  <2>3. /\ Sourced(w, H) /\ Answered(w, H, {}) /\ Known(w, H) /\ Shows(w, k, H) /\ Exists(w, H)
        /\ Answered(w, H, S) /\ Arrives(w, H, X)
    BY <1>3 DEF Half, Answered, Arrives
  <2>4. TurnsOff(w, k, H, S, X, R)
    BY <1>1, <1>3, <2>3, ReleaseWhole DEF R
  <2>5. Fit(w, R) /\ Bare(R) = {}
    BY <1>1, <1>3, ReleaseIs, ReleaseBare DEF R
  <2>6. /\ Half(w, k, R) /\ Keeps(w, H, R) /\ R.twice = f.twice /\ Arrives(w, R, X)
        /\ \A x \in w.alive : Live(R, x) => Live(H, x)
    BY <1>1, <1>3, <2>3, <2>4 DEF TurnsOff
  <2>7. Strung(w, R)
    BY <1>4, <2>6, StrungKept
  <2>8. Arrives(w, R, {next})
    <3>1. \A r \in R.link : r[2] \in w.alive => r[2] # prev
      BY <2>6 DEF Half, Shows
    <3> QED
      BY <2>6, <3>1 DEF Arrives
  <2>9. Offers(w, k, d, next)
    <3>1. ASSUME NEW r \in d.link, next \in Line(w, r[1]), r[2] \in w.alive PROVE FALSE
      <4>1. r[2] # Gate /\ w.parent[r[2]] = r[1]
        BY <3>1 DEF Sound, Follows
      <4>2. r[1] \in w.alive /\ r[1] \notin Slotted
        BY <3>1, <4>1 DEF Seated, Rooted
      <4> QED
        BY <3>1, <4>2, Inner
    <3> QED
      BY <1>2, <3>1 DEF Offers
  <2>10. TurnsOn(w, k, R, next, T)
    BY <2>5, <2>6, <2>7, <2>8, <2>9, ActivateWhole DEF T
  <2>11. /\ Fit(w, T) /\ Bare(T) = {} /\ T.twice = f.twice /\ Keeps(w, R, T)
         /\ Sourced(w, T) /\ Answered(w, T, {next}) /\ Known(w, T) /\ Shows(w, k, T)
         /\ Exists(w, T) /\ Arrives(w, T, {}) /\ StrungTo(w, T, next)
    BY <2>6, <2>10 DEF TurnsOn, Begins, HalfBegins
  <2>12. Answered(w, T, {})
    BY <2>11 DEF Answered
  <2>13. Strung(w, T)
    <3>1. ASSUME NEW y \in Line(w, next) \ (Slotted \cup {Gate}) PROVE Named(T, y)
      <4>1. y \in Line(w, p) /\ y \in w.alive
        BY <1>1, <3>1, LineStep, Inner DEF p
      <4>2. Named(H, y)
        BY <1>1, <1>2, <1>3, <2>2, <3>1, <4>1 DEF Strung
      <4>3. Named(R, y)
        BY <2>6, <4>1, <4>2, NamedKept
      <4> QED
        BY <2>11, <4>1, <4>3, NamedKept
    <3> QED
      BY <2>11, <3>1 DEF Strung, StrungTo
  <2> QED
    BY <2>1, <2>11, <2>12, <2>13 DEF Kept, Whole, Half, A, p
<1> QED
  BY <1>5, <1>6
=============================================================================
