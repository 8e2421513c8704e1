---------------------------- MODULE IntelProofs ----------------------------
(***************************************************************************)
(* Campaigns, for any number of runs, keys, projectors, failures and       *)
(* commands: only runs that keys link meet in a campaign, a rebuild        *)
(* partitions the runs it has read, a current one repairs what late ones   *)
(* left behind, and supersession ends.                                     *)
(*                                                                         *)
(* The argument.  A set of runs is whole if no set of runs that is closed  *)
(* under shared keys splits it.  The walk of RebuildComponents stops       *)
(* growing within as many rounds as there are runs, by induction over      *)
(* rounds; what it reaches is whole and closed.  Hence components are      *)
(* disjoint and have no key in common.  The members of a campaign are      *)
(* whole and linked to what it is named after, so a later rebuild only     *)
(* adds runs linked to them, and a superseded campaign is whole together   *)
(* with its heir.  What a process read long ago stays whole, since more    *)
(* runs only add links.  A rebuild clears superseded_by of the campaigns   *)
(* it writes, and its heirs are among these, so it closes no cycle.        *)
(***************************************************************************)
EXTENDS Intel, FiniteSetTheorems, WellFoundedInduction, TLAPS

\* In a module of this size the provers need more than their default time.
USE SMTT(30), ZenonT(30)

-----------------------------------------------------------------------------
(***************************************************************************)
(* Induction and iteration over sets and functions                         *)
(***************************************************************************)
\* A set of naturals has a least element.
LEMMA LeastExists ==
    ASSUME NEW T \in SUBSET Nat, T # {}
    PROVE  \E x \in T : \A y \in T : x <= y
<1>1. \A x, y \in Nat : y < x => <<y, x>> \in OpToRel(<, Nat)
  BY Zenon DEF OpToRel
<1>2. PICK x \in T : \A y \in T : ~(<<y, x>> \in OpToRel(<, Nat))
  BY NatLessThanWellFounded, WFMin, Zenon
<1>3. \A y \in T : ~(y < x)
  BY <1>1, <1>2, Zenon
<1> QED
  BY <1>3

LEMMA SetInduction ==
    ASSUME NEW T \in SUBSET Nat, 0 \in T, \A n \in T : n + 1 \in T
    PROVE  T = Nat
<1> SUFFICES ASSUME Nat \ T # {} PROVE FALSE
  BY Zenon
<1>1. PICK x \in Nat \ T : \A y \in Nat \ T : x <= y
  BY LeastExists, Zenon
<1>2. x # 0 /\ x - 1 \in Nat
  BY <1>1
<1>3. x - 1 \in T
  BY <1>1, <1>2
<1>4. (x - 1) + 1 = x
  BY <1>2
<1> QED
  BY <1>1, <1>3, <1>4

\* The first n results of a step, as a function on 0 .. n.
Prefix(S, a, step, n) ==
    {g \in [0 .. n -> S] : g[0] = a /\ \A i \in 1 .. n : g[i] = step[g[i - 1]]}

LEMMA PrefixExists ==
    ASSUME NEW S, NEW a \in S, NEW step \in [S -> S], NEW n \in Nat
    PROVE  Prefix(S, a, step, n) # {}
<1> DEFINE T == {k \in Nat : Prefix(S, a, step, k) # {}}
<1>1. 0 \in T
  <2>1. [i \in 0 .. 0 |-> a] \in Prefix(S, a, step, 0)
    BY DEF Prefix
  <2> QED
    BY <2>1
<1>2. ASSUME NEW k \in T PROVE k + 1 \in T
  <2>1. PICK g \in [0 .. k -> S] : g[0] = a /\ \A i \in 1 .. k : g[i] = step[g[i - 1]]
    BY DEF Prefix
  <2> DEFINE h == [i \in 0 .. k + 1 |-> IF i = k + 1 THEN step[g[k]] ELSE g[i]]
  <2>2. h \in [0 .. k + 1 -> S]
    BY <2>1
  <2>3. h[0] = a
    BY <2>1
  <2>4. ASSUME NEW i \in 1 .. k + 1 PROVE h[i] = step[h[i - 1]]
    <3>1. CASE i = k + 1
      BY <3>1
    <3>2. CASE i # k + 1
      <4>1. i \in 1 .. k /\ i \in 0 .. k /\ i - 1 \in 0 .. k /\ i - 1 # k + 1
        BY <3>2
      <4> QED
        BY <4>1, <2>1
    <3> QED
      BY <3>1, <3>2
  <2>5. h \in Prefix(S, a, step, k + 1)
    <3> HIDE DEF h
    <3> QED
      BY <2>2, <2>3, <2>4 DEF Prefix
  <2> QED
    BY <2>5
<1> HIDE DEF T
<1>3. T = Nat
  <2>1. T \in SUBSET Nat
    BY DEF T
  <2> QED
    BY <1>1, <1>2, <2>1, SetInduction
<1> QED
  BY <1>3 DEF T

LEMMA PrefixesAgree ==
    ASSUME NEW S, NEW a \in S, NEW step \in [S -> S], NEW n \in Nat, NEW m \in Nat, n <= m,
           NEW g \in Prefix(S, a, step, n), NEW h \in Prefix(S, a, step, m)
    PROVE  \A i \in 0 .. n : g[i] = h[i]
<1> DEFINE T == {i \in Nat : i <= n => g[i] = h[i]}
<1>1. 0 \in T
  BY DEF Prefix
<1>2. ASSUME NEW i \in T PROVE i + 1 \in T
  <2> SUFFICES ASSUME i + 1 <= n PROVE g[i + 1] = h[i + 1]
    OBVIOUS
  <2>1. g[i] = h[i]
    OBVIOUS
  <2>2. i + 1 \in 1 .. n /\ i + 1 \in 1 .. m /\ (i + 1) - 1 = i
    OBVIOUS
  <2> QED
    BY <2>1, <2>2 DEF Prefix
<1> HIDE DEF T
<1>3. T = Nat
  <2>1. T \in SUBSET Nat
    BY DEF T
  <2> QED
    BY <1>1, <1>2, <2>1, SetInduction
<1> QED
  BY <1>3 DEF T

\* A recursive function that applies a step over and over exists.
LEMMA IterationExists ==
    ASSUME NEW S, NEW a \in S, NEW step \in [S -> S]
    PROVE  \E f \in [Nat -> S] : f[0] = a /\ \A n \in Nat : f[n + 1] = step[f[n]]
<1> DEFINE G(n) == CHOOSE g : g \in Prefix(S, a, step, n)
           f == [n \in Nat |-> G(n)[n]]
<1>1. \A n \in Nat : G(n) \in Prefix(S, a, step, n)
  BY PrefixExists, Zenon
<1> HIDE DEF G
<1>2. f \in [Nat -> S]
  BY <1>1 DEF Prefix
<1>3. f[0] = a
  BY <1>1 DEF Prefix
<1>4. ASSUME NEW n \in Nat PROVE f[n + 1] = step[f[n]]
  <2>1. G(n)[n] = G(n + 1)[n]
    <3>1. n + 1 \in Nat /\ n <= n + 1 /\ n \in 0 .. n
      OBVIOUS
    <3> QED
      BY <1>1, <3>1, PrefixesAgree
  <2>2. n + 1 \in 1 .. n + 1 /\ (n + 1) - 1 = n /\ n + 1 \in Nat
    OBVIOUS
  <2>3. G(n + 1)[n + 1] = step[G(n + 1)[n]]
    BY <1>1, <2>2 DEF Prefix
  <2> QED
    BY <2>1, <2>2, <2>3
<1> QED
  BY <1>2, <1>3, <1>4, Zenon

-----------------------------------------------------------------------------
(***************************************************************************)
(* The walk computes connected components                                  *)
(***************************************************************************)
\* A set of runs that shares no key with the other runs.
Closed(K, runs) == \A r \in K, s \in runs \ K : KeysOf[r] \cap KeysOf[s] = {}

LEMMA WalkSteps ==
    ASSUME NEW runs \in SUBSET Runs, NEW start \in runs
    PROVE  /\ Walk(runs, start) \in [Nat -> SUBSET runs]
           /\ Walk(runs, start)[0] = {start}
           /\ \A n \in Nat : Walk(runs, start)[n + 1] = Near(runs, Walk(runs, start)[n])
<1> DEFINE S == SUBSET runs
           step == [set \in S |-> Near(runs, set)]
           Body(f) == [n \in Nat |-> IF n = 0 THEN {start} ELSE Near(runs, f[n - 1])]
<1>1. {start} \in S /\ step \in [S -> S]
  BY DEF Near
<1>2. PICK f \in [Nat -> S] : f[0] = {start} /\ \A n \in Nat : f[n + 1] = step[f[n]]
  <2> HIDE DEF S, step
  <2> QED
    BY <1>1, IterationExists
<1>3. f = Body(f)
  <2>1. ASSUME NEW n \in Nat PROVE f[n] = Body(f)[n]
    <3>1. CASE n = 0
      BY <1>2, <3>1
    <3>2. CASE n # 0
      <4>1. n - 1 \in Nat /\ (n - 1) + 1 = n
        BY <3>2
      <4>2. f[n - 1] \in S
        BY <1>2, <4>1
      <4>3. f[n] = step[f[n - 1]]
        BY <1>2, <4>1, Zenon
      <4>4. step[f[n - 1]] = Near(runs, f[n - 1])
        BY <4>2
      <4> QED
        BY <3>2, <4>3, <4>4
    <3> QED
      BY <3>1, <3>2
  <2> QED
    BY <1>2, <2>1
<1>4. Walk(runs, start) = CHOOSE g : g = Body(g)
  BY DEF Walk
<1>5. PICK w : w = Walk(runs, start)
  OBVIOUS
<1>6. w = Body(w)
  <2> HIDE DEF Body
  <2> QED
    BY <1>3, <1>4, <1>5, Zenon
<1>7. w[0] = {start} /\ \A n \in Nat : w[n + 1] = Near(runs, w[n])
  <2>1. w[0] = {start}
    BY <1>6
  <2>2. ASSUME NEW n \in Nat PROVE w[n + 1] = Near(runs, w[n])
    <3>1. n + 1 \in Nat /\ n + 1 # 0 /\ (n + 1) - 1 = n
      OBVIOUS
    <3> QED
      BY <1>6, <3>1
  <2> QED
    BY <2>1, <2>2
<1>8. w \in [Nat -> SUBSET runs]
  <2> DEFINE T == {n \in Nat : w[n] \in SUBSET runs}
  <2>1. 0 \in T
    BY <1>7
  <2>2. ASSUME NEW n \in T PROVE n + 1 \in T
    BY <1>7 DEF Near
  <2> HIDE DEF T
  <2>3. T = Nat
    <3>1. T \in SUBSET Nat
      BY DEF T
    <3> QED
      BY <2>1, <2>2, <3>1, SetInduction
  <2>4. \A n \in Nat : w[n] \in SUBSET runs
    BY <2>3 DEF T
  <2>5. w = [n \in Nat |-> w[n]]
    BY <1>6
  <2> QED
    BY <2>4, <2>5
<1> QED
  BY <1>5, <1>7, <1>8

\* The walk does not leave a closed set.
LEMMA WalkStays ==
    ASSUME NEW runs \in SUBSET Runs, NEW start \in runs, NEW K \in SUBSET runs,
           Closed(K, runs), start \in K, NEW n \in Nat
    PROVE  Walk(runs, start)[n] \subseteq K
<1>1. PICK w : w = Walk(runs, start)
  OBVIOUS
<1>2. /\ w \in [Nat -> SUBSET runs]
      /\ w[0] = {start}
      /\ \A k \in Nat : w[k + 1] = Near(runs, w[k])
  <2>1. /\ Walk(runs, start) \in [Nat -> SUBSET runs]
        /\ Walk(runs, start)[0] = {start}
        /\ \A k \in Nat : Walk(runs, start)[k + 1] = Near(runs, Walk(runs, start)[k])
    BY WalkSteps
  <2> QED
    BY <1>1, <2>1, Zenon
<1> DEFINE T == {k \in Nat : w[k] \subseteq K}
<1>3. 0 \in T
  BY <1>2
<1>4. ASSUME NEW k \in T PROVE k + 1 \in T
  <2>1. Near(runs, w[k]) \subseteq K
    BY DEF Near, Closed
  <2> QED
    BY <1>2, <2>1
<1> HIDE DEF T
<1>5. T = Nat
  <2>1. T \in SUBSET Nat
    BY DEF T
  <2> QED
    BY <1>3, <1>4, <2>1, SetInduction
<1> QED
  BY <1>1, <1>5 DEF T

\* It grows until nothing is near that it has not reached.
LEMMA WalkGrows ==
    ASSUME NEW runs \in SUBSET Runs, NEW start \in runs, NEW n \in Nat
    PROVE  LET w == Walk(runs, start)
           IN  /\ start \in w[n]
               /\ w[n + 1] = w[n] \/ n + 1 <= Cardinality(w[n])
<1>1. PICK w : w = Walk(runs, start)
  OBVIOUS
<1>2. /\ w \in [Nat -> SUBSET runs]
      /\ w[0] = {start}
      /\ \A k \in Nat : w[k + 1] = Near(runs, w[k])
  <2>1. /\ Walk(runs, start) \in [Nat -> SUBSET runs]
        /\ Walk(runs, start)[0] = {start}
        /\ \A k \in Nat : Walk(runs, start)[k + 1] = Near(runs, Walk(runs, start)[k])
    BY WalkSteps
  <2> QED
    BY <1>1, <2>1, Zenon
<1>3. IsFiniteSet(runs)
  BY IntelAssumption, FS_Subset
<1>4. \A k \in Nat : IsFiniteSet(w[k]) /\ Cardinality(w[k]) \in Nat
  <2> TAKE k \in Nat
  <2>1. w[k] \subseteq runs
    BY <1>2
  <2> QED
    BY <1>3, <2>1, FS_Subset, FS_CardinalityType
<1> DEFINE T == {k \in Nat : start \in w[k] /\ (w[k + 1] = w[k] \/ k + 1 <= Cardinality(w[k]))}
<1>5. 0 \in T
  <2>1. Cardinality({start}) = 1
    BY FS_Singleton
  <2> QED
    BY <1>2, <2>1
<1>6. ASSUME NEW k \in T PROVE k + 1 \in T
  <2>0. k \in Nat /\ k + 1 \in Nat
    OBVIOUS
  <2>1. w[k] \subseteq w[k + 1] /\ start \in w[k + 1]
    BY <1>2, <2>0 DEF Near
  <2>2. CASE w[k + 1] = w[k]
    <3>1. w[(k + 1) + 1] = w[k + 1]
      BY <1>2, <2>0, <2>2
    <3> QED
      BY <2>0, <2>1, <3>1
  <2>3. CASE w[k + 1] # w[k] /\ k + 1 <= Cardinality(w[k])
    <3>1. Cardinality(w[k]) < Cardinality(w[k + 1])
      BY <1>4, <2>0, <2>1, <2>3, FS_Subset
    <3>2. (k + 1) + 1 <= Cardinality(w[k + 1])
      BY <1>4, <2>0, <2>3, <3>1
    <3> QED
      BY <2>0, <2>1, <3>2
  <2> QED
    BY <2>2, <2>3
<1> HIDE DEF T
<1>7. T = Nat
  <2>1. T \in SUBSET Nat
    BY DEF T
  <2> QED
    BY <1>5, <1>6, <2>1, SetInduction
<1> QED
  BY <1>1, <1>7 DEF T

\* What the breadth-first walk of RebuildComponents (projector.go) reaches from a
\* run is its connected component, for any runs and keys: the least set around
\* the run that shares no key with the other runs.
THEOREM ComponentIsLeast ==
    ASSUME NEW runs \in SUBSET Runs, NEW start \in runs
    PROVE  /\ Component(runs, start) \in SUBSET runs
           /\ start \in Component(runs, start)
           /\ Closed(Component(runs, start), runs)
           /\ \A K \in SUBSET runs :
                Closed(K, runs) /\ start \in K => Component(runs, start) \subseteq K
<1>1. PICK w : w = Walk(runs, start)
  OBVIOUS
<1>2. /\ w \in [Nat -> SUBSET runs]
      /\ \A k \in Nat : w[k + 1] = Near(runs, w[k])
  BY <1>1, WalkSteps
<1>3. IsFiniteSet(runs)
  BY IntelAssumption, FS_Subset
<1>4. PICK n \in Nat : n = Cardinality(runs)
  BY <1>3, FS_CardinalityType
<1>5. Component(runs, start) = w[n]
  BY <1>1, <1>4 DEF Component
<1>6. start \in w[n] /\ (w[n + 1] = w[n] \/ n + 1 <= Cardinality(w[n]))
  BY <1>1, WalkGrows
<1>7. w[n] \subseteq runs
  BY <1>2
<1>8. Cardinality(w[n]) \in Nat /\ Cardinality(w[n]) <= n
  <2>1. IsFiniteSet(w[n]) /\ Cardinality(w[n]) <= Cardinality(runs)
    BY <1>3, <1>7, FS_Subset
  <2> QED
    BY <1>4, <2>1, FS_CardinalityType
<1>9. w[n] = Near(runs, w[n])
  BY <1>2, <1>6, <1>8
<1>10. Closed(w[n], runs)
  BY <1>7, <1>9 DEF Closed, Near
<1>11. \A K \in SUBSET runs : Closed(K, runs) /\ start \in K => w[n] \subseteq K
  BY <1>1, WalkStays, Zenon
<1> QED
  BY <1>5, <1>6, <1>7, <1>10, <1>11

LEMMA ComponentsDisjoint ==
    ASSUME NEW runs \in SUBSET Runs, NEW a \in runs, NEW b \in runs,
           Component(runs, a) \cap Component(runs, b) # {}
    PROVE  Component(runs, a) = Component(runs, b)
<1>1. ASSUME NEW x \in runs, NEW y \in runs, Component(runs, x) \cap Component(runs, y) # {}
      PROVE  Component(runs, y) \subseteq Component(runs, x)
  <2>1. PICK C \in SUBSET runs : C = Component(runs, x) /\ Closed(C, runs)
    BY ComponentIsLeast
  <2>2. Closed(runs \ C, runs)
    BY <2>1 DEF Closed
  <2>3. y \in C
    <3> SUFFICES ASSUME y \in runs \ C PROVE FALSE
      OBVIOUS
    <3>1. Component(runs, y) \subseteq runs \ C
      BY <2>2, ComponentIsLeast
    <3> QED
      BY <1>1, <2>1, <3>1
  <2> QED
    BY <2>1, <2>3, ComponentIsLeast
<1> QED
  BY <1>1

\* A component is known by a key of one of its runs, or by one of its runs.
Names(c, g) == c \in g \/ (c \in Keys /\ \E r \in g : c \in KeysOf[r])

LEMMA CampaignNames ==
    ASSUME NEW g \in SUBSET Runs, g # {}
    PROVE  CampaignOf(g) \in Campaigns /\ Names(CampaignOf(g), g)
<1>1. PICK keys \in SUBSET Keys : keys = UNION {KeysOf[r] : r \in g}
  <2>1. \A r \in g : KeysOf[r] \subseteq Keys
    BY IntelAssumption
  <2>2. UNION {KeysOf[r] : r \in g} \in SUBSET Keys
    BY <2>1
  <2> QED
    BY <2>2, Zenon
<1>2. CASE keys = {}
  <2>1. CampaignOf(g) = CHOOSE r \in g : TRUE
    BY <1>1, <1>2 DEF CampaignOf
  <2>2. CampaignOf(g) \in g
    BY <2>1
  <2> QED
    BY <2>2 DEF Names, Campaigns
<1>3. CASE keys # {}
  <2>1. \E x \in keys : \A y \in keys : x <= y
    BY <1>3, IntelAssumption, LeastExists
  <2>2. CampaignOf(g) = Min(keys)
    BY <1>1, <1>3 DEF CampaignOf
  <2>3. Min(keys) \in keys
    BY <2>1 DEF Min
  <2>4. \E r \in g : CampaignOf(g) \in KeysOf[r]
    BY <1>1, <2>2, <2>3
  <2> QED
    BY <2>2, <2>3, <2>4 DEF Names, Campaigns
<1> QED
  BY <1>2, <1>3

\* What a name says of two sets of runs that have it.
LEMMA NamesLink ==
    ASSUME NEW g \in SUBSET Runs, NEW h \in SUBSET Runs, NEW c, Names(c, g), Names(c, h)
    PROVE  \E r \in g, s \in h : r = s \/ KeysOf[r] \cap KeysOf[s] # {}
<1>1. ~(c \in Keys /\ c \in Runs)
  BY IntelAssumption
<1> QED
  BY <1>1 DEF Names

\* Components have nothing in common, and names of their own.
LEMMA ComponentsAreDistinct ==
    ASSUME NEW runs \in SUBSET Runs, NEW g \in Components(runs), NEW h \in Components(runs),
           g # h
    PROVE  g \cap h = {} /\ CampaignOf(g) # CampaignOf(h)
<1>1. PICK a \in runs : g = Component(runs, a)
  BY DEF Components
<1>2. PICK b \in runs : h = Component(runs, b)
  BY DEF Components
<1>3. g \cap h = {}
  BY <1>1, <1>2, ComponentsDisjoint
<1>4. /\ g \in SUBSET runs /\ h \in SUBSET runs
      /\ g # {} /\ h # {}
      /\ Closed(g, runs)
  BY <1>1, <1>2, ComponentIsLeast
<1>5. ASSUME CampaignOf(g) = CampaignOf(h) PROVE FALSE
  <2>1. Names(CampaignOf(g), g) /\ Names(CampaignOf(g), h)
    BY <1>4, <1>5, CampaignNames
  <2>2. PICK r \in g, s \in h : r = s \/ KeysOf[r] \cap KeysOf[s] # {}
    BY <1>4, <2>1, NamesLink
  <2> QED
    BY <1>3, <1>4, <2>2 DEF Closed
<1> QED
  BY <1>3, <1>5

-----------------------------------------------------------------------------
(***************************************************************************)
(* Sets of linked runs                                                     *)
(***************************************************************************)
\* No closed set of the runs divides X.
Whole(X, runs) ==
    \A K \in SUBSET runs : Closed(K, runs) => X \subseteq K \/ X \cap K = {}

\* More runs only add links.
LEMMA WholeStays ==
    ASSUME NEW runs, NEW more, runs \subseteq more, NEW X \in SUBSET runs, Whole(X, runs)
    PROVE  Whole(X, more)
<1> SUFFICES ASSUME NEW K \in SUBSET more, Closed(K, more)
             PROVE  X \subseteq K \/ X \cap K = {}
  BY DEF Whole
<1>1. Closed(K \cap runs, runs)
  BY DEF Closed
<1>2. X \subseteq K \cap runs \/ X \cap (K \cap runs) = {}
  BY <1>1 DEF Whole
<1> QED
  BY <1>2

LEMMA WholeJoins ==
    ASSUME NEW runs \in SUBSET Runs, NEW X \in SUBSET runs, NEW Y \in SUBSET runs,
           Whole(X, runs), Whole(Y, runs),
           NEW r \in X, NEW s \in Y, r = s \/ KeysOf[r] \cap KeysOf[s] # {}
    PROVE  Whole(X \cup Y, runs)
<1> SUFFICES ASSUME NEW K \in SUBSET runs, Closed(K, runs)
             PROVE  X \cup Y \subseteq K \/ (X \cup Y) \cap K = {}
  BY DEF Whole
<1>1. r \in K <=> s \in K
  BY DEF Closed
<1>2. (X \subseteq K \/ X \cap K = {}) /\ (Y \subseteq K \/ Y \cap K = {})
  BY DEF Whole
<1> QED
  BY <1>1, <1>2

LEMMA ComponentIsWhole ==
    ASSUME NEW runs \in SUBSET Runs, NEW g \in Components(runs)
    PROVE  g \in SUBSET runs /\ g # {} /\ Whole(g, runs)
<1>1. PICK a \in runs : g = Component(runs, a)
  BY DEF Components
<1>2. g \in SUBSET runs /\ a \in g
  BY <1>1, ComponentIsLeast
<1>3. ASSUME NEW K \in SUBSET runs, Closed(K, runs) PROVE g \subseteq K \/ g \cap K = {}
  <2>1. CASE a \in K
    BY <1>1, <1>3, <2>1, ComponentIsLeast
  <2>2. CASE a \notin K
    <3>1. Closed(runs \ K, runs)
      BY <1>3 DEF Closed
    <3>2. g \subseteq runs \ K
      BY <1>1, <2>2, <3>1, ComponentIsLeast
    <3> QED
      BY <3>2
  <2> QED
    BY <2>1, <2>2
<1> QED
  BY <1>2, <1>3 DEF Whole

-----------------------------------------------------------------------------
(***************************************************************************)
(* The inductive invariant                                                 *)
(***************************************************************************)
Procs == Projectors \cup {Operator}

ProcState ==
    [pc     : {"idle", "work", "finish", "runs", "edges", "write"},
     items  : SUBSET Runs,
     item   : Runs \cup {NoCampaign},
     result : {"none", "complete", "terminal", "retryable"},
     runs   : SUBSET Runs,
     groups : SUBSET SUBSET Runs]

\* What a process relies on: the rows of an item it is about to close, and
\* that what it has read is linked and projected, however long ago.
Holds(q, done) ==
    /\ q.pc = "finish" => q.item \in Runs /\ q.result # "none"
    /\ q.pc = "finish" /\ q.result = "complete" => q.item \in done
    /\ q.runs \subseteq done
    /\ \A g \in q.groups : g \in SUBSET done /\ g # {} /\ Whole(g, done)
    /\ \A g, h \in q.groups : g # h => g \cap h = {} /\ CampaignOf(g) # CampaignOf(h)

Processes ==
    /\ proc \in [Procs -> ProcState]
    /\ \A p \in Procs : Holds(proc[p], projected)
    /\ events \in 0 .. MaxEvents

\* The members of a campaign are linked to what it is named after.
Linked(c) ==
    /\ Whole(members[c], projected)
    /\ members[c] # {} => Names(c, members[c])

\* A superseded campaign and its heir are linked.
Inherited(c) ==
    supersededBy[c] # NoCampaign =>
        /\ members[supersededBy[c]] # {}
        /\ Whole(members[c] \cup members[supersededBy[c]], projected)

IInv ==
    /\ TypeOK
    /\ Processes
    /\ \A c \in Campaigns : Linked(c) /\ Inherited(c)
    /\ SupersessionEnds

LEMMA IdleHolds == Idle \in ProcState /\ \A done : Holds(Idle, done)
BY DEF Idle, ProcState, Holds

LEMMA InitIInv == Init => IInv
<1> SUFFICES ASSUME Init PROVE IInv
  OBVIOUS
<1>1. TypeOK
  BY DEF Init, TypeOK
<1>2. Processes
  BY IdleHolds, IntelAssumption DEF Init, Processes, Procs
<1>3. \A c \in Campaigns : Linked(c) /\ Inherited(c)
  BY DEF Init, Linked, Inherited, Whole
<1>4. SupersessionEnds
  BY DEF Init, SupersessionEnds
<1> QED
  BY <1>1, <1>2, <1>3, <1>4 DEF IInv

\* A step that leaves the campaigns alone and takes no projected run back keeps
\* what is said of campaigns and of what a process has read.
LEMMA HoldsStays ==
    ASSUME NEW q \in ProcState, Holds(q, projected), projected \subseteq projected'
    PROVE  Holds(q, projected')
<1>1. \A g \in q.groups : g \in SUBSET projected' /\ g # {} /\ Whole(g, projected')
  BY WholeStays DEF Holds
<1> QED
  BY <1>1 DEF Holds

LEMMA CampaignsStay ==
    ASSUME IInv, UNCHANGED <<supersededBy, members>>, projected \subseteq projected'
    PROVE  (\A c \in Campaigns : Linked(c) /\ Inherited(c))' /\ SupersessionEnds'
<1>1. members \in [Campaigns -> SUBSET projected]
  BY DEF IInv, TypeOK
<1>2. supersededBy \in [Campaigns -> Campaigns \cup {NoCampaign}]
  BY DEF IInv, TypeOK
<1>3. ASSUME NEW c \in Campaigns PROVE Linked(c)' /\ Inherited(c)'
  <2>1. Whole(members[c], projected')
    BY <1>1, WholeStays DEF IInv, Linked
  <2>2. CASE supersededBy[c] = NoCampaign
    BY <2>1, <2>2, Zenon DEF IInv, Linked, Inherited
  <2>3. CASE supersededBy[c] # NoCampaign
    <3>1. PICK X \in SUBSET projected : X = members[c] \cup members[supersededBy[c]]
      BY <1>1, <1>2, <2>3, Zenon
    <3>2. Whole(X, projected')
      BY <2>3, <3>1, WholeStays DEF IInv, Inherited
    <3> QED
      BY <2>1, <2>3, <3>1, <3>2, Zenon DEF IInv, Linked, Inherited
  <2> QED
    BY <2>2, <2>3
<1>4. SupersessionEnds'
  BY DEF IInv, SupersessionEnds
<1> QED
  BY <1>3, <1>4

LEMMA OneProcess ==
    ASSUME IInv, NEW p \in Procs, NEW q \in ProcState, proc' = [proc EXCEPT ![p] = q],
           Holds(q, projected'), projected \subseteq projected', events' \in 0 .. MaxEvents
    PROVE  Processes'
<1>1. proc \in [Procs -> ProcState] /\ \A o \in Procs : Holds(proc[o], projected)
  BY DEF IInv, Processes
<1>2. proc' \in [Procs -> ProcState]
  BY <1>1
<1>3. ASSUME NEW o \in Procs PROVE Holds(proc'[o], projected')
  <2>1. CASE o = p
    BY <1>1, <2>1
  <2>2. CASE o # p
    <3>1. proc'[o] = proc[o] /\ proc[o] \in ProcState
      BY <1>1, <2>2
    <3>2. Holds(proc[o], projected)
      BY <1>1
    <3>3. \A q1 \in ProcState : Holds(q1, projected) => Holds(q1, projected')
      BY HoldsStays
    <3> QED
      BY <1>1, <3>1, <3>2, <3>3
  <2> QED
    BY <2>1, <2>2
<1> QED
  BY <1>2, <1>3 DEF Processes

LEMMA SameProcesses ==
    ASSUME IInv, UNCHANGED <<proc, projected>>, events' \in 0 .. MaxEvents
    PROVE  Processes'
<1>1. \A o \in Procs : Holds(proc'[o], projected')
  BY DEF IInv, Processes, Holds
<1> QED
  BY <1>1 DEF IInv, Processes

-----------------------------------------------------------------------------
(***************************************************************************)
(* One lemma per action                                                    *)
(***************************************************************************)
LEMMA OutboxStep ==
    ASSUME IInv, NEW r \in Runs, NEW to \in {"pending", "expired"},
           outbox' = [outbox EXCEPT ![r] = to],
           UNCHANGED <<projected, campaigns, proc, events>>
    PROVE  IInv'
<1>1. TypeOK'
  BY DEF IInv, TypeOK, campaigns
<1>2. Processes'
  BY SameProcesses DEF IInv, Processes
<1> QED
  BY <1>1, <1>2, CampaignsStay DEF IInv, campaigns

LEMMA LeaseStep ==
    ASSUME IInv, NEW p \in Procs, Lease(p)
    PROVE  IInv'
<1>1. PICK items \in SUBSET Runs :
        /\ outbox' = [r \in Runs |-> IF r \in items THEN "leased" ELSE outbox[r]]
        /\ proc' = [proc EXCEPT ![p] = [Idle EXCEPT !.pc = "work", !.items = items]]
  BY Zenon DEF Lease, Leasable
<1>2. UNCHANGED <<projected, status, supersededBy, members, events>>
  BY DEF Lease, campaigns
<1>3. TypeOK'
  BY <1>1, <1>2 DEF IInv, TypeOK
<1>4. PICK q \in ProcState : q = [Idle EXCEPT !.pc = "work", !.items = items]
  BY Zenon DEF Idle, ProcState
<1>5. Holds(q, projected')
  BY <1>4 DEF Holds, Idle
<1>6. Processes'
  BY <1>1, <1>2, <1>4, <1>5, OneProcess DEF IInv, Processes
<1> QED
  BY <1>2, <1>3, <1>6, CampaignsStay DEF IInv

LEMMA EndsStep ==
    ASSUME IInv, NEW p \in Procs, NEW r \in Runs,
           NEW result \in {"complete", "terminal", "retryable"},
           proc[p].pc = "work", Ends(p, r, result),
           projected' = projected \/ projected' = projected \cup {r},
           result = "complete" => r \in projected',
           events' \in 0 .. MaxEvents,
           UNCHANGED <<outbox, campaigns>>
    PROVE  IInv'
<1>0. projected \subseteq projected' /\ projected' \subseteq Runs
  BY DEF IInv, TypeOK
<1>1. TypeOK'
  BY <1>0 DEF IInv, TypeOK, campaigns
<1>2. proc[p] \in ProcState /\ Holds(proc[p], projected) /\ proc \in [Procs -> ProcState]
  BY DEF IInv, Processes
<1>3. PICK q \in ProcState : q = [proc[p] EXCEPT !.pc = "finish", !.item = r, !.result = result]
  BY <1>2, Zenon DEF ProcState
<1>4. proc' = [proc EXCEPT ![p] = q]
  BY <1>2, <1>3, Zenon DEF Ends, ProcState
<1>5. Holds(q, projected')
  <2>1. Holds(proc[p], projected')
    BY <1>0, <1>2, HoldsStays
  <2>2. /\ q.pc = "finish" /\ q.item = r /\ q.result = result
        /\ q.runs = proc[p].runs /\ q.groups = proc[p].groups
    BY <1>2, <1>3 DEF ProcState
  <2> QED
    BY <2>1, <2>2, Zenon DEF Holds
<1>6. Processes'
  BY <1>0, <1>3, <1>4, <1>5, OneProcess, Zenon
<1> QED
  BY <1>0, <1>1, <1>6, CampaignsStay DEF IInv, campaigns

LEMMA PersistStep ==
    ASSUME IInv, NEW p \in Procs, Persist(p) \/ PersistFails(p)
    PROVE  IInv'
<1>0. proc[p] \in ProcState /\ events \in 0 .. MaxEvents /\ MaxEvents \in Nat
  BY IntelAssumption DEF IInv, Processes
<1>1. CASE Persist(p)
  <2>1. PICK r \in proc[p].items : Ends(p, r, "complete") /\ projected' = projected \cup {r}
    BY <1>1 DEF Persist
  <2>2. r \in Runs
    BY <1>0, <2>1 DEF ProcState
  <2> QED
    BY <1>0, <1>1, <2>1, <2>2, EndsStep DEF Persist
<1>2. CASE PersistFails(p)
  <2>1. PICK r \in proc[p].items, result \in {"terminal", "retryable"} : Ends(p, r, result)
    BY <1>2 DEF PersistFails
  <2>2. r \in Runs
    BY <1>0, <2>1 DEF ProcState
  <2>3. events' \in 0 .. MaxEvents
    BY <1>0, <1>2 DEF PersistFails
  <2> QED
    BY <1>2, <2>1, <2>2, <2>3, EndsStep DEF PersistFails
<1> QED
  BY <1>1, <1>2

LEMMA FinishStep ==
    ASSUME IInv, NEW p \in Procs, Finish(p)
    PROVE  IInv'
<1>1. proc[p] \in ProcState /\ Holds(proc[p], projected)
  BY DEF IInv, Processes
<1>2. UNCHANGED <<projected, status, supersededBy, members, events>>
  BY DEF Finish, campaigns
<1>3. PICK r \in Runs, result \in {"complete", "terminal", "retryable"} :
        /\ outbox' = [outbox EXCEPT ![r] = result]
        /\ result = "complete" => r \in projected
  BY <1>1, Zenon DEF Finish, Holds, ProcState
<1>4. TypeOK'
  BY <1>2, <1>3 DEF IInv, TypeOK
<1>5. PICK rest \in SUBSET Runs, pc \in {"runs", "work"} :
        proc' = [proc EXCEPT ![p] = [Idle EXCEPT !.pc = pc, !.items = rest]]
  <2>1. proc[p].items \ {proc[p].item} \in SUBSET Runs
    BY <1>1 DEF ProcState
  <2> QED
    BY <2>1, Zenon DEF Finish
<1>6. PICK q \in ProcState : q = [Idle EXCEPT !.pc = pc, !.items = rest]
  BY Zenon DEF Idle, ProcState
<1>7. Holds(q, projected')
  BY <1>6 DEF Holds, Idle
<1>8. Processes'
  BY <1>2, <1>5, <1>6, <1>7, OneProcess DEF IInv, Processes
<1> QED
  BY <1>2, <1>4, <1>8, CampaignsStay DEF IInv

LEMMA ReadRunsStep ==
    ASSUME IInv, NEW p \in Procs, ReadRuns(p)
    PROVE  IInv'
<1>1. proc[p] \in ProcState /\ Holds(proc[p], projected) /\ proc \in [Procs -> ProcState]
  BY DEF IInv, Processes
<1>2. UNCHANGED <<outbox, projected, status, supersededBy, members, events>>
  BY DEF ReadRuns, campaigns
<1>3. TypeOK'
  BY <1>2 DEF IInv, TypeOK
<1>4. PICK q \in ProcState : q = [proc[p] EXCEPT !.pc = "edges", !.runs = projected]
  BY <1>1, Zenon DEF ProcState, IInv, TypeOK
<1>5. proc' = [proc EXCEPT ![p] = q]
  BY <1>1, <1>4, Zenon DEF ReadRuns, ProcState
<1>6. Holds(q, projected')
  <2>1. q.pc = "edges" /\ q.runs = projected /\ q.groups = proc[p].groups
    BY <1>1, <1>4 DEF ProcState
  <2> QED
    BY <1>1, <1>2, <2>1, Zenon DEF Holds
<1>7. Processes'
  BY <1>2, <1>4, <1>5, <1>6, OneProcess DEF IInv, Processes
<1> QED
  BY <1>2, <1>3, <1>7, CampaignsStay DEF IInv

\* The components of what was read are linked in what is projected.
LEMMA ReadEdgesStep ==
    ASSUME IInv, NEW p \in Procs, ReadEdges(p)
    PROVE  IInv'
<1>1. proc[p] \in ProcState /\ Holds(proc[p], projected)
  BY DEF IInv, Processes
<1>2. UNCHANGED <<outbox, projected, status, supersededBy, members, events>>
  BY DEF ReadEdges, campaigns
<1>3. TypeOK'
  BY <1>2 DEF IInv, TypeOK
<1>4. PICK runs \in SUBSET projected :
        proc' = [proc EXCEPT ![p] = [Idle EXCEPT !.pc = "write", !.groups = Components(runs)]]
  <2>1. proc[p].runs \cup {r \in projected : KeysOf[r] # {}} \in SUBSET projected
    BY <1>1 DEF Holds
  <2> QED
    BY <2>1, Zenon DEF ReadEdges
<1>5. runs \in SUBSET Runs
  BY <1>4 DEF IInv, TypeOK
<1>6. \A g \in Components(runs) : g \in SUBSET runs /\ g # {} /\ Whole(g, runs)
  BY <1>5, ComponentIsWhole
<1>7. \A g \in Components(runs) : g \in SUBSET projected /\ g # {} /\ Whole(g, projected)
  BY <1>6, WholeStays
<1>8. \A g, h \in Components(runs) : g # h => g \cap h = {} /\ CampaignOf(g) # CampaignOf(h)
  BY <1>5, ComponentsAreDistinct
<1>9. Components(runs) \in SUBSET SUBSET Runs
  BY <1>5, <1>6
<1>10. PICK q \in ProcState : q = [Idle EXCEPT !.pc = "write", !.groups = Components(runs)]
  BY <1>9, Zenon DEF Idle, ProcState
<1>11. q.pc = "write" /\ q.runs = {} /\ q.groups = Components(runs)
  BY <1>10 DEF Idle
<1>12. Holds(q, projected')
  BY <1>2, <1>7, <1>8, <1>11 DEF Holds
<1>13. Processes'
  BY <1>2, <1>4, <1>10, <1>12, OneProcess DEF IInv, Processes
<1> QED
  BY <1>2, <1>3, <1>13, CampaignsStay DEF IInv

\* What the transaction does to the members of one campaign: it joins at most
\* one component to them, which they are linked to through the name.
LEMMA RebuildMembers ==
    ASSUME IInv, NEW p \in Procs, Rebuild(p), NEW c \in Campaigns
    PROVE  /\ members'[c] \in SUBSET projected
           /\ members[c] \subseteq members'[c]
           /\ Whole(members'[c], projected)
           /\ members'[c] # {} => Names(c, members'[c])
           /\ \A g \in proc[p].groups : CampaignOf(g) = c => g \subseteq members'[c]
           /\ (\A g \in proc[p].groups : CampaignOf(g) # c) => members'[c] = members[c]
<1>1. PICK groups : groups = proc[p].groups
  OBVIOUS
<1>2. /\ \A g \in groups : g \in SUBSET projected /\ g # {} /\ Whole(g, projected)
      /\ \A g, h \in groups : g # h => g \cap h = {} /\ CampaignOf(g) # CampaignOf(h)
  BY <1>1, Zenon DEF IInv, Processes, Holds
<1>3. members'[c] = members[c] \cup UNION {g \in groups : CampaignOf(g) = c}
  BY <1>1, Zenon DEF Rebuild
<1>4. /\ projected \in SUBSET Runs /\ members[c] \in SUBSET projected
      /\ Whole(members[c], projected) /\ (members[c] # {} => Names(c, members[c]))
  BY DEF IInv, TypeOK, Linked
<1>5. CASE \A g \in groups : CampaignOf(g) # c
  <2>1. members'[c] = members[c]
    BY <1>3, <1>5
  <2> QED
    BY <1>1, <1>4, <1>5, <2>1, Zenon
<1>6. ASSUME NEW g \in groups, CampaignOf(g) = c
      PROVE  /\ members'[c] = members[c] \cup g
             /\ Names(c, g) /\ g # {} /\ g \in SUBSET projected
             /\ Whole(members'[c], projected) /\ Names(c, members'[c])
  <2>1. UNION {h \in groups : CampaignOf(h) = c} = g
    BY <1>2, <1>6
  <2>2. members'[c] = members[c] \cup g
    BY <1>3, <2>1, Zenon
  <2>3. g \in SUBSET projected /\ g # {} /\ Whole(g, projected)
    BY <1>2, <1>6
  <2>4. Names(c, g)
    BY <1>4, <1>6, <2>3, CampaignNames
  <2>5. Names(c, members'[c])
    BY <2>2, <2>4 DEF Names
  <2>6. CASE members[c] = {}
    <3>1. members'[c] = g
      BY <2>2, <2>6
    <3> QED
      BY <2>2, <2>3, <2>4, <2>5, <3>1
  <2>7. CASE members[c] # {}
    <3>1. PICK r \in members[c], s \in g : r = s \/ KeysOf[r] \cap KeysOf[s] # {}
      BY <1>4, <2>3, <2>4, <2>7, NamesLink
    <3>2. Whole(members[c] \cup g, projected)
      BY <1>4, <2>3, <3>1, WholeJoins, Zenon
    <3> QED
      BY <2>2, <2>3, <2>4, <2>5, <3>2
  <2> QED
    BY <2>6, <2>7, Zenon
<1>7. CASE \E g \in groups : CampaignOf(g) = c
  <2>1. PICK g \in groups : CampaignOf(g) = c
    BY <1>7
  <2>2. \A h \in groups : CampaignOf(h) = c => h = g
    BY <1>2, <2>1
  <2> QED
    BY <1>1, <1>4, <1>6, <2>1, <2>2
<1> QED
  BY <1>5, <1>7, Zenon

\* What it does to superseded_by: an active campaign has no heir, a dropped one
\* gets an active heir it shares a run with, the others keep theirs.
LEMMA RebuildHeirs ==
    ASSUME IInv, NEW p \in Procs, Rebuild(p), NEW c \in Campaigns
    PROVE  LET active == {CampaignOf(g) : g \in proc[p].groups}
           IN \/ c \in active /\ supersededBy'[c] = NoCampaign
              \/ /\ c \notin active
                 /\ \E g \in proc[p].groups :
                      /\ g \cap members[c] # {}
                      /\ supersededBy'[c] = CampaignOf(g)
              \/ /\ c \notin active
                 /\ supersededBy'[c] = supersededBy[c]
                 /\ \/ supersededBy[c] # NoCampaign
                    \/ \A g \in proc[p].groups : g \cap members[c] = {}
<1> DEFINE groups == proc[p].groups
           active == {CampaignOf(g) : g \in groups}
           dropped == {d \in Campaigns \ active :
                         supersededBy[d] = NoCampaign /\ Heirs(groups, d) # {}}
<1>1. PICK heir \in [dropped -> active] :
        /\ \A d \in dropped : heir[d] \in Heirs(groups, d)
        /\ supersededBy' = [d \in Campaigns |-> IF d \in dropped THEN heir[d]
                                                ELSE Upsert(active, d)]
  BY Zenon DEF Rebuild
<1>2. supersededBy'[c] = IF c \in dropped THEN heir[c] ELSE Upsert(active, c)
  BY <1>1, Zenon
<1>3. CASE c \in dropped
  <2>1. heir[c] \in Heirs(groups, c) /\ supersededBy'[c] = heir[c] /\ c \notin active
    BY <1>1, <1>2, <1>3, Zenon
  <2>2. \E g \in groups : g \cap members[c] # {} /\ supersededBy'[c] = CampaignOf(g)
    BY <2>1 DEF Heirs
  <2> QED
    BY <2>1, <2>2, Zenon
<1>4. CASE c \notin dropped
  <2>1. supersededBy'[c] = IF c \in active THEN NoCampaign ELSE supersededBy[c]
    BY <1>2, <1>4, Zenon DEF Upsert
  <2>2. c \in active \/ supersededBy[c] # NoCampaign \/ Heirs(groups, c) = {}
    BY <1>4
  <2>3. ASSUME NEW g \in groups, g \cap members[c] # {} PROVE Heirs(groups, c) # {}
    <3>1. CampaignOf(g) \in Heirs(groups, c)
      BY <2>3 DEF Heirs
    <3> QED
      BY <3>1
  <2> QED
    BY <2>1, <2>2, <2>3, Zenon
<1> QED
  BY <1>3, <1>4, Zenon

LEMMA RebuildStep ==
    ASSUME IInv, NEW p \in Procs, Rebuild(p)
    PROVE  IInv'
<1>1. PICK groups, active : groups = proc[p].groups /\ active = {CampaignOf(g) : g \in groups}
  BY Zenon
<1>2. /\ UNCHANGED <<outbox, projected, events>>
      /\ proc' = [proc EXCEPT ![p] = Idle]
      /\ projected \in SUBSET Runs
      /\ members \in [Campaigns -> SUBSET projected]
      /\ supersededBy \in [Campaigns -> Campaigns \cup {NoCampaign}]
  BY Zenon DEF Rebuild, IInv, TypeOK
<1>3. \A g \in groups : g \in SUBSET Runs /\ g # {} /\ g \in SUBSET projected /\ Whole(g, projected)
  BY <1>1, <1>2, Zenon DEF IInv, Processes, Holds
<1>4. \A g \in groups : CampaignOf(g) \in Campaigns
  BY <1>3, CampaignNames
<1>5. NoCampaign \notin Campaigns
  BY IntelAssumption DEF Campaigns
<1>6. \A c \in Campaigns : supersededBy'[c] \in Campaigns \cup {NoCampaign}
  BY <1>1, <1>2, <1>4, RebuildHeirs
<1>7. TypeOK'
  <2>1. members' \in [Campaigns -> SUBSET projected']
    <3>1. \A c \in Campaigns : members'[c] \in SUBSET projected
      BY RebuildMembers, Zenon
    <3>2. members' = [c \in Campaigns |-> members'[c]]
      BY Zenon DEF Rebuild
    <3> QED
      BY <1>2, <3>1, <3>2
  <2>2. supersededBy' \in [Campaigns -> Campaigns \cup {NoCampaign}]
    <3>1. supersededBy' = [c \in Campaigns |-> supersededBy'[c]]
      BY DEF Rebuild
    <3> QED
      BY <1>6, <3>1
  <2>3. status' = [c \in Campaigns |-> IF c \in active THEN "active"
                                       ELSE IF status[c] = "none" THEN "none" ELSE "inactive"]
    BY <1>1, Zenon DEF Rebuild, Standing
  <2>4. ASSUME NEW c \in Campaigns PROVE status'[c] = "none" <=> members'[c] = {}
    <3>1. status[c] = "none" <=> members[c] = {}
      BY DEF IInv, TypeOK
    <3>2. CASE c \in active
      <4>1. PICK g \in groups : CampaignOf(g) = c
        BY <1>1, <3>2
      <4>2. g # {} /\ g \subseteq members'[c]
        BY <1>1, <1>3, <4>1, RebuildMembers
      <4> QED
        BY <2>3, <3>2, <4>2
    <3>3. CASE c \notin active
      <4>1. members'[c] = members[c]
        BY <1>1, <3>3, RebuildMembers
      <4> QED
        BY <2>3, <3>1, <3>3, <4>1
    <3> QED
      BY <3>2, <3>3
  <2>5. status' \in [Campaigns -> {"none", "active", "inactive"}]
    BY <2>3
  <2> QED
    BY <1>2, <2>1, <2>2, <2>4, <2>5 DEF IInv, TypeOK
<1>8. Processes'
  BY <1>2, IdleHolds, OneProcess DEF IInv, Processes
<1>9. ASSUME NEW c \in Campaigns PROVE Linked(c)'
  BY <1>2, RebuildMembers, Zenon DEF Linked
<1>10. ASSUME NEW c \in Campaigns, supersededBy'[c] # NoCampaign
       PROVE  /\ members'[supersededBy'[c]] # {}
              /\ Whole(members'[c] \cup members'[supersededBy'[c]], projected)
  <2>1. PICK d \in Campaigns : d = supersededBy'[c]
    BY <1>6, <1>10
  <2>2. c \notin active
    BY <1>1, <1>10, RebuildHeirs, Zenon
  <2>3. members'[c] = members[c] /\ members[c] \in SUBSET projected /\ Whole(members[c], projected)
    BY <1>1, <1>2, <2>2, RebuildMembers DEF IInv, Linked
  <2>4. /\ members'[d] \in SUBSET projected /\ Whole(members'[d], projected)
        /\ members[d] \subseteq members'[d]
    BY <2>1, RebuildMembers, Zenon
  <2>5. CASE \E g \in groups : g \cap members[c] # {} /\ supersededBy'[c] = CampaignOf(g)
    <3>1. PICK g \in groups : g \cap members[c] # {} /\ d = CampaignOf(g)
      BY <2>1, <2>5
    <3>2. PICK r : r \in g /\ r \in members[c]
      BY <3>1
    <3>3. r \in members'[d]
      BY <1>1, <2>1, <3>1, <3>2, RebuildMembers, Zenon
    <3>4. Whole(members[c] \cup members'[d], projected)
      BY <1>2, <2>3, <2>4, <3>2, <3>3, WholeJoins, Zenon
    <3> QED
      BY <2>1, <2>3, <3>3, <3>4
  <2>6. CASE supersededBy'[c] = supersededBy[c]
    <3>1. members[d] # {} /\ Whole(members[c] \cup members[d], projected)
      BY <1>10, <2>1, <2>6, Zenon DEF IInv, Inherited
    <3>2. PICK r : r \in members[d]
      BY <3>1
    <3>3. members[c] \cup members[d] \in SUBSET projected
      BY <1>2, <2>1, <2>3
    <3>4. Whole((members[c] \cup members[d]) \cup members'[d], projected)
      BY <1>2, <2>4, <3>1, <3>2, <3>3, WholeJoins, Zenon
    <3>5. (members[c] \cup members[d]) \cup members'[d] = members[c] \cup members'[d]
      BY <2>4
    <3>6. Whole(members[c] \cup members'[d], projected) /\ members'[d] # {}
      BY <2>4, <3>2, <3>4, <3>5
    <3> QED
      BY <2>1, <2>3, <3>6
  <2> QED
    BY <1>1, <1>10, <2>5, <2>6, RebuildHeirs, Zenon
<1>11. ASSUME NEW S \in SUBSET {c \in Campaigns : supersededBy'[c] # NoCampaign},
              \A c \in S : supersededBy'[c] \in S
       PROVE  S = {}
  <2>1. \A c \in S : c \notin active
    BY <1>1, <1>11, RebuildHeirs, Zenon
  <2>2. \A c \in S : supersededBy'[c] = supersededBy[c]
    <3> SUFFICES ASSUME NEW c \in S PROVE supersededBy'[c] = supersededBy[c]
      OBVIOUS
    <3>1. supersededBy'[c] \notin active
      BY <1>11, <2>1
    <3>2. \A g \in groups : supersededBy'[c] # CampaignOf(g)
      BY <1>1, <3>1
    <3> QED
      BY <1>1, <1>11, <2>1, <3>2, RebuildHeirs, Zenon
  <2>3. S \in SUBSET {c \in Campaigns : supersededBy[c] # NoCampaign}
    BY <1>11, <2>2
  <2> QED
    BY <1>11, <2>2, <2>3 DEF IInv, SupersessionEnds
<1>12. SupersessionEnds'
  BY <1>11 DEF SupersessionEnds
<1>13. \A c \in Campaigns : Inherited(c)'
  BY <1>2, <1>10, Zenon DEF Inherited
<1> QED
  BY <1>7, <1>8, <1>9, <1>12, <1>13 DEF IInv

\* What a rebuild leaves when its reading is current.
Repaired(groups) ==
    /\ \A c \in Campaigns : status'[c] = "active" <=> \E g \in groups : CampaignOf(g) = c
    /\ \A g \in groups : members'[CampaignOf(g)] = g
    /\ \A c \in Campaigns : status'[c] = "inactive" => supersededBy'[c] # NoCampaign

\* The members of an active campaign are whole, and its component is closed;
\* the members of any other campaign are in some component.
LEMMA RepairHolds ==
    ASSUME IInv, NEW p \in Procs, Rebuild(p), proc[p].groups = Components(projected)
    PROVE  Repaired(proc[p].groups)
<1>1. PICK groups, active :
        /\ groups = proc[p].groups
        /\ groups = Components(projected)
        /\ active = {CampaignOf(g) : g \in groups}
  BY Zenon
<1>2. /\ projected \in SUBSET Runs
      /\ members \in [Campaigns -> SUBSET projected]
      /\ \A c \in Campaigns : status[c] = "none" <=> members[c] = {}
  BY DEF IInv, TypeOK
<1>3. \A c \in Campaigns :
        status'[c] = IF c \in active THEN "active"
                     ELSE IF status[c] = "none" THEN "none" ELSE "inactive"
  BY <1>1, <1>2, Zenon DEF Rebuild, Standing, IInv, TypeOK
<1>4. status \in [Campaigns -> {"none", "active", "inactive"}]
  BY DEF IInv, TypeOK
<1>5. \A c \in Campaigns : status'[c] = "active" <=> \E g \in groups : CampaignOf(g) = c
  BY <1>1, <1>3
<1>6. ASSUME NEW g \in groups PROVE members'[CampaignOf(g)] = g
  <2>1. PICK a \in projected : g = Component(projected, a)
    BY <1>1, <1>6 DEF Components
  <2>2. g \in SUBSET projected /\ a \in g /\ Closed(g, projected)
    BY <1>2, <2>1, ComponentIsLeast
  <2>3. PICK c \in Campaigns : c = CampaignOf(g)
    BY <1>2, <2>2, CampaignNames
  <2>4. g \subseteq members'[c] /\ Whole(members'[c], projected)
    BY <1>1, <1>6, <2>3, RebuildMembers, Zenon
  <2>5. members'[c] \subseteq g
    BY <2>2, <2>4 DEF Whole
  <2> QED
    BY <2>3, <2>4, <2>5, Zenon
<1>7. ASSUME NEW c \in Campaigns, status'[c] = "inactive"
      PROVE  supersededBy'[c] # NoCampaign
  <2>1. c \notin active /\ members[c] # {}
    BY <1>2, <1>3, <1>7
  <2>2. PICK r \in projected : r \in members[c]
    BY <1>2, <2>1
  <2>3. PICK g \in groups : r \in g
    <3>1. r \in Component(projected, r) /\ Component(projected, r) \in groups
      BY <1>1, <1>2, <2>2, ComponentIsLeast DEF Components
    <3> QED
      BY <3>1
  <2>4. g \cap members[c] # {}
    BY <2>2, <2>3
  <2>5. \A h \in groups : CampaignOf(h) # NoCampaign
    <3> SUFFICES ASSUME NEW h \in groups PROVE CampaignOf(h) # NoCampaign
      OBVIOUS
    <3>1. h \in SUBSET Runs /\ h # {}
      BY <1>1, <1>2, ComponentIsWhole
    <3>2. CampaignOf(h) \in Campaigns
      BY <3>1, CampaignNames
    <3> QED
      BY <3>2, IntelAssumption DEF Campaigns
  <2> QED
    BY <1>1, <2>1, <2>3, <2>4, <2>5, RebuildHeirs, Zenon
<1> QED
  BY <1>1, <1>5, <1>6, <1>7 DEF Repaired

LEMMA StopStep ==
    ASSUME IInv, NEW p \in Procs, Stop(p)
    PROVE  IInv'
<1>1. UNCHANGED <<outbox, projected, status, supersededBy, members>>
  BY DEF Stop, campaigns
<1>2. TypeOK'
  BY <1>1 DEF IInv, TypeOK
<1>3. events' \in 0 .. MaxEvents
  BY IntelAssumption DEF Stop, IInv, Processes
<1>4. Processes'
  BY <1>1, <1>3, IdleHolds, OneProcess, Zenon DEF Stop
<1> QED
  BY <1>1, <1>2, <1>4, CampaignsStay DEF IInv

LEMMA StartRebuildStep ==
    ASSUME IInv, StartRebuild
    PROVE  IInv'
<1>1. UNCHANGED <<outbox, projected, status, supersededBy, members>>
  BY DEF StartRebuild, campaigns
<1>2. TypeOK'
  BY <1>1 DEF IInv, TypeOK
<1>3. events' \in 0 .. MaxEvents
  BY IntelAssumption DEF StartRebuild, IInv, Processes
<1>4. /\ Operator \in Procs /\ proc \in [Procs -> ProcState]
      /\ proc[Operator] \in ProcState /\ Holds(proc[Operator], projected)
  BY DEF Procs, IInv, Processes
<1>5. PICK q \in ProcState : q = [proc[Operator] EXCEPT !.pc = "runs"]
  BY <1>4, Zenon DEF ProcState
<1>6. proc' = [proc EXCEPT ![Operator] = q]
  BY <1>4, <1>5 DEF StartRebuild, ProcState
<1>7. q.pc = "runs" /\ q.runs = proc[Operator].runs /\ q.groups = proc[Operator].groups
  BY <1>4, <1>5 DEF ProcState
<1>8. Holds(q, projected')
  BY <1>1, <1>4, <1>7, Zenon DEF Holds
<1>9. Processes'
  BY <1>1, <1>3, <1>4, <1>5, <1>6, <1>8, OneProcess, Zenon
<1> QED
  BY <1>1, <1>2, <1>9, CampaignsStay DEF IInv

LEMMA ActivateStep ==
    ASSUME IInv, NEW this \in BOOLEAN, Activate(this)
    PROVE  IInv'
<1>1. UNCHANGED <<outbox, projected, supersededBy, members, proc>>
  BY DEF Activate
<1>2. TypeOK'
  BY <1>1 DEF IInv, TypeOK, Activate
<1>3. events' \in 0 .. MaxEvents
  BY IntelAssumption DEF Activate, IInv, Processes
<1> QED
  BY <1>1, <1>2, <1>3, SameProcesses, CampaignsStay DEF IInv

LEMMA StepIInv == IInv /\ [Next]_vars => IInv'
<1> SUFFICES ASSUME IInv, [Next]_vars PROVE IInv'
  OBVIOUS
<1>1. ASSUME NEW r \in Runs, Enqueue(r) \/ LeaseExpires(r) PROVE IInv'
  BY <1>1, OutboxStep DEF Enqueue, LeaseExpires
<1>2. ASSUME NEW p \in Procs, RebuildComponents(p) PROVE IInv'
  BY <1>2, ReadRunsStep, ReadEdgesStep, RebuildStep DEF RebuildComponents
<1>3. ASSUME NEW p \in Projectors, ProjectOnce(p) \/ PersistFails(p) PROVE IInv'
  <2>1. p \in Procs
    BY DEF Procs
  <2> QED
    BY <1>2, <1>3, <2>1, LeaseStep, PersistStep, FinishStep DEF ProjectOnce
<1>4. CASE RebuildComponents(Operator)
  BY <1>2, <1>4 DEF Procs
<1>5. ASSUME NEW p \in Projectors \cup {Operator}, Stop(p) PROVE IInv'
  BY <1>5, StopStep DEF Procs
<1>6. CASE StartRebuild
  BY <1>6, StartRebuildStep
<1>7. ASSUME NEW this \in BOOLEAN, Activate(this) PROVE IInv'
  BY <1>7, ActivateStep
<1>8. CASE UNCHANGED vars
  <2>1. UNCHANGED <<outbox, projected, status, supersededBy, members, proc, events>>
    BY <1>8 DEF vars, campaigns
  <2>2. TypeOK'
    BY <2>1 DEF IInv, TypeOK
  <2>3. Processes'
    BY <2>1, SameProcesses DEF IInv, Processes
  <2> QED
    BY <2>1, <2>2, <2>3, CampaignsStay DEF IInv
<1> QED
  BY <1>1, <1>3, <1>4, <1>5, <1>6, <1>7, <1>8 DEF Next

LEMMA Invariance == Spec => []IInv
<1>1. Init => IInv
  BY InitIInv
<1>2. IInv /\ [Next]_vars => IInv'
  BY StepIInv
<1> QED
  BY <1>1, <1>2, PTL DEF Spec

-----------------------------------------------------------------------------
(***************************************************************************)
(* What follows                                                            *)
(***************************************************************************)
\* An item is closed as complete only with its rows, and a campaign has
\* members exactly when it was ever a component (projector.go persist, finish,
\* RebuildComponents).
THEOREM IntelTypeCorrect == Spec => []TypeOK
<1>1. IInv => TypeOK
  BY DEF IInv
<1> QED
  BY <1>1, Invariance, PTL

\* However many rebuilds overlap, and however old the edges are that one of
\* them works on, it never puts runs that share no key into one campaign, and
\* supersedes no campaign by an unrelated one (projector.go
\* RebuildComponents).
THEOREM MembersAreLinked == Spec => []MembersShareKeys
<1>1. IInv => MembersShareKeys
  <2> SUFFICES ASSUME IInv, NEW K \in SUBSET projected,
                      \A r \in K, s \in projected \ K : KeysOf[r] \cap KeysOf[s] = {},
                      NEW c \in Campaigns
               PROVE  LET together == members[c] \cup IF supersededBy[c] = NoCampaign THEN {}
                                                      ELSE members[supersededBy[c]]
                      IN together \subseteq K \/ together \cap K = {}
    BY Zenon DEF MembersShareKeys
  <2>1. Closed(K, projected)
    BY DEF Closed
  <2>2. Linked(c) /\ Inherited(c)
    BY DEF IInv
  <2>3. CASE supersededBy[c] = NoCampaign
    BY <2>1, <2>2, <2>3, Zenon DEF Linked, Whole
  <2>4. CASE supersededBy[c] # NoCampaign
    BY <2>1, <2>2, <2>4, Zenon DEF Inherited, Whole
  <2> QED
    BY <2>3, <2>4, Zenon
<1> QED
  BY <1>1, Invariance, PTL

\* The breadth-first walk gives every run to one component, and every component
\* gets a campaign id no other component of the rebuild has (projector.go
\* RebuildComponents).
THEOREM ComponentsHaveTheirOwnCampaign == Spec => []GroupsAreDistinct
<1>1. IInv => GroupsAreDistinct
  BY Zenon DEF IInv, Processes, Holds, Procs, GroupsAreDistinct
<1> QED
  BY <1>1, Invariance, PTL

\* Whatever overlapping rebuilds, stops and activations came before, a rebuild
\* that commits a current reading leaves exactly the components as active
\* campaigns, with their runs as members, and an heir for every other campaign
\* (projector.go RebuildComponents).
THEOREM RebuildRepairs == Spec => RebuildsRepair
<1>1. IInv => \A p \in Projectors \cup {Operator} :
                Rebuild(p) /\ proc[p].groups = Components(projected) => Repaired(proc[p].groups)
  BY RepairHolds DEF Procs
<1> QED
  BY <1>1, Invariance, PTL DEF RebuildsRepair, Repaired

\* The chains of superseded_by have no cycle, whichever heir the order of the
\* Go map picks, and also when an old rebuild makes a superseded campaign
\* active again (projector.go RebuildComponents).
THEOREM SupersessionHasNoCycle == Spec => []SupersessionEnds
<1>1. IInv => SupersessionEnds
  BY DEF IInv
<1> QED
  BY <1>1, Invariance, PTL
=============================================================================
