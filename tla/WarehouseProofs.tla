--------------------------- MODULE WarehouseProofs ---------------------------
(***************************************************************************)
(* What TLAPS proves of MCWarehouse, for all of its orders, products,      *)
(* quantities, locations and requests: what the run checks on a few.       *)
(*                                                                         *)
(* A behaviour is one of a single part, so each part has an invariant of   *)
(* its own, and the theorems at the end put them together.  Receipts,      *)
(* waves, lots and transfers take theirs from the modules with the proofs  *)
(* of their components.  All that the run checks is proved.                *)
(***************************************************************************)
EXTENDS MCWarehouse, FiniteSetTheorems, SequenceTheorems, TLAPS

-----------------------------------------------------------------------------
\* Facts about sums (ShelfTheorems, whose own locations play no part here).
Sums == INSTANCE ShelfTheorems WITH NumLocations <- 0

-----------------------------------------------------------------------------
(* The tree of locations.  Nothing is inside itself as long as locations    *)
(* have heights that fall on the way up.                                    *)

Up(f, x) == IF x \in DOMAIN f THEN f[x] ELSE None

\* A way up from x of n steps.
IsClimb(h, f, x, n) == h[0] = x /\ \A i \in 1..n : h[i] = Up(f, h[i - 1])

\* The functions by which the code walks up, and NeverInsideItself does.
Walk(f, x, n) ==
  LET walk[i \in 0..n] ==
        IF i = 0 THEN x
        ELSE IF walk[i - 1] \in DOMAIN f THEN f[walk[i - 1]] ELSE None
  IN  walk

WalkAbove(f, x, n) ==
  LET walk[i \in 0..n] ==
        IF i = 0 THEN x ELSE IF walk[i - 1] = None THEN None ELSE f[walk[i - 1]]
  IN  walk

Heights(f, h) ==
  h \in [DOMAIN f -> Nat] /\ \A l \in DOMAIN f : f[l] \in DOMAIN f => h[f[l]] < h[l]

IsTree(f) == \E h : Heights(f, h)

\* Each location is inside another one or at the top.
IsForest(f, places) ==
  /\ f = [l \in DOMAIN f |-> f[l]] /\ DOMAIN f \subseteq places /\ None \notin places
  /\ \A l \in DOMAIN f : f[l] \in DOMAIN f \union {None}

LEMMA UpStays ==
  ASSUME NEW f, NEW places, IsForest(f, places)
  PROVE  /\ None \notin DOMAIN f
         /\ \A x : Up(f, x) \in DOMAIN f \union {None}
         /\ \A x \in DOMAIN f : Up(f, x) = f[x]
         /\ Up(f, None) = None
BY DEF IsForest, Up

LEMMA ClimbExists ==
  ASSUME NEW f, NEW places, IsForest(f, places), NEW n \in Nat, NEW x \in DOMAIN f \union {None}
  PROVE  \E h : IsClimb(h, f, x, n) /\ h \in [0..n -> DOMAIN f \union {None}]
<1> DEFINE Nodes == DOMAIN f \union {None}
           step == [s \in Nodes \X (1..n) |-> Up(f, s[1])]
<1>1. step \in [Nodes \X (1..n) -> Nodes]
  BY UpStays
<1>2. PICK h : Sums!IsComputed(h, Nodes, x, step, n)
  <2> HIDE DEF step, Nodes
  <2>1. x \in Nodes
    BY DEF Nodes
  <2> QED
    BY <1>1, <2>1, Sums!ComputedExists
<1>3. h \in [0..n -> Nodes] /\ h[0] = x /\ \A i \in 1..n : h[i] = step[<<h[i - 1], i>>]
  BY <1>2 DEF Sums!IsComputed
<1>4. ASSUME NEW i \in 1..n
      PROVE  h[i] = Up(f, h[i - 1])
  <2>1. i - 1 \in 0..n /\ h[i - 1] \in Nodes
    <3>1. i - 1 \in 0..n
      OBVIOUS
    <3> QED
      BY <1>3, <3>1
  <2> QED
    BY <1>3, <2>1
<1> QED
  BY <1>3, <1>4 DEF IsClimb

\* Two ways up of the same steps are one.
LEMMA SameClimb ==
  ASSUME NEW f, NEW x, NEW n \in Nat, NEW g, NEW h, IsClimb(g, f, x, n), IsClimb(h, f, x, n)
  PROVE  \A i \in 0..n : g[i] = h[i]
<1> DEFINE Good == {i \in 0..n : g[i] = h[i]}
<1>1. 0 \in Good
  BY DEF IsClimb
<1>2. \A i \in 1..n : i - 1 \in Good => i \in Good
  BY DEF IsClimb
<1> HIDE DEF Good
<1>3. \A i \in 0..n : i \in Good
  BY <1>1, <1>2, Sums!UpTo
<1> QED
  BY <1>3 DEF Good

LEMMA WalkClimbs ==
  ASSUME NEW f, NEW places, IsForest(f, places), NEW n \in Nat, NEW x \in DOMAIN f \union {None}
  PROVE  IsClimb(Walk(f, x, n), f, x, n)
<1> DEFINE Body(w) == [i \in 0..n |-> IF i = 0 THEN x
                                      ELSE IF w[i - 1] \in DOMAIN f THEN f[w[i - 1]] ELSE None]
           walk == CHOOSE w : w = Body(w)
<1>1. PICK h : IsClimb(h, f, x, n) /\ h \in [0..n -> DOMAIN f \union {None}]
  BY ClimbExists
<1>2. h = Body(h)
  BY <1>1 DEF IsClimb, Up
<1>3. walk = Body(walk)
  <2> HIDE DEF Body
  <2> QED
    BY <1>2
<1>4. Walk(f, x, n) = walk
  BY DEF Walk
<1> HIDE DEF walk
<1>5. IsClimb(walk, f, x, n)
  BY <1>3 DEF IsClimb, Up
<1> QED
  BY <1>4, <1>5

LEMMA WalkAboveClimbs ==
  ASSUME NEW f, NEW places, IsForest(f, places), NEW n \in Nat, NEW x \in DOMAIN f \union {None}
  PROVE  /\ \A i \in 0..n : WalkAbove(f, x, n)[i] = Walk(f, x, n)[i]
         /\ DOMAIN WalkAbove(f, x, n) = 0..n
<1> DEFINE Body(w) == [i \in 0..n |-> IF i = 0 THEN x
                                      ELSE IF w[i - 1] = None THEN None ELSE f[w[i - 1]]]
           walk == CHOOSE w : w = Body(w)
           Good == {i \in 0..n : walk[i] = Walk(f, x, n)[i] /\ walk[i] \in DOMAIN f \union {None}}
<1>1. PICK h : IsClimb(h, f, x, n) /\ h \in [0..n -> DOMAIN f \union {None}]
  BY ClimbExists
<1>2. h = Body(h)
  <2>1. ASSUME NEW i \in 1..n
        PROVE  h[i] = IF h[i - 1] = None THEN None ELSE f[h[i - 1]]
    <3>1. i - 1 \in 0..n
      OBVIOUS
    <3>2. h[i - 1] \in DOMAIN f \union {None} /\ None \notin DOMAIN f
      BY <1>1, <3>1, UpStays
    <3> QED
      BY <1>1, <3>2 DEF IsClimb, Up
  <2> QED
    BY <1>1, <2>1 DEF IsClimb
<1>3. walk = Body(walk)
  <2> HIDE DEF Body
  <2> QED
    BY <1>2
<1>4. WalkAbove(f, x, n) = walk
  BY DEF WalkAbove
<1> HIDE DEF walk
<1>5. IsClimb(Walk(f, x, n), f, x, n)
  BY WalkClimbs
<1>6. 0 \in Good
  BY <1>3, <1>5 DEF IsClimb
<1>7. ASSUME NEW i \in 1..n, i - 1 \in Good
      PROVE  i \in Good
  <2>1. walk[i] = IF walk[i - 1] = None THEN None ELSE f[walk[i - 1]]
    BY <1>3
  <2>2. Walk(f, x, n)[i] = Up(f, Walk(f, x, n)[i - 1])
    BY <1>5 DEF IsClimb
  <2> QED
    BY <1>7, <2>1, <2>2, UpStays DEF Up
<1>8. DOMAIN walk = 0..n
  BY <1>3
<1> HIDE DEF Good
<1>9. \A i \in 0..n : i \in Good
  BY <1>6, <1>7, Sums!UpTo
<1> QED
  BY <1>4, <1>8, <1>9 DEF Good

\* Heights fall on the way up.
LEMMA ClimbFalls ==
  ASSUME NEW f, NEW places, IsForest(f, places), NEW k, Heights(f, k),
         NEW n \in Nat, NEW x \in DOMAIN f \union {None}, NEW h, IsClimb(h, f, x, n)
  PROVE  \A j \in 0..n : h[j] \in DOMAIN f =>
           \A i \in 0..j : h[i] \in DOMAIN f /\ (i # j => k[h[j]] < k[h[i]])
<1> DEFINE Falls(j) == \A i \in 0..j : h[i] \in DOMAIN f /\ (i # j => k[h[j]] < k[h[i]])
           Good == {j \in 0..n : h[j] \in DOMAIN f => Falls(j)}
<1>1. 0 \in Good
  OBVIOUS
<1>2. ASSUME NEW j \in 1..n, j - 1 \in Good, h[j] \in DOMAIN f
      PROVE  Falls(j)
  <2>1. h[j] = Up(f, h[j - 1])
    BY DEF IsClimb
  <2>2. h[j - 1] \in DOMAIN f /\ h[j] = f[h[j - 1]]
    BY <1>2, <2>1, UpStays DEF Up
  <2>3. k[h[j]] < k[h[j - 1]] /\ \A l \in DOMAIN f : k[l] \in Nat
    BY <1>2, <2>2 DEF Heights
  <2>4. Falls(j - 1)
    BY <1>2, <2>2
  <2>5. ASSUME NEW i \in 0..j
        PROVE  h[i] \in DOMAIN f /\ (i # j => k[h[j]] < k[h[i]])
    <3>1. CASE i = j
      BY <1>2, <3>1
    <3>2. ASSUME i # j PROVE h[i] \in DOMAIN f /\ k[h[j]] < k[h[i]]
      <4>1. i \in 0..(j - 1) /\ j - 1 \in 0..n
        BY <3>2
      <4>2. h[i] \in DOMAIN f /\ (i # j - 1 => k[h[j - 1]] < k[h[i]])
        BY <2>4, <4>1
      <4> QED
        BY <1>2, <2>2, <2>3, <4>1, <4>2
    <3> QED
      BY <3>1, <3>2
  <2> QED
    BY <2>5
<1>3. \A j \in 1..n : j - 1 \in Good => j \in Good
  BY <1>2
<1> HIDE DEF Good
<1>4. \A j \in 0..n : j \in Good
  BY <1>1, <1>3, Sums!UpTo
<1> QED
  BY <1>4 DEF Good

\* Of more steps than there are places, two are at the same one.
LEMMA ClimbRepeats ==
  ASSUME NEW places, IsFiniteSet(places), NEW n \in Nat, Cardinality(places) <= n,
         NEW h, \A i \in 0..n : h[i] \in places
  PROVE  \E i \in 0..n : \E j \in 0..n : i < j /\ h[i] = h[j]
<1> DEFINE g == [i \in 0..n |-> h[i]]
<1>1. g \in [0..n -> places]
  OBVIOUS
<1>2. IsFiniteSet(0..n) /\ Cardinality(0..n) = n + 1
  BY FS_Interval
<1>3. Cardinality(places) \in Nat
  BY FS_CardinalityType
<1>4. \E i, j \in 0..n : i # j /\ g[i] = g[j]
  <2> HIDE DEF g
  <2>1. Cardinality(places) < Cardinality(0..n)
    BY <1>2, <1>3
  <2> QED
    BY <1>1, <1>2, <2>1, FS_PigeonHole
<1>5. PICK i, j \in 0..n : i # j /\ h[i] = h[j]
  BY <1>4
<1>6. CASE i < j
  BY <1>5, <1>6
<1>7. CASE ~(i < j)
  BY <1>5, <1>7
<1> QED
  BY <1>6, <1>7

\* In a tree the way up ends.
LEMMA ClimbEnds ==
  ASSUME NEW f, NEW places, IsForest(f, places), IsTree(f), IsFiniteSet(places),
         NEW n \in Nat, Cardinality(places) <= n,
         NEW x \in DOMAIN f \union {None}, NEW h, IsClimb(h, f, x, n)
  PROVE  h[n] \notin DOMAIN f
<1> SUFFICES ASSUME h[n] \in DOMAIN f PROVE FALSE
  OBVIOUS
<1>1. PICK k : Heights(f, k)
  BY DEF IsTree
<1>2. \A j \in 0..n : h[j] \in DOMAIN f =>
        \A i \in 0..j : h[i] \in DOMAIN f /\ (i # j => k[h[j]] < k[h[i]])
  BY <1>1, ClimbFalls
<1>3. \A i \in 0..n : h[i] \in DOMAIN f
  BY <1>2
<1>4. \A i \in 0..n : h[i] \in places
  BY <1>3 DEF IsForest
<1>5. PICK i \in 0..n : \E j \in 0..n : i < j /\ h[i] = h[j]
  BY <1>4, ClimbRepeats
<1>6. PICK j \in 0..n : i < j /\ h[i] = h[j]
  BY <1>5
<1>7. k[h[j]] < k[h[i]] /\ k[h[i]] \in Nat
  BY <1>1, <1>2, <1>3, <1>6 DEF Heights
<1> QED
  BY <1>6, <1>7

\* If all ways up end, their lengths are heights.
LEMMA EndsGiveTree ==
  ASSUME NEW f, NEW places, IsForest(f, places),
         \A x \in DOMAIN f : \E n \in Nat : \E h : IsClimb(h, f, x, n) /\ h[n] \notin DOMAIN f
  PROVE  IsTree(f)
<1> DEFINE Ends(x, n) == \E h : IsClimb(h, f, x, n) /\ h[n] \notin DOMAIN f
           Lengths(x) == {n \in Nat : Ends(x, n)}
           least(x) == CHOOSE n \in Lengths(x) : \A m \in Lengths(x) : n <= m
           k == [x \in DOMAIN f |-> least(x)]
<1>1. ASSUME NEW x \in DOMAIN f
      PROVE  least(x) \in Lengths(x) /\ \A m \in Lengths(x) : least(x) <= m
  <2>1. Lengths(x) \subseteq Nat /\ Lengths(x) # {}
    OBVIOUS
  <2> HIDE DEF Lengths
  <2>2. \E n \in Lengths(x) : \A m \in Lengths(x) : n <= m
    BY <2>1, Sums!NatMin
  <2> QED
    BY <2>2
<1>2. ASSUME NEW x \in DOMAIN f, f[x] \in DOMAIN f
      PROVE  least(f[x]) < least(x)
  <2> DEFINE n == least(x)
  <2>1. n \in Nat /\ Ends(x, n)
    BY <1>1
  <2> HIDE DEF n
  <2>2. PICK h : IsClimb(h, f, x, n) /\ h[n] \notin DOMAIN f
    BY <2>1
  <2>3. n # 0
    BY <2>2 DEF IsClimb
  <2> DEFINE g == [i \in 0..(n - 1) |-> h[i + 1]]
  <2>4. IsClimb(g, f, f[x], n - 1)
    <3>1. h[0] = x /\ \A i \in 1..n : h[i] = Up(f, h[i - 1])
      BY <2>2 DEF IsClimb
    <3>2. g[0] = f[x]
      <4>1. g[0] = h[1] /\ h[1] = Up(f, h[0])
        BY <2>1, <2>3, <3>1
      <4> QED
        BY <3>1, <4>1 DEF Up
    <3>3. ASSUME NEW i \in 1..(n - 1)
          PROVE  g[i] = Up(f, g[i - 1])
      <4>1. i + 1 \in 1..n /\ (i + 1) - 1 = i /\ (i - 1) + 1 = i
            /\ i \in 0..(n - 1) /\ i - 1 \in 0..(n - 1)
        BY <2>1
      <4>2. g[i] = h[i + 1] /\ g[i - 1] = h[i]
        BY <4>1
      <4> QED
        BY <3>1, <4>1, <4>2
    <3> QED
      BY <3>2, <3>3 DEF IsClimb
  <2>5. n - 1 \in Nat /\ g[n - 1] = h[n]
    BY <2>1, <2>3
  <2>6. n - 1 \in Lengths(f[x])
    <3> HIDE DEF g
    <3> QED
      BY <2>2, <2>4, <2>5
  <2>7. least(f[x]) <= n - 1 /\ least(f[x]) \in Nat
    <3>1. least(f[x]) \in Lengths(f[x]) /\ least(f[x]) <= n - 1
      BY <1>1, <1>2, <2>6
    <3> QED
      BY <3>1
  <2> HIDE DEF least
  <2> QED
    BY <2>1, <2>7 DEF n
<1>3. k \in [DOMAIN f -> Nat] /\ \A l \in DOMAIN f : k[l] = least(l)
  BY <1>1
<1> HIDE DEF least, k
<1>4. Heights(f, k)
  BY <1>2, <1>3 DEF Heights
<1> QED
  BY <1>4 DEF IsTree

\* In a tree nothing is above itself.
LEMMA TreeGivesIt ==
  ASSUME NEW f, NEW places, IsForest(f, places), IsTree(f), NEW n \in Nat, NEW l \in DOMAIN f
  PROVE  l \notin {WalkAbove(f, f[l], n)[i] : i \in DOMAIN WalkAbove(f, f[l], n)}
<1> DEFINE w == Walk(f, f[l], n)
<1>1. f[l] \in DOMAIN f \union {None}
  BY DEF IsForest
<1>2. /\ \A i \in 0..n : WalkAbove(f, f[l], n)[i] = w[i]
      /\ DOMAIN WalkAbove(f, f[l], n) = 0..n
  BY <1>1, WalkAboveClimbs
<1>3. IsClimb(w, f, f[l], n)
  BY <1>1, WalkClimbs
<1> HIDE DEF w
<1>4. SUFFICES ASSUME NEW m \in 0..n, w[m] = l PROVE FALSE
  BY <1>2
<1>5. PICK k : Heights(f, k)
  BY DEF IsTree
<1> DEFINE g == [i \in 0..(m + 1) |-> IF i = 0 THEN l ELSE w[i - 1]]
<1>6. IsClimb(g, f, l, m + 1)
  <2>1. g[0] = l
    OBVIOUS
  <2>2. ASSUME NEW i \in 1..(m + 1)
        PROVE  g[i] = Up(f, g[i - 1])
    <3>1. g[i] = w[i - 1] /\ i - 1 \in 0..n
      OBVIOUS
    <3>2. CASE i = 1
      BY <3>1, <3>2, <1>3 DEF IsClimb, Up
    <3>3. CASE i # 1
      <4>1. i - 1 \in 1..n /\ g[i - 1] = w[(i - 1) - 1]
        BY <3>3
      <4> QED
        BY <3>1, <4>1, <1>3 DEF IsClimb
    <3> QED
      BY <3>2, <3>3
  <2> QED
    BY <2>1, <2>2 DEF IsClimb
<1>7. g[0] = l /\ g[m + 1] = l
  BY <1>4
<1> HIDE DEF g
<1>8. k[g[m + 1]] < k[g[0]]
  <2>1. m + 1 \in Nat /\ l \in DOMAIN f \union {None} /\ m + 1 \in 0..(m + 1) /\ 0 \in 0..(m + 1)
    OBVIOUS
  <2>2. \A j \in 0..(m + 1) : g[j] \in DOMAIN f =>
          \A i \in 0..j : g[i] \in DOMAIN f /\ (i # j => k[g[j]] < k[g[i]])
    BY <1>5, <1>6, <2>1, ClimbFalls
  <2> QED
    BY <1>7, <2>1, <2>2
<1> QED
  BY <1>5, <1>7, <1>8 DEF Heights

\* The locations above one, as ancestors reads them, in places that it reads
\* the whole depth of.
AboveAndIt(f, p, depth) == {Walk(f, p, depth)[n] : n \in 0..(depth - 1)} \ {None}

LEMMA AboveIsClosed ==
  ASSUME NEW f, NEW places, IsForest(f, places), IsTree(f), IsFiniteSet(places),
         NEW depth \in Nat, Cardinality(places) <= depth, NEW p \in DOMAIN f
  PROVE  /\ p \in AboveAndIt(f, p, depth) /\ AboveAndIt(f, p, depth) \subseteq DOMAIN f
         /\ \A x \in AboveAndIt(f, p, depth) :
              f[x] \in DOMAIN f => f[x] \in AboveAndIt(f, p, depth)
<1> DEFINE w == Walk(f, p, depth)
           Path == AboveAndIt(f, p, depth)
<1>1. IsClimb(w, f, p, depth) /\ p \in DOMAIN f \union {None}
  BY WalkClimbs
<1>2. w[depth] \notin DOMAIN f
  BY <1>1, ClimbEnds
<1>3. Path = {w[n] : n \in 0..(depth - 1)} \ {None}
  BY DEF AboveAndIt
<1> HIDE DEF w, Path
<1>4. depth # 0 /\ w[0] = p
  BY <1>1, <1>2 DEF IsClimb
<1>5. p \in Path
  <2>1. 0 \in 0..(depth - 1)
    BY <1>4
  <2> QED
    BY <1>3, <1>4, <2>1, UpStays
<1>6. \A i \in 1..depth : w[i] \in DOMAIN f \union {None} /\ w[i] = Up(f, w[i - 1])
  BY <1>1, UpStays DEF IsClimb
<1>7. \A i \in 0..depth : w[i] \in DOMAIN f \union {None}
  BY <1>4, <1>6
<1>8. Path \subseteq DOMAIN f
  BY <1>3, <1>7
<1>9. ASSUME NEW x \in Path, f[x] \in DOMAIN f
      PROVE  f[x] \in Path
  <2>1. PICK n \in 0..(depth - 1) : x = w[n]
    BY <1>3
  <2>2. n + 1 \in 1..depth /\ (n + 1) - 1 = n
    BY <2>1
  <2>3. w[n + 1] = f[x]
    BY <1>6, <1>8, <2>1, <2>2, UpStays
  <2>4. n + 1 \in 0..(depth - 1)
    BY <1>2, <1>9, <2>2, <2>3
  <2> QED
    BY <1>3, <1>9, <2>3, <2>4, UpStays
<1> QED
  BY <1>5, <1>8, <1>9 DEF Path

-----------------------------------------------------------------------------
(* What keeps a tree a tree. *)

LEMMA CreateKeepsTree ==
  ASSUME NEW f, NEW places, IsForest(f, places), IsTree(f),
         NEW l \in places, l \notin DOMAIN f, NEW p \in DOMAIN f \union {None},
         NEW g, g = [k \in DOMAIN f \union {l} |-> IF k = l THEN p ELSE f[k]]
  PROVE  IsForest(g, places) /\ IsTree(g)
<1>1. DOMAIN g = DOMAIN f \union {l} /\ g[l] = p /\ \A x \in DOMAIN f : g[x] = f[x]
  OBVIOUS
<1>2. IsForest(g, places)
  BY <1>1 DEF IsForest
<1>3. PICK h : Heights(f, h)
  BY DEF IsTree
<1> DEFINE k == [x \in DOMAIN g |-> IF x # l THEN h[x] ELSE IF p \in DOMAIN f THEN h[p] + 1 ELSE 0]
<1>4. Heights(g, k)
  <2>1. h \in [DOMAIN f -> Nat] /\ \A x \in DOMAIN f : f[x] \in DOMAIN f => h[f[x]] < h[x]
    BY <1>3 DEF Heights
  <2>2. k \in [DOMAIN g -> Nat]
    BY <1>1, <2>1
  <2>3. ASSUME NEW x \in DOMAIN g, g[x] \in DOMAIN g
        PROVE  k[g[x]] < k[x]
    <3>1. g[x] \in DOMAIN f
      BY <1>1, <2>3 DEF IsForest
    <3> QED
      BY <1>1, <2>1, <2>3, <3>1
  <2> HIDE DEF k
  <2> QED
    BY <2>2, <2>3 DEF Heights
<1> QED
  BY <1>2, <1>4 DEF IsTree

\* What is above the new parent and does not hold the location keeps its
\* heights, and everything else goes on top of it.
LEMMA MoveKeepsTree ==
  ASSUME NEW f, NEW places, IsForest(f, places), IsTree(f),
         NEW l \in DOMAIN f, NEW p \in DOMAIN f, NEW above,
         p \in above, above \subseteq DOMAIN f, l \notin above,
         \A x \in above : f[x] \in DOMAIN f => f[x] \in above
  PROVE  IsForest([f EXCEPT ![l] = p], places) /\ IsTree([f EXCEPT ![l] = p])
<1> DEFINE g == [f EXCEPT ![l] = p]
<1>1. f = [x \in DOMAIN f |-> f[x]]
  BY DEF IsForest
<1>2. /\ g = [x \in DOMAIN g |-> g[x]] /\ DOMAIN g = DOMAIN f
      /\ g[l] = p /\ \A x \in DOMAIN f : x # l => g[x] = f[x]
  BY <1>1
<1> HIDE DEF g
<1>3. IsForest(g, places)
  BY <1>2 DEF IsForest
<1>4. PICK h : Heights(f, h)
  BY DEF IsTree
<1>5. h \in [DOMAIN f -> Nat] /\ \A x \in DOMAIN f : f[x] \in DOMAIN f => h[f[x]] < h[x]
  BY <1>4 DEF Heights
<1> DEFINE k == [x \in DOMAIN g |-> IF x \in above THEN h[x] ELSE h[x] + h[p] + 1]
<1>6. k \in [DOMAIN g -> Nat]
  BY <1>2, <1>5
<1>7. ASSUME NEW x \in DOMAIN g, g[x] \in DOMAIN g
      PROVE  k[g[x]] < k[x]
  <2>1. h[p] \in Nat /\ h[x] \in Nat /\ h[g[x]] \in Nat
    BY <1>2, <1>5, <1>7
  <2>2. CASE x = l
    BY <1>2, <1>7, <2>1, <2>2
  <2>3. ASSUME x # l PROVE k[g[x]] < k[x]
    <3>1. g[x] = f[x] /\ h[f[x]] < h[x]
      BY <1>2, <1>5, <1>7, <2>3
    <3> QED
      BY <1>2, <1>7, <2>1, <3>1
  <2> QED
    BY <2>2, <2>3
<1> HIDE DEF k
<1>8. IsTree(g)
  BY <1>6, <1>7 DEF Heights, IsTree
<1> QED
  BY <1>3, <1>8 DEF g

\* Locations that keep their parent or come to the top.
LEMMA CutKeepsTree ==
  ASSUME NEW f, NEW places, IsForest(f, places), IsTree(f),
         NEW g, g = [x \in DOMAIN g |-> g[x]], DOMAIN g \subseteq DOMAIN f,
         \A x \in DOMAIN g : g[x] = None \/ (g[x] = f[x] /\ f[x] \in DOMAIN g)
  PROVE  IsForest(g, places) /\ IsTree(g)
<1>1. IsForest(g, places)
  BY DEF IsForest
<1>2. PICK h : Heights(f, h)
  BY DEF IsTree
<1> DEFINE k == [x \in DOMAIN g |-> h[x]]
<1>3. Heights(g, k)
  BY <1>2, UpStays DEF Heights
<1> QED
  BY <1>1, <1>3 DEF IsTree

\* A file whose locations are on no cycle as long as hasCycle reads, put over a
\* tree, gives a tree.
LEMMA FileKeepsTree ==
  ASSUME NEW f, NEW places, IsTree(f), IsFiniteSet(places),
         NEW n \in Nat, Cardinality(places) <= n,
         NEW final, IsForest(final, places), NEW codes \in SUBSET DOMAIN final,
         \A x \in DOMAIN final : x \notin codes => x \in DOMAIN f /\ final[x] = f[x],
         \A c \in codes : ~ \E i \in 0..(n - 1) : Walk(final, final[c], n)[i] = c
  PROVE  IsTree(final)
<1> DEFINE Inside == DOMAIN final
<1>1. \A x \in Inside : final[x] \in Inside \union {None}
  BY DEF IsForest
<1>2. SUFFICES ASSUME NEW x \in Inside
               PROVE  \E m \in Nat : \E h : IsClimb(h, final, x, m) /\ h[m] \notin Inside
  BY EndsGiveTree
<1>3. PICK h : IsClimb(h, final, x, n) /\ h \in [0..n -> Inside \union {None}]
  BY ClimbExists
<1>4. SUFFICES ASSUME h[n] \in Inside PROVE FALSE
  BY <1>3
<1>5. h[0] = x /\ \A i \in 1..n : h[i] = Up(final, h[i - 1])
  BY <1>3 DEF IsClimb
<1>6. \A i \in 0..n : h[i] \in Inside
  <2>1. ASSUME NEW i \in 1..n, h[i - 1] \notin Inside
        PROVE  h[i] \notin Inside
    BY <1>5, <2>1, UpStays DEF Up
  <2>2. ASSUME NEW i \in 0..n, h[i] \notin Inside
        PROVE  FALSE
    <3> DEFINE Later == {j \in 0..(n - i) : h[i + j] \notin Inside}
    <3>1. 0 \in Later /\ n - i \in Nat
      BY <2>2
    <3>2. ASSUME NEW j \in 1..(n - i), j - 1 \in Later
          PROVE  j \in Later
      <4>1. i + j \in 1..n /\ (i + j) - 1 = i + (j - 1)
        OBVIOUS
      <4> QED
        BY <2>1, <3>2, <4>1
    <3> HIDE DEF Later
    <3>3. \A j \in 0..(n - i) : j \in Later
      BY <3>1, <3>2, Sums!UpTo
    <3>4. n - i \in Later
      BY <3>1, <3>3
    <3>5. i + (n - i) = n
      OBVIOUS
    <3> QED
      BY <1>4, <3>4, <3>5 DEF Later
  <2> QED
    BY <2>2
<1>7. PICK i \in 0..n : \E j \in 0..n : i < j /\ h[i] = h[j]
  <2>1. \A k \in 0..n : h[k] \in places
    BY <1>6 DEF IsForest
  <2> QED
    BY <2>1, ClimbRepeats
<1>8. PICK j \in 0..n : i < j /\ h[i] = h[j]
  BY <1>7
<1>9. CASE \E m \in i..(j - 1) : h[m] \in codes
  <2>1. PICK m \in i..(j - 1) : h[m] \in codes
    BY <1>9
  <2> DEFINE c == h[m]
             d == j - i
             around(k) == IF m + k <= j THEN m + k ELSE m + k - d
             w == Walk(final, final[c], n)
             g == [k \in 0..(d - 1) |-> h[around(k + 1)]]
  <2>2. d \in 1..n /\ m \in 0..n
    BY <1>8
  <2>3. \A k \in 0..d : around(k) \in 0..n
    BY <1>8, <2>2
  <2>4. ASSUME NEW k \in 0..(d - 1)
        PROVE  h[around(k + 1)] = Up(final, h[around(k)])
    <3>1. CASE m + k < j
      <4>1. around(k) = m + k /\ around(k + 1) = m + k + 1 /\ m + k + 1 \in 1..n
            /\ (m + k + 1) - 1 = m + k
        BY <3>1, <2>2
      <4> QED
        BY <1>5, <4>1
    <3>2. CASE m + k = j
      <4>1. around(k) = j /\ around(k + 1) = i + 1 /\ i + 1 \in 1..n /\ (i + 1) - 1 = i
        BY <3>2, <1>8
      <4> QED
        BY <1>5, <1>8, <4>1
    <3>3. CASE m + k > j
      <4>1. /\ around(k) = m + k - d /\ around(k + 1) = m + k - d + 1
            /\ m + k - d + 1 \in 1..n /\ (m + k - d + 1) - 1 = m + k - d
        BY <3>3, <1>8, <2>2
      <4> QED
        BY <1>5, <4>1
    <3> QED
      BY <3>1, <3>2, <3>3, <2>2
  <2>5. h[around(0)] = c /\ h[around(d)] = c
    <3>1. around(0) = m
      BY <2>2
    <3>2. CASE m = i
      BY <1>8, <3>1, <3>2
    <3>3. CASE m # i
      <4>1. m + d > j /\ m + d - d = m
        BY <3>3, <1>8
      <4> QED
        BY <3>1, <4>1
    <3> QED
      BY <3>1, <3>2, <3>3
  <2>6. final[c] \in Inside \union {None} /\ c \in Inside
    BY <1>1, <1>6, <2>2
  <2>7. IsClimb(w, final, final[c], n)
    BY <2>6, WalkClimbs
  <2> HIDE DEF around, w, d, c
  <2>8. IsClimb(g, final, final[c], d - 1)
    <3>1. g[0] = final[c]
      <4>1. 0 \in 0..(d - 1) /\ 0 + 1 = 1
        BY <2>2
      <4>2. g[0] = h[around(1)] /\ h[around(1)] = Up(final, h[around(0)])
        BY <2>4, <4>1
      <4> QED
        BY <2>5, <2>6, <4>2, UpStays
    <3>2. ASSUME NEW k \in 1..(d - 1)
          PROVE  g[k] = Up(final, g[k - 1])
      <4>1. k \in 0..(d - 1) /\ k - 1 \in 0..(d - 1) /\ (k - 1) + 1 = k
        BY <2>2
      <4>2. g[k] = h[around(k + 1)] /\ g[k - 1] = h[around(k)]
        BY <4>1
      <4> QED
        BY <2>4, <4>1, <4>2
    <3> HIDE DEF g
    <3> QED
      BY <3>1, <3>2 DEF IsClimb
  <2>9. g[d - 1] = c
    <3>1. d - 1 \in 0..(d - 1) /\ (d - 1) + 1 = d
      BY <2>2
    <3> QED
      BY <2>5, <3>1
  <2> HIDE DEF g
  <2>10. w[d - 1] = g[d - 1]
    <3>1. IsClimb(w, final, final[c], d - 1) /\ d - 1 \in Nat /\ d - 1 \in 0..(d - 1)
      <4>1. 1..(d - 1) \subseteq 1..n /\ d - 1 \in Nat
        BY <2>2
      <4> QED
        BY <2>7, <4>1 DEF IsClimb
    <3>2. \A q \in 0..(d - 1) : w[q] = g[q]
      BY ONLY <2>8, <3>1, SameClimb
    <3> QED
      BY <3>1, <3>2
  <2>11. d - 1 \in 0..(n - 1) /\ c \in codes
    BY <2>1, <2>2 DEF c
  <2> QED
    BY <2>9, <2>10, <2>11 DEF w
<1>10. CASE ~ \E m \in i..(j - 1) : h[m] \in codes
  <2>1. PICK k : Heights(f, k)
    BY DEF IsTree
  <2> DEFINE d == j - i
             Good == {m \in 0..d : h[i + m] \in DOMAIN f /\ (m # 0 => k[h[i + m]] < k[h[i]])}
  <2>2. \A m \in i..j : h[m] \in DOMAIN f /\ k[h[m]] \in Nat
    <3>1. \A m \in i..(j - 1) : h[m] \in DOMAIN f
      BY <1>6, <1>10
    <3>2. h[j] \in DOMAIN f
      BY <1>8, <3>1
    <3> QED
      BY <2>1, <3>1, <3>2 DEF Heights
  <2>3. \A m \in i..(j - 1) : k[h[m + 1]] < k[h[m]]
    <3> TAKE m \in i..(j - 1)
    <3>1. m \in 0..n /\ m + 1 \in 1..n /\ (m + 1) - 1 = m /\ m \in i..j /\ m + 1 \in i..j
      BY <1>8
    <3>2. h[m] \in Inside /\ h[m] \notin codes
      BY <1>6, <1>10, <3>1
    <3>3. h[m + 1] = f[h[m]]
      BY <1>5, <3>1, <3>2 DEF Up
    <3> QED
      BY <2>1, <2>2, <3>1, <3>3 DEF Heights
  <2>4. d \in Nat \ {0} /\ i + d = j
    BY <1>8
  <2>5. 0 \in Good
    BY <2>2, <2>4
  <2>6. ASSUME NEW m \in 1..d, m - 1 \in Good
        PROVE  m \in Good
    <3>1. i + m \in i..j /\ i + (m - 1) \in i..(j - 1) /\ (i + (m - 1)) + 1 = i + m /\ i \in i..j
          /\ i + (m - 1) \in i..j
      BY <2>4
    <3>2. k[h[i + m]] < k[h[i + (m - 1)]]
      BY <2>3, <3>1
    <3>3. k[h[i + m]] \in Nat /\ k[h[i + (m - 1)]] \in Nat /\ k[h[i]] \in Nat /\ h[i + m] \in DOMAIN f
      BY <2>2, <3>1
    <3>4. m - 1 # 0 => k[h[i + (m - 1)]] < k[h[i]]
      BY <2>6
    <3>5. k[h[i + m]] < k[h[i]]
      <4>1. CASE m - 1 = 0
        BY <3>2, <4>1
      <4>2. CASE m - 1 # 0
        BY <3>2, <3>3, <3>4, <4>2
      <4> QED
        BY <4>1, <4>2
    <3> QED
      BY <3>3, <3>5
  <2> HIDE DEF Good
  <2>7. d \in Good
    BY <2>4, <2>5, <2>6, Sums!UpTo
  <2>8. k[h[j]] < k[h[i]] /\ k[h[i]] \in Nat
    BY <1>8, <2>2, <2>4, <2>7 DEF Good
  <2> QED
    BY <1>8, <2>8
<1> QED
  BY <1>9, <1>10

-----------------------------------------------------------------------------
(* The rows of locations, of their stock, of requests and of transactions.  *)

Opened == {r \in requests : r.kind = "stock"}

\* Nothing is stored in a location that does not exist.
Held(places, n) ==
  /\ units \in [1..n -> [places -> Nat]]
  /\ \A l \in places : l \notin DOMAIN parent => \A p \in 1..n : units[p][l] = 0

StockRequests(places, n) ==
  [kind : {"stock"}, first : 1..n, locked : SUBSET (1..n), moved : [1..n -> [places -> Int]]]

\* Transactions move units of different products, that are there, between
\* locations that exist.
Apart(places, n) ==
  /\ \A t \in Opened : t \in StockRequests(places, n) /\ t.first \in t.locked
  /\ \A t, u \in Opened : \A p \in t.locked : p \in u.locked => t = u
  /\ \A t \in Opened, p \in 1..n, l \in places :
       /\ units[p][l] + t.moved[p][l] \in Nat
       /\ t.moved[p][l] # 0 => p \in t.locked /\ l \in DOMAIN parent

RequestRows(places, n) ==
  [kind : {"move"}, location : places, parent : places \union {None}]
    \union [kind : {"delete"}, location : places]
    \union StockRequests(places, n)

LocationRows(places, n) == IsForest(parent, places) /\ Held(places, n) /\ Apart(places, n)

\* What a request or a transaction does to the rows, in any of the parts.
Created(l, p) ==
  /\ l \notin DOMAIN parent /\ p \in DOMAIN parent \union {None}
  /\ parent' = [k \in DOMAIN parent \union {l} |-> IF k = l THEN p ELSE parent[k]]
  /\ units' = units /\ Opened' = Opened

MovedTo(l, p) ==
  /\ l \in DOMAIN parent /\ p \in DOMAIN parent \union {None}
  /\ parent' = [parent EXCEPT ![l] = p] /\ units' = units /\ Opened' = Opened

Deleted(n, l) ==
  /\ \A t \in Opened, p \in 1..n : t.moved[p][l] = 0
  /\ parent' = [k \in DOMAIN parent \ {l} |-> IF parent[k] = l THEN None ELSE parent[k]]
  /\ units' = [p \in 1..n |-> [units[p] EXCEPT ![l] = 0]]
  /\ Opened' = Opened

NewOne(places, n, p) ==
  [kind |-> "stock", first |-> p, locked |-> {},
   moved |-> [k \in 1..n |-> [l \in places |-> 0]]]

Longer(t, p, l, d) ==
  [kind |-> "stock", first |-> t.first, locked |-> t.locked \union {p},
   moved |-> [t.moved EXCEPT ![p][l] = @ + d]]

LineOf(places, n, t, p, l, d) ==
  /\ t \in Opened \/ t = NewOne(places, n, p)
  /\ \A u \in Opened \ {t} : p \notin u.locked
  /\ l \in DOMAIN parent /\ units[p][l] + t.moved[p][l] + d \in Nat
  /\ Opened' = (Opened \ {t}) \union {Longer(t, p, l, d)}
  /\ parent' = parent /\ units' = units

Committed(places, n, t) ==
  /\ t \in Opened /\ Opened' = Opened \ {t} /\ parent' = parent
  /\ units' = [p \in 1..n |-> [l \in places |-> units[p][l] + t.moved[p][l]]]

RowStep(places, n) ==
  \/ parent' = parent /\ units' = units /\ Opened' \subseteq Opened
  \/ \E l \in places : \E p : Created(l, p) \/ MovedTo(l, p)
  \/ \E l \in places : Deleted(n, l)
  \/ \E l \in places, p \in 1..n, d \in Int : \E t : LineOf(places, n, t, p, l, d)
  \/ \E t \in Opened : Committed(places, n, t)

\* A line adds to what its transaction has moved and locked, and to nothing else.
LEMMA LineGives ==
  ASSUME NEW places, NEW n \in Nat, Apart(places, n), Held(places, n),
         NEW p \in 1..n, NEW l \in places, NEW d \in Int, NEW t, LineOf(places, n, t, p, l, d)
  PROVE  /\ t \in StockRequests(places, n) /\ Longer(t, p, l, d) \in StockRequests(places, n)
         /\ Longer(t, p, l, d).first = t.first /\ Longer(t, p, l, d).locked = t.locked \union {p}
         /\ t.first \in t.locked \union {p}
         /\ \A k \in 1..n, m \in places :
              Longer(t, p, l, d).moved[k][m] = t.moved[k][m] + (IF k = p /\ m = l THEN d ELSE 0)
         /\ \A k \in 1..n, m \in places :
              units[k][m] + t.moved[k][m] \in Nat
              /\ (t.moved[k][m] # 0 => k \in t.locked /\ m \in DOMAIN parent)
<1>1. /\ t \in StockRequests(places, n) /\ t.first \in t.locked \union {p}
      /\ \A k \in 1..n, m \in places :
           units[k][m] + t.moved[k][m] \in Nat
           /\ (t.moved[k][m] # 0 => k \in t.locked /\ m \in DOMAIN parent)
  <2>1. CASE t \in Opened
    BY <2>1 DEF Apart
  <2>2. CASE t = NewOne(places, n, p)
    <3>1. /\ t.first = p /\ t \in StockRequests(places, n)
          /\ \A k \in 1..n, m \in places : t.moved[k][m] = 0
      BY <2>2 DEF NewOne, StockRequests
    <3>2. \A k \in 1..n, m \in places : units[k][m] \in Nat
      BY DEF Held
    <3> QED
      BY <3>1, <3>2
  <2> QED
    BY <2>1, <2>2 DEF LineOf
<1>2. /\ t = [kind |-> "stock", first |-> t.first, locked |-> t.locked, moved |-> t.moved]
      /\ t.first \in 1..n /\ t.locked \subseteq 1..n /\ t.moved \in [1..n -> [places -> Int]]
  BY <1>1 DEF StockRequests
<1> DEFINE gone == [t.moved EXCEPT ![p][l] = @ + d]
<1>3. /\ gone \in [1..n -> [places -> Int]]
      /\ \A k \in 1..n, m \in places :
           gone[k][m] = t.moved[k][m] + (IF k = p /\ m = l THEN d ELSE 0)
  BY <1>2
<1>4. Longer(t, p, l, d) = [kind |-> "stock", first |-> t.first, locked |-> t.locked \union {p},
                            moved |-> gone]
  BY DEF Longer
<1> HIDE DEF gone
<1>5. t.locked \union {p} \subseteq 1..n
  BY <1>2
<1>6. Longer(t, p, l, d) \in StockRequests(places, n)
  BY <1>2, <1>3, <1>4, <1>5 DEF StockRequests
<1>7. /\ Longer(t, p, l, d).first = t.first /\ Longer(t, p, l, d).locked = t.locked \union {p}
      /\ Longer(t, p, l, d).moved = gone
  BY <1>4
<1> QED
  BY <1>1, <1>3, <1>6, <1>7

LEMMA LinesStay ==
  ASSUME NEW places, NEW n \in Nat, Apart(places, n), Held(places, n),
         NEW p \in 1..n, NEW l \in places, NEW d \in Int, NEW t, LineOf(places, n, t, p, l, d)
  PROVE  Apart(places, n)' /\ Held(places, n)'
<1> DEFINE u == Longer(t, p, l, d)
<1>1. /\ t \in StockRequests(places, n) /\ u \in StockRequests(places, n)
      /\ u.first = t.first /\ u.locked = t.locked \union {p} /\ t.first \in t.locked \union {p}
      /\ \A k \in 1..n, m \in places :
           u.moved[k][m] = t.moved[k][m] + (IF k = p /\ m = l THEN d ELSE 0)
      /\ \A k \in 1..n, m \in places :
           units[k][m] + t.moved[k][m] \in Nat
           /\ (t.moved[k][m] # 0 => k \in t.locked /\ m \in DOMAIN parent)
  BY SMTT(30), LineGives DEF u
<1>2. /\ t \in Opened \/ t = NewOne(places, n, p)
      /\ \A v \in Opened \ {t} : p \notin v.locked
      /\ l \in DOMAIN parent /\ units[p][l] + t.moved[p][l] + d \in Nat
      /\ Opened' = (Opened \ {t}) \union {u} /\ parent' = parent /\ units' = units
  BY DEF LineOf
<1>3. \A k \in 1..n, m \in places : t.moved[k][m] \in Int /\ units[k][m] \in Nat
  <2>1. t.moved \in [1..n -> [places -> Int]] /\ units \in [1..n -> [places -> Nat]]
    BY <1>1 DEF StockRequests, Held
  <2> QED
    BY ONLY <2>1
<1> HIDE DEF u
<1>4. \A k \in 1..n, m \in places :
        /\ units[k][m] + u.moved[k][m] \in Nat
        /\ u.moved[k][m] # 0 => k \in u.locked /\ m \in DOMAIN parent
  <2> TAKE k \in 1..n, m \in places
  <2>1. CASE k = p /\ m = l
    BY <1>1, <1>2, <1>3, <2>1
  <2>2. CASE ~(k = p /\ m = l)
    <3>1. u.moved[k][m] = t.moved[k][m]
      BY <1>1, <1>3, <2>2
    <3> QED
      BY <1>1, <3>1
  <2> QED
    BY <2>1, <2>2
<1>5. \A v \in Opened \ {t} : \A k \in u.locked : k \notin v.locked
  <2>1. ASSUME NEW v \in Opened \ {t}, NEW k \in t.locked PROVE k \notin v.locked
    <3>1. CASE t \in Opened
      BY <2>1, <3>1 DEF Apart
    <3>2. CASE t = NewOne(places, n, p)
      BY <2>1, <3>2 DEF NewOne
    <3> QED
      BY <1>2, <3>1, <3>2
  <2> QED
    BY <1>1, <1>2, <2>1
<1>6. \A v, w \in Opened' : \A k \in v.locked : k \in w.locked => v = w
  BY <1>2, <1>5 DEF Apart
<1>7. \A v \in Opened' : v \in StockRequests(places, n) /\ v.first \in v.locked
  BY <1>1, <1>2 DEF Apart
<1>8. \A v \in Opened', k \in 1..n, m \in places :
        /\ units[k][m] + v.moved[k][m] \in Nat
        /\ v.moved[k][m] # 0 => k \in v.locked /\ m \in DOMAIN parent
  BY <1>2, <1>4 DEF Apart
<1>9. StockRequests(places, n)' = StockRequests(places, n)
  BY DEF StockRequests
<1>10. Apart(places, n)'
  BY <1>2, <1>6, <1>7, <1>8, <1>9 DEF Apart
<1> QED
  BY <1>2, <1>10 DEF Held

\* A commit gives every row what the transaction moved there, and other
\* transactions have moved nothing of its products.
LEMMA CommitStays ==
  ASSUME NEW places, NEW n \in Nat, Apart(places, n), Held(places, n),
         NEW t \in Opened, Committed(places, n, t)
  PROVE  Apart(places, n)' /\ Held(places, n)'
<1>1. /\ Opened' = Opened \ {t} /\ parent' = parent
      /\ units' = [p \in 1..n |-> [l \in places |-> units[p][l] + t.moved[p][l]]]
  BY DEF Committed
<1>2. \A p \in 1..n, l \in places :
        /\ units'[p][l] = units[p][l] + t.moved[p][l] /\ units'[p][l] \in Nat
        /\ t.moved[p][l] # 0 => p \in t.locked /\ l \in DOMAIN parent
        /\ units[p][l] \in Nat /\ t.moved[p][l] \in Int
  BY <1>1 DEF Apart, Held, StockRequests
<1>3. Held(places, n)'
  <2>1. units' \in [1..n -> [places -> Nat]]
    BY <1>1, <1>2
  <2>2. \A l \in places : l \notin DOMAIN parent => \A p \in 1..n : units'[p][l] = 0
    BY <1>2 DEF Held
  <2> QED
    BY <1>1, <2>1, <2>2 DEF Held
<1>4. ASSUME NEW u \in Opened \ {t}, NEW p \in 1..n, NEW l \in places
      PROVE  units'[p][l] + u.moved[p][l] \in Nat
  <2>1. /\ units[p][l] + u.moved[p][l] \in Nat /\ u.moved[p][l] \in Int
        /\ u.moved[p][l] # 0 => p \in u.locked
    BY DEF Apart, StockRequests
  <2>2. CASE u.moved[p][l] = 0
    BY <1>2, <2>2
  <2>3. CASE u.moved[p][l] # 0
    <3>1. p \notin t.locked
      BY <2>1, <2>3 DEF Apart
    <3> QED
      BY <1>2, <2>1, <3>1
  <2> QED
    BY <2>2, <2>3
<1>5. StockRequests(places, n)' = StockRequests(places, n)
  BY DEF StockRequests
<1>6. Apart(places, n)'
  BY <1>1, <1>4, <1>5 DEF Apart
<1> QED
  BY <1>3, <1>6

LEMMA DeleteStays ==
  ASSUME NEW places, NEW n \in Nat, LocationRows(places, n), NEW l \in places, Deleted(n, l)
  PROVE  LocationRows(places, n)'
<1>1. /\ parent = [k \in DOMAIN parent |-> parent[k]] /\ DOMAIN parent \subseteq places
      /\ \A k \in DOMAIN parent : parent[k] \in DOMAIN parent \union {None}
      /\ units \in [1..n -> [places -> Nat]]
      /\ \A m \in places : m \notin DOMAIN parent => \A p \in 1..n : units[p][m] = 0
  BY DEF LocationRows, IsForest, Held
<1>2. /\ DOMAIN parent' = DOMAIN parent \ {l}
      /\ \A k \in DOMAIN parent' : parent'[k] = IF parent[k] = l THEN None ELSE parent[k]
      /\ parent' = [k \in DOMAIN parent' |-> parent'[k]]
      /\ Opened' = Opened /\ \A t \in Opened, p \in 1..n : t.moved[p][l] = 0
  BY DEF Deleted
<1>3. IsForest(parent, places)'
  BY <1>1, <1>2 DEF IsForest, LocationRows
<1>4. ASSUME NEW p \in 1..n
      PROVE  /\ units'[p] = [m \in places |-> IF m = l THEN 0 ELSE units[p][m]]
             /\ units'[p] \in [places -> Nat]
  <2>1. units[p] \in [places -> Nat]
    BY <1>1
  <2>2. units'[p] = [m \in places |-> IF m = l THEN 0 ELSE units[p][m]]
    BY <2>1 DEF Deleted
  <2> QED
    BY <2>1, <2>2
<1>5. units' \in [1..n -> [places -> Nat]]
  BY <1>4 DEF Deleted
<1>6. \A p \in 1..n, m \in places : units'[p][m] = IF m = l THEN 0 ELSE units[p][m]
  BY <1>4
<1>7. \A m \in places, p \in 1..n : m \notin DOMAIN parent' => units'[p][m] = 0
  BY <1>1, <1>2, <1>6
<1>8. \A t \in Opened, p \in 1..n, m \in places :
        /\ units'[p][m] + t.moved[p][m] \in Nat
        /\ t.moved[p][m] # 0 => p \in t.locked /\ m \in DOMAIN parent'
  <2> TAKE t \in Opened, p \in 1..n, m \in places
  <2>1. /\ units[p][m] + t.moved[p][m] \in Nat
        /\ t.moved[p][m] # 0 => p \in t.locked /\ m \in DOMAIN parent
    BY DEF LocationRows, Apart
  <2>2. t.moved[p][l] = 0
    BY <1>2
  <2> QED
    BY <1>2, <1>6, <2>1, <2>2
<1>9. StockRequests(places, n)' = StockRequests(places, n)
  BY DEF StockRequests
<1>10. Apart(places, n)'
  BY <1>2, <1>8, <1>9 DEF LocationRows, Apart
<1> QED
  BY <1>3, <1>5, <1>7, <1>10 DEF LocationRows, Held

LEMMA RowsStay ==
  ASSUME NEW places, None \notin places, NEW n \in Nat, LocationRows(places, n), RowStep(places, n)
  PROVE  LocationRows(places, n)'
<1>1. /\ parent = [l \in DOMAIN parent |-> parent[l]] /\ DOMAIN parent \subseteq places
      /\ \A l \in DOMAIN parent : parent[l] \in DOMAIN parent \union {None}
      /\ Held(places, n) /\ Apart(places, n)
      /\ StockRequests(places, n)' = StockRequests(places, n)
  BY DEF LocationRows, IsForest, StockRequests
<1>2. ASSUME units' = units, Opened' \subseteq Opened, DOMAIN parent \subseteq DOMAIN parent'
      PROVE  Held(places, n)' /\ Apart(places, n)'
  <2>1. Held(places, n)'
    BY <1>1, <1>2 DEF Held
  <2>2. Apart(places, n)'
    BY <1>1, <1>2 DEF Apart
  <2> QED
    BY <2>1, <2>2
<1>3. CASE parent' = parent /\ units' = units /\ Opened' \subseteq Opened
  BY <1>1, <1>2, <1>3 DEF LocationRows, IsForest
<1>4. ASSUME NEW l \in places, NEW p, Created(l, p)
      PROVE  LocationRows(places, n)'
  <2>1. /\ DOMAIN parent' = DOMAIN parent \union {l} /\ parent'[l] = p
        /\ \A k \in DOMAIN parent : parent'[k] = parent[k]
        /\ parent' = [k \in DOMAIN parent' |-> parent'[k]] /\ units' = units
        /\ p \in DOMAIN parent \union {None} /\ Opened' = Opened
    BY <1>4 DEF Created
  <2> QED
    BY <1>1, <1>2, <2>1 DEF LocationRows, IsForest
<1>5. ASSUME NEW l \in places, NEW p, MovedTo(l, p)
      PROVE  LocationRows(places, n)'
  <2>1. /\ DOMAIN parent' = DOMAIN parent /\ parent'[l] = p
        /\ \A k \in DOMAIN parent : k # l => parent'[k] = parent[k]
        /\ parent' = [k \in DOMAIN parent' |-> parent'[k]] /\ units' = units
        /\ p \in DOMAIN parent \union {None} /\ Opened' = Opened
    BY <1>1, <1>5 DEF MovedTo
  <2> QED
    BY <1>1, <1>2, <2>1 DEF LocationRows, IsForest
<1>6. ASSUME NEW l \in places, NEW p \in 1..n, NEW d \in Int, NEW t, LineOf(places, n, t, p, l, d)
      PROVE  LocationRows(places, n)'
  <2>1. Held(places, n)' /\ Apart(places, n)'
    BY <1>1, <1>6, LinesStay
  <2> QED
    BY <1>6, <2>1 DEF LocationRows, IsForest, LineOf
<1>7. ASSUME NEW t \in Opened, Committed(places, n, t)
      PROVE  LocationRows(places, n)'
  <2>1. Held(places, n)' /\ Apart(places, n)'
    BY <1>1, <1>7, CommitStays
  <2> QED
    BY <1>7, <2>1 DEF LocationRows, IsForest, Committed
<1> QED
  BY <1>3, <1>4, <1>5, <1>6, <1>7, DeleteStays DEF RowStep

\* Nothing in a location that does not exist, in the words of the properties.
LEMMA NothingHeld ==
  ASSUME NEW places, NEW n \in Nat, Held(places, n), NEW l \in places, l \notin DOMAIN parent
  PROVE  Sums!Total([p \in 1..n |-> units[p][l]], n) = 0
<1> DEFINE f == [p \in 1..n |-> units[p][l]]
<1>1. \A p \in 1..n : f[p] = 0
  BY DEF Held
<1> HIDE DEF f
<1>2. Sums!Total(f, n) = 0
  BY <1>1, Sums!TotalAllZero
<1> QED
  BY <1>2 DEF f

\* Requests and writes, in the words of any of the parts: they say the same of
\* these variables.
LEMMA RequestSteps ==
  ASSUME NEW places, None \notin places, NEW n \in Nat, LocationRows(places, n)
  PROVE  /\ \A l \in places, p \in places \union {None} : L!Create(l, p) => RowStep(places, n)
         /\ \A r \in RequestRows(places, n) :
              L!WriteMove(r) \/ (r.kind = "delete" /\ Deleted(n, r.location)) => RowStep(places, n)
<1>1. /\ DOMAIN parent \subseteq places /\ L!Existing = DOMAIN parent
  BY DEF LocationRows, IsForest, L!Existing
<1>2. ASSUME NEW l \in places, NEW p \in places \union {None}, L!Create(l, p)
      PROVE  RowStep(places, n)
  BY <1>1, <1>2 DEF L!Create, RowStep, Created, Opened
<1>3. ASSUME NEW r \in RequestRows(places, n), L!WriteMove(r)
      PROVE  RowStep(places, n)
  <2>1. r.location \in places /\ r.kind = "move" /\ requests' = requests \ {r}
    BY <1>3 DEF L!WriteMove, RequestRows, StockRequests
  <2>2. Opened' = Opened
    BY <2>1 DEF Opened
  <2>3. \/ parent' = parent /\ units' = units
        \/ MovedTo(r.location, r.parent)
    BY <1>1, <1>3, <2>2 DEF L!WriteMove, L!StillThere, MovedTo
  <2> QED
    BY <2>1, <2>2, <2>3 DEF RowStep
<1>4. ASSUME NEW r \in RequestRows(places, n), r.kind = "delete", Deleted(n, r.location)
      PROVE  RowStep(places, n)
  BY <1>4 DEF RequestRows, StockRequests, RowStep
<1> QED
  BY <1>2, <1>3, <1>4

\* What a line needs in any of the parts to be one of these rows.
LEMMA LineSteps ==
  ASSUME NEW places, NEW n \in Nat, LocationRows(places, n),
         requests \subseteq RequestRows(places, n),
         NEW p \in 1..n, NEW l \in places, NEW d \in Int, NEW t,
         t \in Opened \/ t = NewOne(places, n, p),
         \A u \in Opened \ {t} : p \notin u.locked,
         l \in DOMAIN parent, units[p][l] + t.moved[p][l] + d \in Nat,
         requests' = (requests \ {t}) \union {Longer(t, p, l, d)},
         parent' = parent, units' = units
  PROVE  /\ LineOf(places, n, t, p, l, d) /\ RowStep(places, n)
         /\ requests' \subseteq RequestRows(places, n)
<1>1. Longer(t, p, l, d).kind = "stock"
  BY DEF Longer
<1>2. Opened' = (Opened \ {t}) \union {Longer(t, p, l, d)}
  BY <1>1 DEF Opened
<1>3. LineOf(places, n, t, p, l, d)
  BY <1>2 DEF LineOf
<1>4. Longer(t, p, l, d) \in StockRequests(places, n)
  BY <1>3, LineGives DEF LocationRows
<1>5. requests' \subseteq RequestRows(places, n)
  BY <1>4 DEF RequestRows
<1> QED
  BY <1>3, <1>5 DEF RowStep

-----------------------------------------------------------------------------
(* Transactions beside moves and deletions. *)

PlacesInv == LocationRows(Places, SomeProducts) /\ requests \subseteq RequestRows(Places, SomeProducts)

\* A line of a transaction of these products.
LEMMA PlacesLine ==
  ASSUME SomeProducts \in Nat, PlacesInv, NEW p \in 1..SomeProducts, NEW l \in Places,
         NEW t, t \in Opened \/ t = L!Started(p), NEW q \in Nat,
         L!PutAway(t, p, l, q) \/ L!TakeFromLocation(t, p, l, q)
  PROVE  /\ RowStep(Places, SomeProducts) /\ requests' \subseteq RequestRows(Places, SomeProducts)
         /\ L!PutAway(t, p, l, q) => LineOf(Places, SomeProducts, t, p, l, q)
         /\ L!TakeFromLocation(t, p, l, q) => LineOf(Places, SomeProducts, t, p, l, -q)
<1>1. /\ L!Product = 1..SomeProducts /\ L!Existing = DOMAIN parent /\ L!Open = Opened
      /\ L!Started(p) = NewOne(Places, SomeProducts, p)
      /\ LocationRows(Places, SomeProducts) /\ requests \subseteq RequestRows(Places, SomeProducts)
  BY DEF L!Product, L!Existing, L!Open, Opened, L!Started, NewOne, PlacesInv
<1>2. units[p][l] + t.moved[p][l] \in Nat
  <2>1. CASE t \in Opened
    BY <1>1, <2>1 DEF LocationRows, Apart
  <2>2. CASE t = NewOne(Places, SomeProducts, p)
    <3>1. t.moved[p][l] = 0
      BY <2>2 DEF NewOne
    <3> QED
      BY <1>1, <3>1 DEF LocationRows, Held
  <2> QED
    BY <1>1, <2>1, <2>2
<1>3. units[p][l] \in Nat /\ t.moved[p][l] \in Int
  <2>1. CASE t \in Opened
    BY <1>1, <2>1 DEF LocationRows, Apart, Held, StockRequests
  <2>2. CASE t = NewOne(Places, SomeProducts, p)
    BY <1>1, <2>2 DEF LocationRows, Held, NewOne
  <2> QED
    BY <1>1, <2>1, <2>2
<1>4. ASSUME NEW d \in Int, L!Line(t, p, l, d), l \in DOMAIN parent,
             units[p][l] + t.moved[p][l] + d \in Nat
      PROVE  /\ LineOf(Places, SomeProducts, t, p, l, d) /\ RowStep(Places, SomeProducts)
             /\ requests' \subseteq RequestRows(Places, SomeProducts)
  <2>1. /\ t \in Opened \/ t = NewOne(Places, SomeProducts, p)
        /\ \A u \in Opened \ {t} : p \notin u.locked
        /\ requests' = (requests \ {t}) \union {Longer(t, p, l, d)}
        /\ parent' = parent /\ units' = units
    BY <1>1, <1>4 DEF L!Line, L!Lockable, Longer
  <2> QED
    BY <1>1, <1>4, <2>1, LineSteps
<1>5. L!PutAway(t, p, l, q) => L!Line(t, p, l, q) /\ l \in DOMAIN parent
                               /\ units[p][l] + t.moved[p][l] + q \in Nat
  BY <1>1, <1>2, <1>3 DEF L!PutAway
<1>6. L!TakeFromLocation(t, p, l, q) => L!Line(t, p, l, -q) /\ l \in DOMAIN parent
                               /\ units[p][l] + t.moved[p][l] + (-q) \in Nat
  BY <1>1, <1>2, <1>3 DEF L!TakeFromLocation
<1> QED
  BY <1>4, <1>5, <1>6

LEMMA PlacesStep ==
  ASSUME LocationsAssumption, PlacesInv, L!Next
  PROVE  PlacesInv'
<1> DEFINE n == SomeProducts
           Goal == RowStep(Places, n) /\ requests' \subseteq RequestRows(Places, n)
<1>1. /\ n \in Nat /\ None \notin Places /\ SomeUnits \in Nat /\ L!Product = 1..n
      /\ LocationRows(Places, n) /\ requests \subseteq RequestRows(Places, n)
      /\ L!Open = Opened
  BY DEF LocationsAssumption, L!LocationsAssumption, PlacesInv, L!Product, L!Open, Opened
<1> HIDE DEF n
<1>2. ASSUME NEW l \in Places, NEW p \in Places \union {None}, L!CheckMove(l, p)
      PROVE  Goal
  BY <1>1, <1>2 DEF L!CheckMove, L!Asked, RowStep, RequestRows, Opened
<1>3. ASSUME NEW l \in Places, L!CheckDelete(l)
      PROVE  Goal
  BY <1>1, <1>3 DEF L!CheckDelete, L!Asked, RowStep, RequestRows, Opened
<1>4. ASSUME NEW l \in Places, NEW p \in Places \union {None}, L!Create(l, p)
      PROVE  Goal
  BY <1>1, <1>4, RequestSteps DEF L!Create
<1>5. ASSUME NEW p \in L!Product, NEW t, t \in L!Open \/ t = L!Started(p), L!MoveUnits(t, p)
      PROVE  Goal
  <2>1. PICK l \in Places, q \in 1..SomeUnits :
          L!PutAway(t, p, l, q) \/ L!TakeFromLocation(t, p, l, q)
    BY <1>5 DEF L!MoveUnits
  <2>2. q \in Nat /\ p \in 1..SomeProducts /\ SomeProducts \in Nat
    BY <1>1 DEF n
  <2> QED
    BY <1>1, <1>5, <2>1, <2>2, PlacesLine DEF n
<1>6. ASSUME NEW r \in requests, L!WriteMove(r) \/ L!WriteDelete(r)
      PROVE  Goal
  <2>1. L!WriteDelete(r) => r.kind = "delete" /\ Deleted(n, r.location)
    BY <1>1 DEF L!WriteDelete, Deleted, L!Existing, L!Referred, Opened
  <2>2. requests' \subseteq requests
    BY <1>6 DEF L!WriteMove, L!WriteDelete
  <2> QED
    BY <1>1, <1>6, <2>1, <2>2, RequestSteps
<1>7. ASSUME NEW t \in requests, L!Commit(t) \/ L!Rollback(t)
      PROVE  Goal
  <2>1. t \in Opened /\ requests' = requests \ {t} /\ Opened' = Opened \ {t} /\ parent' = parent
    BY <1>7 DEF L!Commit, L!Rollback, Opened
  <2>2. L!Commit(t) => Committed(Places, n, t)
    BY <1>1, <2>1 DEF L!Commit, Committed
  <2> QED
    BY <1>1, <1>7, <2>1, <2>2 DEF L!Rollback, RowStep
<1>8. Goal
  <2>1. CASE L!Change
    BY <1>2, <1>3, <1>4, <1>5, <2>1 DEF L!Change
  <2>2. CASE L!Write
    BY <1>5, <1>6, <1>7, <2>2 DEF L!Write
  <2> QED
    BY <2>1, <2>2 DEF L!Next
<1>9. LocationRows(Places, n)'
  BY <1>1, <1>8, RowsStay
<1>10. RequestRows(Places, n)' = RequestRows(Places, n)
  BY DEF RequestRows, StockRequests
<1> QED
  BY <1>8, <1>9, <1>10 DEF PlacesInv, n

LEMMA PlacesGive == LocationsAssumption /\ PlacesInv => L!LocationsTypeOK
<1> SUFFICES ASSUME LocationsAssumption, PlacesInv PROVE L!LocationsTypeOK
  OBVIOUS
<1>1. /\ SomeProducts \in Nat /\ Held(Places, SomeProducts) /\ IsForest(parent, Places)
  BY DEF LocationsAssumption, L!LocationsAssumption, PlacesInv, LocationRows
<1>2. \A l : L!Used(l) = Sums!Total([p \in 1..SomeProducts |-> units[p][l]], SomeProducts)
  BY DEF L!Used, L!Sum, L!Total, Sums!Total, L!Product
<1> QED
  BY <1>1, <1>2, NothingHeld DEF L!LocationsTypeOK, L!Existing, L!Product, Held, IsForest

-----------------------------------------------------------------------------
(* Capacity.  A transaction weighs on a location what it has put there, if   *)
(* anything, and is known by the product of its first line: there are no     *)
(* more of them than products, and each weighs at most the capacity.         *)

InPlace(n, l) == Sums!Total([p \in 1..n |-> units[p][l]], n)
OwnIn(t, n, l) == Sums!Total([p \in 1..n |-> t.moved[p][l]], n)

Weight(open, n, l, k) ==
  IF \E t \in open : t.first = k /\ OwnIn(t, n, l) > 0
  THEN OwnIn(CHOOSE t \in open : t.first = k, n, l) ELSE 0

Weights(open, n, l) == Sums!Total([k \in 1..n |-> Weight(open, n, l, k)], n)

\* Transactions of different first products that see what fits a location.
Fitting(open, places, n, room) ==
  /\ n \in Nat /\ room \in Nat
  /\ \A t \in open : t \in StockRequests(places, n) /\ \A l \in places : OwnIn(t, n, l) <= room
  /\ \A t, u \in open : t.first = u.first => t = u

LEMMA OwnTyped ==
  ASSUME NEW n \in Nat, NEW places, NEW t \in StockRequests(places, n), NEW l \in places
  PROVE  OwnIn(t, n, l) \in Int
<1> DEFINE f == [p \in 1..n |-> t.moved[p][l]]
<1>1. \A p \in 1..n : f[p] \in Int
  BY DEF StockRequests
<1> HIDE DEF f
<1>2. Sums!Total(f, n) \in Int
  BY <1>1, Sums!TotalInt, 0 \in Nat
<1> QED
  BY <1>2 DEF OwnIn, f

LEMMA WeightOf ==
  ASSUME NEW n, NEW places, NEW room, NEW open, Fitting(open, places, n, room),
         NEW l \in places
  PROVE  /\ \A t \in open : Weight(open, n, l, t.first) = Sums!Greatest(OwnIn(t, n, l), 0)
         /\ \A k : (\A t \in open : t.first # k) => Weight(open, n, l, k) = 0
         /\ \A k : Weight(open, n, l, k) \in Nat /\ Weight(open, n, l, k) <= room
<1>1. /\ n \in Nat /\ room \in Nat
      /\ \A t \in open : OwnIn(t, n, l) \in Int /\ OwnIn(t, n, l) <= room
  BY OwnTyped DEF Fitting
<1>2. ASSUME NEW t \in open
      PROVE  Weight(open, n, l, t.first) = Sums!Greatest(OwnIn(t, n, l), 0)
  <2>1. (CHOOSE u \in open : u.first = t.first) = t
    BY DEF Fitting
  <2>2. \A u \in open : u.first = t.first => u = t
    BY DEF Fitting
  <2> QED
    BY <1>1, <2>1, <2>2 DEF Weight, Sums!Greatest
<1>3. \A k : (\A t \in open : t.first # k) => Weight(open, n, l, k) = 0
  BY DEF Weight
<1>4. ASSUME NEW k
      PROVE  Weight(open, n, l, k) \in Nat /\ Weight(open, n, l, k) <= room
  <2>1. CASE \A t \in open : t.first # k
    BY <1>1, <1>3, <2>1
  <2>2. ASSUME NEW t \in open, t.first = k
        PROVE  Weight(open, n, l, k) \in Nat /\ Weight(open, n, l, k) <= room
    BY <1>1, <1>2, <2>2 DEF Sums!Greatest
  <2> QED
    BY <2>1, <2>2
<1> QED
  BY <1>2, <1>3, <1>4

LEMMA WeightOfOne ==
  ASSUME NEW n, NEW places, NEW room, NEW open, Fitting(open, places, n, room),
         NEW l \in places, NEW t \in open
  PROVE  Weight(open, n, l, t.first) = Sums!Greatest(OwnIn(t, n, l), 0)
BY WeightOf

LEMMA WeightOfNone ==
  ASSUME NEW n, NEW places, NEW room, NEW open, Fitting(open, places, n, room),
         NEW l \in places, NEW k, \A t \in open : t.first # k
  PROVE  Weight(open, n, l, k) = 0
BY WeightOf

\* Rows that change in one place, and rows of which one is not counted.
LEMMA RowsButOne ==
  ASSUME NEW n \in Nat, NEW f, NEW g, NEW k \in 1..n, NEW most \in Nat,
         \A i \in 1..n : f[i] \in Nat /\ g[i] \in Nat /\ f[i] <= most,
         \A i \in 1..n : i # k => g[i] = f[i]
  PROVE  /\ Sums!Total(f, n) \in Nat /\ Sums!Total(g, n) \in Nat
         /\ Sums!Total(g, n) = Sums!Total(f, n) + (g[k] - f[k])
         /\ Sums!Total(g, n) <= g[k] + (n - 1) * most
<1> DEFINE h == [i \in 1..n |-> IF i = k THEN 0 ELSE f[i]]
<1>1. Sums!Total(f, n) \in Nat /\ Sums!Total(g, n) \in Nat
  BY Sums!TotalNat, 0 \in Nat
<1>2. Sums!Total(g, n) = Sums!Total(f, n) + (g[k] - f[k])
  BY Sums!TotalOneRow, 0 \in Nat
<1>3. /\ \A i \in 1..n : h[i] \in Nat /\ h[i] <= most /\ h[k] = 0
      /\ \A i \in 1..n : i # k => g[i] = h[i]
      /\ \A i \in 1..n : h[i] \in Int /\ g[i] \in Int
  OBVIOUS
<1> HIDE DEF h
<1>4. Sums!Total(h, n) <= (n - 1) * most
  BY <1>3, Sums!TotalAtMost, 0 \in Nat
<1>5. Sums!Total(g, n) = Sums!Total(h, n) + (g[k] - h[k])
  BY <1>3, Sums!TotalOneRow, 0 \in Nat
<1>6. Sums!Total(h, n) \in Nat
  BY <1>3, Sums!TotalNat, 0 \in Nat
<1>7. (n - 1) * most \in Int /\ g[k] \in Nat /\ h[k] = 0
  BY <1>3
<1>8. Sums!Total(g, n) <= g[k] + (n - 1) * most
  BY <1>4, <1>5, <1>6, <1>7
<1> QED
  BY <1>1, <1>2, <1>8

\* The same transactions, but for those of one first product.
SameButFirst(open, next, k) ==
  /\ \A t \in open : t.first # k => t \in next
  /\ \A t \in next : t.first # k => t \in open

\* What replacing a transaction by one of the same first product changes.
LEMMA WeightsChange ==
  ASSUME NEW n, NEW places, NEW room, NEW open, NEW next,
         Fitting(open, places, n, room), Fitting(next, places, n, room),
         NEW l \in places, NEW k \in 1..n, SameButFirst(open, next, k)
  PROVE  /\ Weights(open, n, l) \in Nat /\ Weights(next, n, l) \in Nat
         /\ Weights(next, n, l)
              = Weights(open, n, l) + (Weight(next, n, l, k) - Weight(open, n, l, k))
         /\ Weights(next, n, l) <= Weight(next, n, l, k) + (n - 1) * room
<1> DEFINE f == [i \in 1..n |-> Weight(open, n, l, i)]
           g == [i \in 1..n |-> Weight(next, n, l, i)]
<1>0. n \in Nat /\ room \in Nat
  BY DEF Fitting
<1>1. /\ \A t \in open : Weight(open, n, l, t.first) = Sums!Greatest(OwnIn(t, n, l), 0)
      /\ \A i : (\A t \in open : t.first # i) => Weight(open, n, l, i) = 0
      /\ \A i : Weight(open, n, l, i) \in Nat /\ Weight(open, n, l, i) <= room
  BY WeightOf
<1>2. /\ \A t \in next : Weight(next, n, l, t.first) = Sums!Greatest(OwnIn(t, n, l), 0)
      /\ \A i : (\A t \in next : t.first # i) => Weight(next, n, l, i) = 0
      /\ \A i : Weight(next, n, l, i) \in Nat
  BY WeightOf
<1>3. ASSUME NEW i \in 1..n, i # k
      PROVE  Weight(next, n, l, i) = Weight(open, n, l, i)
  <2>1. CASE \A t \in open : t.first # i
    <3>1. \A t \in next : t.first # i
      BY <1>3, <2>1 DEF SameButFirst
    <3> QED
      BY <1>1, <1>2, <2>1, <3>1
  <2>2. ASSUME NEW t \in open, t.first = i
        PROVE  Weight(next, n, l, i) = Weight(open, n, l, i)
    <3>1. t \in next
      BY <1>3, <2>2 DEF SameButFirst
    <3>2. /\ Weight(next, n, l, i) = Sums!Greatest(OwnIn(t, n, l), 0)
          /\ Weight(open, n, l, i) = Sums!Greatest(OwnIn(t, n, l), 0)
      BY <1>1, <1>2, <2>2, <3>1
    <3> QED
      BY <3>2
  <2> QED
    BY <2>1, <2>2
<1>4. /\ \A i \in 1..n : f[i] \in Nat /\ g[i] \in Nat /\ f[i] <= room
      /\ \A i \in 1..n : i # k => g[i] = f[i]
      /\ g[k] = Weight(next, n, l, k) /\ f[k] = Weight(open, n, l, k)
  BY <1>1, <1>2, <1>3
<1>5. Weights(open, n, l) = Sums!Total(f, n) /\ Weights(next, n, l) = Sums!Total(g, n)
  BY DEF Weights
<1> HIDE DEF f, g
<1>6. /\ Sums!Total(f, n) \in Nat /\ Sums!Total(g, n) \in Nat
      /\ Sums!Total(g, n) = Sums!Total(f, n) + (g[k] - f[k])
      /\ Sums!Total(g, n) <= g[k] + (n - 1) * room
  BY <1>0, <1>4, RowsButOne
<1> QED
  BY <1>4, <1>5, <1>6

\* What a longer transaction changes, or a new one that has nothing yet.
LEMMA WeightsLonger ==
  ASSUME NEW n, NEW places, NEW room, NEW open, NEW next,
         Fitting(open, places, n, room), Fitting(next, places, n, room),
         NEW t \in StockRequests(places, n), NEW u \in next, u.first = t.first,
         SameButFirst(open, next, t.first), NEW l \in places,
         t \in open \/ (OwnIn(t, n, l) = 0 /\ \A v \in open : v.first # t.first)
  PROVE  /\ Weights(open, n, l) \in Nat /\ Weights(next, n, l) \in Nat
         /\ OwnIn(u, n, l) <= OwnIn(t, n, l) \/ OwnIn(u, n, l) <= 0
              => Weights(next, n, l) <= Weights(open, n, l)
         /\ OwnIn(u, n, l) > 0 => Weights(next, n, l) <= OwnIn(u, n, l) + (n - 1) * room
<1>1. /\ u \in StockRequests(places, n) /\ t.first \in 1..n /\ n \in Nat /\ room \in Nat
      /\ \A v \in {t, u} : OwnIn(v, n, l) \in Int
  BY OwnTyped DEF Fitting, StockRequests
<1>2. /\ Weights(open, n, l) \in Nat /\ Weights(next, n, l) \in Nat
      /\ Weights(next, n, l)
           = Weights(open, n, l) + (Weight(next, n, l, t.first) - Weight(open, n, l, t.first))
      /\ Weights(next, n, l) <= Weight(next, n, l, t.first) + (n - 1) * room
  <2> DEFINE k == t.first
  <2>1. k \in 1..n /\ SameButFirst(open, next, k)
    BY <1>1
  <2> HIDE DEF k
  <2>2. /\ Weights(open, n, l) \in Nat /\ Weights(next, n, l) \in Nat
        /\ Weights(next, n, l)
             = Weights(open, n, l) + (Weight(next, n, l, k) - Weight(open, n, l, k))
        /\ Weights(next, n, l) <= Weight(next, n, l, k) + (n - 1) * room
    BY <2>1, WeightsChange
  <2> QED
    BY <2>2 DEF k
<1>3. Weight(next, n, l, t.first) = Sums!Greatest(OwnIn(u, n, l), 0)
  <2>2. Weight(next, n, l, u.first) = Sums!Greatest(OwnIn(u, n, l), 0)
    BY WeightOfOne
  <2> QED
    BY <2>2
<1>4. Weight(open, n, l, t.first) = Sums!Greatest(OwnIn(t, n, l), 0)
  <2>1. CASE t \in open
    BY <2>1, WeightOfOne
  <2>2. CASE OwnIn(t, n, l) = 0 /\ \A v \in open : v.first # t.first
    <3>1. Weight(open, n, l, t.first) = 0
      BY <2>2, WeightOfNone, Zenon
    <3> QED
      BY <2>2, <3>1 DEF Sums!Greatest
  <2> QED
    BY <2>1, <2>2
<1> DEFINE before == OwnIn(t, n, l)
           after == OwnIn(u, n, l)
           least == (n - 1) * room
           old == Weights(open, n, l)
           new == Weights(next, n, l)
<1>5. least \in Int /\ before \in Int /\ after \in Int
  BY <1>1
<1> HIDE DEF before, after, least, old, new
<1>6. after <= before \/ after <= 0 => Sums!Greatest(after, 0) <= Sums!Greatest(before, 0)
  BY <1>5 DEF Sums!Greatest
<1>7. after > 0 => Sums!Greatest(after, 0) = after
  BY <1>5 DEF Sums!Greatest
<1>8. Sums!Greatest(after, 0) \in Int /\ Sums!Greatest(before, 0) \in Int
  BY <1>5 DEF Sums!Greatest
<1>9. /\ old \in Nat /\ new \in Nat
      /\ new = old + (Sums!Greatest(after, 0) - Sums!Greatest(before, 0))
      /\ new <= Sums!Greatest(after, 0) + least
  BY <1>2, <1>3, <1>4 DEF before, after, least, old, new
<1>10. /\ after <= before \/ after <= 0 => new <= old
       /\ after > 0 => new <= after + least
  BY ONLY <1>5, <1>6, <1>7, <1>8, <1>9
<1> QED
  BY <1>2, <1>10 DEF before, after, least, old, new

\* What the end of a transaction changes.
LEMMA WeightsEnd ==
  ASSUME NEW n, NEW places, NEW room, NEW open, NEW next, NEW t \in open,
         Fitting(open, places, n, room), next \subseteq open, t \notin next,
         SameButFirst(open, next, t.first), NEW l \in places
  PROVE  /\ Weights(open, n, l) \in Nat /\ Weights(next, n, l) \in Nat /\ OwnIn(t, n, l) \in Int
         /\ Weights(next, n, l) <= Weights(open, n, l)
         /\ OwnIn(t, n, l) + Weights(next, n, l) <= Weights(open, n, l)
<1>1. /\ t \in StockRequests(places, n) /\ t.first \in 1..n /\ n \in Nat
      /\ \A v \in next : v.first # t.first
  BY DEF Fitting, StockRequests
<1>2. Fitting(next, places, n, room) /\ OwnIn(t, n, l) \in Int
  BY <1>1, OwnTyped DEF Fitting
<1>3. /\ Weights(open, n, l) \in Nat /\ Weights(next, n, l) \in Nat
      /\ Weights(next, n, l)
           = Weights(open, n, l) + (Weight(next, n, l, t.first) - Weight(open, n, l, t.first))
  <2> DEFINE k == t.first
  <2>1. k \in 1..n /\ SameButFirst(open, next, k)
    BY <1>1
  <2> HIDE DEF k
  <2>2. /\ Weights(open, n, l) \in Nat /\ Weights(next, n, l) \in Nat
        /\ Weights(next, n, l)
             = Weights(open, n, l) + (Weight(next, n, l, k) - Weight(open, n, l, k))
    BY <1>2, <2>1, WeightsChange
  <2> QED
    BY <2>2 DEF k
<1>4. Weight(open, n, l, t.first) = Sums!Greatest(OwnIn(t, n, l), 0)
  BY WeightOfOne
<1>5. Weight(next, n, l, t.first) = 0
  BY <1>1, <1>2, WeightOfNone, Zenon
<1> DEFINE own == OwnIn(t, n, l)
           old == Weights(open, n, l)
           new == Weights(next, n, l)
<1>6. /\ old \in Nat /\ new \in Nat /\ own \in Int
      /\ new = old + (0 - Sums!Greatest(own, 0))
  BY <1>2, <1>3, <1>4, <1>5
<1> HIDE DEF own, old, new
<1>7. new <= old /\ own + new <= old
  BY ONLY <1>6 DEF Sums!Greatest
<1> QED
  BY <1>6, <1>7 DEF own, old, new

CapacityInv ==
  /\ PlacesInv
  /\ \A t \in Opened, l \in Places : OwnIn(t, SomeProducts, l) <= Room
  /\ \A l \in Places :
       InPlace(SomeProducts, l) + Weights(Opened, SomeProducts, l) <= SomeProducts * Room

LEMMA InvFits ==
  ASSUME SomeProducts \in Nat, Room \in Nat, CapacityInv
  PROVE  Fitting(Opened, Places, SomeProducts, Room)
BY DEF CapacityInv, PlacesInv, LocationRows, Apart, Fitting

LEMMA InPlaceTyped ==
  ASSUME SomeProducts \in Nat, PlacesInv, NEW l \in Places
  PROVE  InPlace(SomeProducts, l) \in Nat
<1> DEFINE f == [p \in 1..SomeProducts |-> units[p][l]]
<1>1. \A p \in 1..SomeProducts : f[p] \in Nat
  BY DEF PlacesInv, LocationRows, Held
<1> HIDE DEF f
<1>2. Sums!Total(f, SomeProducts) \in Nat
  BY <1>1, Sums!TotalNat, 0 \in Nat
<1> QED
  BY <1>2 DEF InPlace, f

\* Units of a longer transaction.
LEMMA LongerOwns ==
  ASSUME SomeProducts \in Nat, PlacesInv, NEW p \in 1..SomeProducts, NEW at \in Places,
         NEW d \in Int, NEW t, LineOf(Places, SomeProducts, t, p, at, d), NEW l \in Places
  PROVE  /\ OwnIn(t, SomeProducts, l) \in Int
         /\ OwnIn(Longer(t, p, at, d), SomeProducts, l)
              = OwnIn(t, SomeProducts, l) + (IF l = at THEN d ELSE 0)
<1> DEFINE n == SomeProducts
           f == [k \in 1..n |-> t.moved[k][l]]
           g == [k \in 1..n |-> Longer(t, p, at, d).moved[k][l]]
           more == IF l = at THEN d ELSE 0
<1>1. /\ t \in StockRequests(Places, n)
      /\ \A k \in 1..n, m \in Places :
           Longer(t, p, at, d).moved[k][m] = t.moved[k][m] + (IF k = p /\ m = at THEN d ELSE 0)
  BY LineGives DEF PlacesInv, LocationRows
<1>2. \A k \in 1..n : f[k] \in Int
  BY <1>1 DEF StockRequests
<1>3. \A k \in 1..n : g[k] = IF k = p THEN f[k] + more ELSE f[k]
  BY <1>1, <1>2
<1>4. more \in Int
  OBVIOUS
<1>5. OwnIn(t, n, l) = Sums!Total(f, n) /\ OwnIn(Longer(t, p, at, d), n, l) = Sums!Total(g, n)
  BY DEF OwnIn
<1> HIDE DEF f, g, more
<1>6. /\ \A k \in 1..n : g[k] \in Int /\ (k # p => g[k] = f[k])
      /\ g[p] - f[p] = more /\ p \in 1..n /\ n \in Nat
  BY <1>2, <1>3, <1>4
<1> HIDE DEF n
<1>8. Sums!Total(g, n) = Sums!Total(f, n) + (g[p] - f[p])
  BY ONLY <1>2, <1>6, Sums!TotalOneRow, 0 \in Nat
<1>7. Sums!Total(f, n) \in Int
  BY ONLY <1>2, <1>6, Sums!TotalInt, 0 \in Nat
<1> QED
  BY <1>5, <1>6, <1>7, <1>8 DEF more, n

\* A line that takes, or that puts units away where the transaction sees room.
LEMMA LineFits ==
  ASSUME SomeProducts \in Nat, Room \in Nat, CapacityInv, PlacesInv',
         NEW p \in 1..SomeProducts, NEW at \in Places, NEW d \in Int, NEW t,
         LineOf(Places, SomeProducts, t, p, at, d),
         d <= 0 \/ InPlace(SomeProducts, at) + OwnIn(t, SomeProducts, at) + d <= Room
  PROVE  CapacityInv'
<1> DEFINE n == SomeProducts
           u == Longer(t, p, at, d)
           next == (Opened \ {t}) \union {u}
<1>1. /\ t \in Opened \/ t = NewOne(Places, n, p)
      /\ \A v \in Opened \ {t} : p \notin v.locked
      /\ Opened' = next /\ units' = units
  BY DEF LineOf
<1>2. /\ Fitting(Opened, Places, n, Room)
      /\ \A l \in Places : InPlace(n, l) \in Nat
                           /\ InPlace(n, l) + Weights(Opened, n, l) <= n * Room
  BY InvFits, InPlaceTyped DEF CapacityInv
<1>3. /\ t \in StockRequests(Places, n) /\ u \in StockRequests(Places, n) /\ u.first = t.first
      /\ t.first \in t.locked \union {p}
  BY LineGives DEF CapacityInv, PlacesInv, LocationRows
<1>4. \A l \in Places : /\ OwnIn(t, n, l) \in Int
                        /\ OwnIn(u, n, l) = OwnIn(t, n, l) + (IF l = at THEN d ELSE 0)
  BY LongerOwns DEF CapacityInv
<1> HIDE DEF u
<1>5. t \notin Opened => /\ \A l \in Places : OwnIn(t, n, l) = 0
                         /\ \A v \in Opened : v.first # t.first
  <2> SUFFICES ASSUME t \notin Opened
               PROVE  /\ \A l \in Places : OwnIn(t, n, l) = 0
                      /\ \A v \in Opened : v.first # t.first
    OBVIOUS
  <2>1. t = NewOne(Places, n, p) /\ t.first = p
    BY <1>1 DEF NewOne
  <2>2. ASSUME NEW l \in Places PROVE OwnIn(t, n, l) = 0
    <3> DEFINE f == [k \in 1..n |-> t.moved[k][l]]
    <3>1. \A k \in 1..n : f[k] = 0
      BY <2>1 DEF NewOne
    <3> HIDE DEF f
    <3>2. Sums!Total(f, n) = 0
      BY <3>1, Sums!TotalAllZero, 0 \in Nat
    <3> QED
      BY <3>2 DEF f, OwnIn
  <2>3. \A v \in Opened : p \notin v.locked /\ v.first \in v.locked
    BY <1>1 DEF CapacityInv, PlacesInv, LocationRows, Apart
  <2> QED
    BY <2>1, <2>2, <2>3
<1>6. \A l \in Places : OwnIn(t, n, l) <= Room
  <2>1. CASE t \in Opened
    BY <2>1 DEF CapacityInv
  <2>2. CASE t \notin Opened
    BY <1>5, <2>2
  <2> QED
    BY <2>1, <2>2
<1>7. \A l \in Places : OwnIn(u, n, l) <= Room
  BY <1>2, <1>4, <1>6
<1>8. \A v \in next, l \in Places : OwnIn(v, n, l) <= Room
  BY <1>7 DEF CapacityInv
<1>9. \A v, w \in next : v.first = w.first => v = w
  BY <1>1 DEF PlacesInv, LocationRows, Apart
<1>10. Fitting(next, Places, n, Room)
  BY <1>2, <1>3, <1>8, <1>9 DEF Fitting
<1>11. n \in Nat /\ u \in next /\ SameButFirst(Opened, next, t.first)
  BY <1>3 DEF SameButFirst
<1> HIDE DEF next, n
<1>12. ASSUME NEW l \in Places
       PROVE  InPlace(n, l) + Weights(next, n, l) <= n * Room
  <2>1. /\ Weights(Opened, n, l) \in Nat /\ Weights(next, n, l) \in Nat
        /\ OwnIn(u, n, l) <= OwnIn(t, n, l) \/ OwnIn(u, n, l) <= 0
             => Weights(next, n, l) <= Weights(Opened, n, l)
        /\ OwnIn(u, n, l) > 0 => Weights(next, n, l) <= OwnIn(u, n, l) + (n - 1) * Room
    BY ONLY Room \in Nat, l \in Places, <1>2, <1>3, <1>5, <1>10, <1>11, WeightsLonger
  <2>2. /\ OwnIn(t, n, l) \in Int /\ OwnIn(u, n, l) \in Int /\ InPlace(n, l) \in Nat
        /\ InPlace(n, l) + Weights(Opened, n, l) <= n * Room
        /\ OwnIn(u, n, l) <= OwnIn(t, n, l) \/ InPlace(n, l) + OwnIn(u, n, l) <= Room
    BY <1>2, <1>4 DEF n
  <2>3. (n - 1) * Room = n * Room - Room /\ n * Room \in Nat
    BY <1>11
  <2> QED
    BY ONLY <2>1, <2>2, <2>3, Room \in Nat
<1>13. \A l \in Places : InPlace(n, l)' = InPlace(n, l)
  BY <1>1 DEF InPlace
<1> QED
  BY <1>1, <1>8, <1>12, <1>13 DEF CapacityInv, n, next

\* The end of a transaction, which stores what it weighed, or nothing.
LEMMA EndFits ==
  ASSUME SomeProducts \in Nat, Room \in Nat, CapacityInv, PlacesInv', NEW t \in Opened,
         Opened' = Opened \ {t},
         units' = units \/ Committed(Places, SomeProducts, t)
  PROVE  CapacityInv'
<1> DEFINE n == SomeProducts
           next == Opened \ {t}
<1>1. /\ Fitting(Opened, Places, n, Room) /\ t \in StockRequests(Places, n)
      /\ n \in Nat
      /\ \A l \in Places : InPlace(n, l) \in Nat
                           /\ InPlace(n, l) + Weights(Opened, n, l) <= n * Room
  BY InvFits, InPlaceTyped DEF CapacityInv, Fitting
<1>4. \A l \in Places :
        /\ Weights(Opened, n, l) \in Nat /\ Weights(next, n, l) \in Nat /\ OwnIn(t, n, l) \in Int
        /\ Weights(next, n, l) <= Weights(Opened, n, l)
        /\ OwnIn(t, n, l) + Weights(next, n, l) <= Weights(Opened, n, l)
  <2> TAKE l \in Places
  <2>1. next \subseteq Opened /\ t \notin next /\ SameButFirst(Opened, next, t.first)
    BY <1>1 DEF SameButFirst, Fitting
  <2> HIDE DEF n, next
  <2> QED
    BY ONLY Room \in Nat, l \in Places, t \in Opened, <1>1, <2>1, WeightsEnd
<1>5. ASSUME NEW l \in Places
      PROVE  InPlace(n, l)' = InPlace(n, l) \/ InPlace(n, l)' = InPlace(n, l) + OwnIn(t, n, l)
  <2>1. CASE units' = units
    BY <2>1 DEF InPlace
  <2>2. CASE Committed(Places, n, t)
    <3> DEFINE f == [p \in 1..n |-> units[p][l]]
               g == [p \in 1..n |-> t.moved[p][l]]
               s == [p \in 1..n |-> units'[p][l]]
    <3>1. \A p \in 1..n : f[p] \in Int /\ g[p] \in Int
      BY <1>1 DEF CapacityInv, PlacesInv, LocationRows, Held, StockRequests
    <3>2. \A p \in 1..n : s[p] = f[p] + g[p]
      BY <2>2 DEF Committed
    <3>3. /\ InPlace(n, l) = Sums!Total(f, n) /\ OwnIn(t, n, l) = Sums!Total(g, n)
          /\ InPlace(n, l)' = Sums!Total(s, n)
      BY DEF InPlace, OwnIn
    <3> HIDE DEF f, g, s
    <3>4. Sums!Total(s, n) = Sums!Total(f, n) + Sums!Total(g, n)
      BY <3>1, <3>2, Sums!TotalPlus, 0 \in Nat
    <3> QED
      BY <3>3, <3>4
  <2> QED
    BY <2>1, <2>2
<1>6. \A l \in Places : InPlace(n, l)' + Weights(next, n, l) <= n * Room
  <2> HIDE DEF n, next
  <2> TAKE l \in Places
  <2>1. n * Room \in Nat
    BY DEF n
  <2> QED
    BY <1>1, <1>4, <1>5, <2>1
<1> QED
  BY <1>6 DEF CapacityInv

LEMMA WeightsTyped ==
  ASSUME SomeProducts \in Nat, Room \in Nat, CapacityInv, NEW l \in Places
  PROVE  Weights(Opened, SomeProducts, l) \in Nat
<1> DEFINE f == [k \in 1..SomeProducts |-> Weight(Opened, SomeProducts, l, k)]
<1>1. \A k \in 1..SomeProducts : f[k] \in Nat
  BY InvFits, WeightOf
<1> HIDE DEF f
<1>2. Sums!Total(f, SomeProducts) \in Nat
  BY <1>1, Sums!TotalNat, 0 \in Nat
<1> QED
  BY <1>2 DEF f, Weights

\* Nothing else fills a location.
LEMMA OtherFits ==
  ASSUME SomeProducts \in Nat, CapacityInv, PlacesInv', Opened' = Opened,
         \A p \in 1..SomeProducts, l \in Places :
           units'[p][l] = units[p][l] \/ units'[p][l] = 0,
         Room \in Nat
  PROVE  CapacityInv'
<1>1. ASSUME NEW l \in Places
      PROVE  InPlace(SomeProducts, l)' <= InPlace(SomeProducts, l)
             /\ InPlace(SomeProducts, l)' \in Int /\ InPlace(SomeProducts, l) \in Int
  <2> DEFINE n == SomeProducts
             f == [p \in 1..n |-> units[p][l]]
             g == [p \in 1..n |-> units'[p][l]]
  <2>1. \A p \in 1..n : f[p] \in Nat /\ g[p] \in Nat /\ g[p] <= f[p]
    <3>1. units \in [1..n -> [Places -> Nat]] /\ units' \in [1..n -> [Places -> Nat]]
      BY DEF CapacityInv, PlacesInv, LocationRows, Held
    <3>2. \A p \in 1..n : units[p][l] \in Nat /\ units'[p][l] \in Nat
      BY <3>1
    <3> QED
      BY <3>2
  <2>2. InPlace(n, l) = Sums!Total(f, n) /\ InPlace(n, l)' = Sums!Total(g, n)
    BY DEF InPlace
  <2> HIDE DEF f, g
  <2>3. Sums!Total(f, n) \in Nat /\ Sums!Total(g, n) \in Nat
    BY <2>1, Sums!TotalNat, 0 \in Nat
  <2>4. CASE n = 0
    BY <2>2, <2>3, <2>4, Sums!TotalZero, 0 \in Nat
  <2>5. CASE n # 0
    <3>1. 1 \in 1..n /\ \A p \in 1..n : f[p] \in Int /\ g[p] \in Int /\ g[p] <= f[p]
      BY <2>1, <2>5
    <3>2. f[1] - g[1] <= Sums!Total(f, n) - Sums!Total(g, n)
      BY <3>1, Sums!TotalDominates, 0 \in Nat
    <3> QED
      BY <2>1, <2>2, <2>3, <3>1, <3>2
  <2> QED
    BY <2>4, <2>5
<1>2. \A l \in Places : Weights(Opened, SomeProducts, l) \in Nat
  BY WeightsTyped
<1>3. \A l \in Places :
        InPlace(SomeProducts, l)' + Weights(Opened, SomeProducts, l) <= SomeProducts * Room
  BY <1>1, <1>2 DEF CapacityInv
<1> QED
  BY <1>3 DEF CapacityInv

\* The sums of the module, in these words.
LEMMA PlacesSums ==
  /\ \A l : L!Used(l) = InPlace(SomeProducts, l)
  /\ \A t, l : L!SeenUsed(t, l) = InPlace(SomeProducts, l) + OwnIn(t, SomeProducts, l)
BY DEF L!Used, L!SeenUsed, L!Sum, L!Product, L!Total, Sums!Total, InPlace, OwnIn

LEMMA CapacityStep ==
  ASSUME LocationsAssumption, CapacityInv, L!Next
  PROVE  CapacityInv'
<1>1. /\ SomeProducts \in Nat /\ Room \in Nat /\ SomeUnits \in Nat
      /\ L!Product = 1..SomeProducts /\ L!Open = Opened /\ PlacesInv
  BY DEF LocationsAssumption, L!LocationsAssumption, CapacityInv, L!Product, L!Open, Opened
<1>2. PlacesInv'
  BY <1>1, PlacesStep
<1>3. ASSUME NEW p \in L!Product, NEW t, t \in L!Open \/ t = L!Started(p), L!MoveUnits(t, p)
      PROVE  CapacityInv'
  <2>1. PICK l \in Places, q \in 1..SomeUnits :
          L!PutAway(t, p, l, q) \/ L!TakeFromLocation(t, p, l, q)
    BY <1>3 DEF L!MoveUnits
  <2>2. q \in Nat /\ -q \in Int /\ -q <= 0 /\ p \in 1..SomeProducts
    BY <1>1
  <2>3. CASE L!PutAway(t, p, l, q)
    <3>1. LineOf(Places, SomeProducts, t, p, l, q)
      BY <1>1, <1>3, <2>2, <2>3, PlacesLine
    <3>2. InPlace(SomeProducts, l) + OwnIn(t, SomeProducts, l) + q <= Room
      BY <2>3, PlacesSums DEF L!PutAway
    <3> QED
      BY <1>1, <1>2, <2>2, <3>1, <3>2, LineFits
  <2>4. CASE L!TakeFromLocation(t, p, l, q)
    <3>1. LineOf(Places, SomeProducts, t, p, l, -q)
      BY <1>1, <1>3, <2>2, <2>4, PlacesLine
    <3> QED
      BY <1>1, <1>2, <2>2, <3>1, LineFits
  <2> QED
    BY <2>1, <2>3, <2>4
<1>4. ASSUME NEW t \in requests, L!Commit(t) \/ L!Rollback(t)
      PROVE  CapacityInv'
  <2>1. t \in Opened /\ Opened' = Opened \ {t}
    BY <1>4 DEF L!Commit, L!Rollback, Opened
  <2>2. units' = units \/ Committed(Places, SomeProducts, t)
    BY <1>1, <1>4, <2>1 DEF L!Commit, L!Rollback, Committed
  <2> QED
    BY <1>1, <1>2, <2>1, <2>2, EndFits
<1>5. ASSUME Opened' = Opened,
             units' = units
               \/ \E l \in Places : units' = [p \in L!Product |-> [units[p] EXCEPT ![l] = 0]]
      PROVE  CapacityInv'
  <2>1. units \in [1..SomeProducts -> [Places -> Nat]]
    BY <1>1 DEF PlacesInv, LocationRows, Held
  <2>2. \A p \in 1..SomeProducts, m \in Places : units'[p][m] = units[p][m] \/ units'[p][m] = 0
    <3>1. CASE units' = units
      BY <3>1
    <3>2. ASSUME NEW l \in Places, units' = [p \in L!Product |-> [units[p] EXCEPT ![l] = 0]],
                 NEW p \in 1..SomeProducts, NEW m \in Places
          PROVE  units'[p][m] = units[p][m] \/ units'[p][m] = 0
      <4>1. units'[p] = [units[p] EXCEPT ![l] = 0] /\ units[p] \in [Places -> Nat]
        BY <1>1, <2>1, <3>2
      <4> QED
        BY <4>1
    <3> QED
      BY <1>5, <3>1, <3>2
  <2> QED
    BY <1>1, <1>2, <1>5, <2>2, OtherFits
<1>6. CASE L!Change
  <2>1. CASE \E l \in Places : \/ \E p \in Places \union {None} : L!Create(l, p) \/ L!CheckMove(l, p)
                               \/ L!CheckDelete(l)
    <3>1. Opened' = Opened /\ units' = units
      <4>1. ASSUME NEW l \in Places, NEW p \in Places \union {None}, L!Create(l, p)
            PROVE  Opened' = Opened /\ units' = units
        BY <4>1 DEF L!Create, Opened
      <4>2. ASSUME NEW r, r.kind # "stock", L!Asked(r)
            PROVE  Opened' = Opened /\ units' = units
        BY <4>2 DEF L!Asked, Opened
      <4> QED
        BY <2>1, <4>1, <4>2 DEF L!CheckMove, L!CheckDelete
    <3> QED
      BY <1>5, <3>1
  <2> QED
    BY <1>3, <1>6, <2>1 DEF L!Change
<1>7. CASE L!Write
  <2>1. ASSUME NEW r \in requests, L!WriteMove(r) \/ L!WriteDelete(r)
        PROVE  CapacityInv'
    <3>1. /\ Opened' = Opened
          /\ r.kind = "move" => units' = units
          /\ r.kind = "delete" =>
               units' = [p \in L!Product |-> [units[p] EXCEPT ![r.location] = 0]]
          /\ r.kind \in {"move", "delete"}
      BY <2>1 DEF L!WriteMove, L!WriteDelete, Opened
    <3>2. r.location \in Places
      BY <1>1, <3>1 DEF PlacesInv, RequestRows, StockRequests
    <3> QED
      BY <1>5, <3>1, <3>2
  <2> QED
    BY <1>3, <1>4, <1>7, <2>1 DEF L!Write
<1> QED
  BY <1>6, <1>7 DEF L!Next

-----------------------------------------------------------------------------
(* Deeper trees, with nothing between check and write. *)

\* Every location has room above it in what is read.
DeepEnough == IsFiniteSet(MorePlaces) /\ Cardinality(MorePlaces) <= Depth

\* Nothing is inside a location, and nothing is in it.
Vacant(n, l) ==
  /\ \A k \in DOMAIN parent : parent[k] # l
  /\ Sums!Total([p \in 1..n |-> units[p][l]], n) = 0

\* At most one request is under way, and what it checked still holds.
ChecksHold(n) ==
  /\ \A r, q \in requests : r = q
  /\ \A r \in requests :
       /\ r.kind = "move" =>
            /\ r.location \in DOMAIN parent
            /\ \/ r.parent = None
               \/ /\ r.parent \in DOMAIN parent
                  /\ r.location \notin {r.parent} \union AboveAndIt(parent, r.parent, Depth)
       /\ r.kind = "delete" => Vacant(n, r.location)

DeepInv ==
  /\ LocationRows(MorePlaces, 1) /\ requests \subseteq RequestRows(MorePlaces, 1)
  /\ ChecksHold(1)

\* The operators of this part, in the words of the lemmas.
LEMMA DeepWords ==
  /\ \A l, p : Deep!NotDescendant(l, p) <=> l \notin {p} \union AboveAndIt(parent, p, Depth)
  /\ \A l : Deep!Used(l) = Sums!Total([p \in 1..1 |-> units[p][l]], 1)
  /\ \A l : Deep!Empty(l) <=> Vacant(1, l)
  /\ \A l : Deep!Above(l) =
       {WalkAbove(parent, parent[l], Cardinality(MorePlaces))[i] :
          i \in DOMAIN WalkAbove(parent, parent[l], Cardinality(MorePlaces))}
  /\ Deep!Product = 1..1 /\ Deep!Existing = DOMAIN parent
  /\ \A l, p : Deep!Create(l, p) <=> L!Create(l, p)
  /\ Deep!Open = Opened /\ \A p : Deep!Started(p) = NewOne(MorePlaces, 1, p)
  /\ \A r : Deep!WriteMove(r) <=> L!WriteMove(r)
<1>1. \A l, p : Deep!NotDescendant(l, p) <=> l \notin {p} \union AboveAndIt(parent, p, Depth)
  BY Zenon DEF Deep!NotDescendant, Deep!Ancestors, AboveAndIt, Walk, Deep!Existing
<1>2. \A l : Deep!Used(l) = Sums!Total([p \in 1..1 |-> units[p][l]], 1)
  BY DEF Deep!Used, Deep!Sum, Deep!Total, Sums!Total, Deep!Product
<1>3. \A l : Deep!Empty(l) <=> Vacant(1, l)
  BY <1>2 DEF Deep!Empty, Deep!Children, Vacant, Deep!Existing
<1>4. \A l : Deep!Above(l) =
        {WalkAbove(parent, parent[l], Cardinality(MorePlaces))[i] :
           i \in DOMAIN WalkAbove(parent, parent[l], Cardinality(MorePlaces))}
  BY Zenon DEF Deep!Above, WalkAbove, Deep!Cardinality, Cardinality
<1>5. Deep!Product = 1..1 /\ Deep!Existing = DOMAIN parent
  BY DEF Deep!Product, Deep!Existing
<1>6. \A l, p : Deep!Create(l, p) <=> L!Create(l, p)
  BY Zenon DEF Deep!Create, L!Create, Deep!Existing, L!Existing
<1>7. Deep!Open = Opened /\ \A p : Deep!Started(p) = NewOne(MorePlaces, 1, p)
  BY Zenon DEF Deep!Open, Opened, Deep!Started, NewOne, Deep!Product
<1>8. \A r : Deep!WriteMove(r) <=> L!WriteMove(r)
  BY Zenon DEF Deep!WriteMove, L!WriteMove, Deep!Existing, L!Existing, Deep!StillThere, L!StillThere
<1> QED
  BY <1>1, <1>2, <1>3, <1>4, <1>5, <1>6, <1>7, <1>8

\* A line of the transaction that is open, or of a new one.
LEMMA DeepLine ==
  ASSUME DeepInv, NEW p \in 1..1, NEW l \in MorePlaces,
         NEW t, t \in Opened \/ t = Deep!Started(p), NEW q \in Nat,
         Deep!PutAway(t, p, l, q) \/ Deep!TakeFromLocation(t, p, l, q)
  PROVE  /\ RowStep(MorePlaces, 1) /\ requests' \subseteq RequestRows(MorePlaces, 1)
         /\ Deep!PutAway(t, p, l, q) => LineOf(MorePlaces, 1, t, p, l, q)
         /\ Deep!TakeFromLocation(t, p, l, q) => LineOf(MorePlaces, 1, t, p, l, -q)
<1>1. /\ Deep!Product = 1..1 /\ Deep!Existing = DOMAIN parent /\ Deep!Open = Opened
      /\ Deep!Started(p) = NewOne(MorePlaces, 1, p)
      /\ LocationRows(MorePlaces, 1) /\ requests \subseteq RequestRows(MorePlaces, 1)
  BY DeepWords DEF DeepInv
<1>2. units[p][l] + t.moved[p][l] \in Nat
  <2>1. CASE t \in Opened
    BY <1>1, <2>1 DEF LocationRows, Apart
  <2>2. CASE t = NewOne(MorePlaces, 1, p)
    <3>1. t.moved[p][l] = 0
      BY <2>2 DEF NewOne
    <3> QED
      BY <1>1, <3>1 DEF LocationRows, Held
  <2> QED
    BY <1>1, <2>1, <2>2
<1>3. units[p][l] \in Nat /\ t.moved[p][l] \in Int
  <2>1. CASE t \in Opened
    BY <1>1, <2>1 DEF LocationRows, Apart, Held, StockRequests
  <2>2. CASE t = NewOne(MorePlaces, 1, p)
    BY <1>1, <2>2 DEF LocationRows, Held, NewOne
  <2> QED
    BY <1>1, <2>1, <2>2
<1>4. ASSUME NEW d \in Int, Deep!Line(t, p, l, d), l \in DOMAIN parent,
             units[p][l] + t.moved[p][l] + d \in Nat
      PROVE  /\ LineOf(MorePlaces, 1, t, p, l, d) /\ RowStep(MorePlaces, 1)
             /\ requests' \subseteq RequestRows(MorePlaces, 1)
  <2>1. /\ t \in Opened \/ t = NewOne(MorePlaces, 1, p)
        /\ \A u \in Opened \ {t} : p \notin u.locked
        /\ requests' = (requests \ {t}) \union {Longer(t, p, l, d)}
        /\ parent' = parent /\ units' = units
    BY <1>1, <1>4 DEF Deep!Line, Deep!Lockable, Longer
  <2> QED
    BY <1>1, <1>4, <2>1, LineSteps
<1>5. Deep!PutAway(t, p, l, q) => Deep!Line(t, p, l, q) /\ l \in DOMAIN parent
                               /\ units[p][l] + t.moved[p][l] + q \in Nat
  BY <1>1, <1>2, <1>3 DEF Deep!PutAway
<1>6. Deep!TakeFromLocation(t, p, l, q) => Deep!Line(t, p, l, -q) /\ l \in DOMAIN parent
                               /\ units[p][l] + t.moved[p][l] + (-q) \in Nat
  BY <1>1, <1>2, <1>3 DEF Deep!TakeFromLocation
<1> QED
  BY <1>4, <1>5, <1>6

LEMMA DeepStep ==
  ASSUME LocationsAssumption, DeepInv, Deep!UndisturbedNext
  PROVE  DeepInv'
<1> DEFINE Rows == RequestRows(MorePlaces, 1)
<1>1. /\ 1 \in Nat /\ None \notin MorePlaces /\ SomeUnits \in Nat
      /\ LocationRows(MorePlaces, 1) /\ requests \subseteq Rows
      /\ \A r, q \in requests : r = q
  BY DEF LocationsAssumption, Deep!LocationsAssumption, DeepInv, ChecksHold
<1>2. ASSUME RowStep(MorePlaces, 1), requests' \subseteq Rows,
             \A r, q \in requests' : r = q, \A r \in requests' : r.kind = "stock"
      PROVE  DeepInv'
  <2>1. LocationRows(MorePlaces, 1)'
    BY <1>1, <1>2, RowsStay
  <2>2. ChecksHold(1)'
    BY <1>2 DEF ChecksHold
  <2>3. Rows' = Rows
    BY DEF RequestRows, StockRequests
  <2> QED
    BY <1>2, <2>1, <2>2, <2>3 DEF DeepInv
<1>3. ASSUME requests = {}, NEW r \in Rows, Deep!Asked(r),
             r.kind = "move" =>
               /\ r.location \in DOMAIN parent
               /\ r.parent = None \/ (r.parent \in DOMAIN parent /\ Deep!NotDescendant(r.location, r.parent)),
             r.kind = "delete" => Deep!Empty(r.location), r.kind # "stock"
      PROVE  DeepInv'
  <2>1. requests' = {r} /\ parent' = parent /\ units' = units
    BY <1>3 DEF Deep!Asked
  <2>2. LocationRows(MorePlaces, 1)'
    <3>1. RowStep(MorePlaces, 1)
      BY <1>3, <2>1 DEF RowStep, Opened
    <3> QED
      BY <1>1, <3>1, RowsStay
  <2>3. r.kind = "move" => r.parent = None \/
          r.location \notin {r.parent} \union AboveAndIt(parent, r.parent, Depth)
    BY <1>3, DeepWords
  <2>4. r.kind = "delete" => Vacant(1, r.location)'
    BY <1>3, <2>1, DeepWords DEF Vacant
  <2>5. ChecksHold(1)'
    BY <1>3, <2>1, <2>3, <2>4 DEF ChecksHold
  <2>6. requests' \subseteq RequestRows(MorePlaces, 1)'
    BY <2>1, <1>3 DEF RequestRows, StockRequests
  <2> QED
    BY <2>2, <2>5, <2>6 DEF DeepInv
<1>4. ASSUME NEW p \in 1..1, NEW t, Deep!MoveUnits(t, p),
             t \in Opened \/ (t = Deep!Started(p) /\ requests = {})
      PROVE  DeepInv'
  <2>1. PICK l \in MorePlaces, q \in 1..SomeUnits :
          Deep!PutAway(t, p, l, q) \/ Deep!TakeFromLocation(t, p, l, q)
    BY <1>4 DEF Deep!MoveUnits
  <2>2. /\ RowStep(MorePlaces, 1) /\ requests' \subseteq Rows
    <3>1. q \in Nat
      BY <1>1
    <3> QED
      BY <1>4, <2>1, <3>1, DeepLine
  <2>3. \E u : u.kind = "stock" /\ requests' = (requests \ {t}) \union {u}
    BY <2>1 DEF Deep!PutAway, Deep!TakeFromLocation, Deep!Line
  <2>4. requests \subseteq {t}
    BY <1>1, <1>4 DEF Opened
  <2> QED
    BY <1>2, <2>2, <2>3, <2>4
<1>7. ASSUME Deep!Write PROVE DeepInv'
  <2>1. ASSUME NEW r \in requests, Deep!WriteMove(r) \/ Deep!WriteDelete(r)
        PROVE  DeepInv'
    <3>1. requests' = {}
      BY <1>1, <2>1 DEF Deep!WriteMove, Deep!WriteDelete
    <3>2. Deep!WriteDelete(r) => r.kind = "delete" /\ Deleted(1, r.location)
      BY <1>1, <3>1, DeepWords DEF Deep!WriteDelete, Deleted, Opened
    <3>3. RowStep(MorePlaces, 1)
      BY <1>1, <2>1, <3>2, DeepWords, RequestSteps
    <3> QED
      BY <1>2, <3>1, <3>3
  <2>2. ASSUME NEW t \in requests, Deep!Commit(t) \/ Deep!Rollback(t)
        PROVE  DeepInv'
    <3>1. t \in Opened /\ Opened' = Opened \ {t} /\ requests' = {}
      BY <1>1, <2>2 DEF Deep!Commit, Deep!Rollback, Opened
    <3>2. Deep!Commit(t) => Committed(MorePlaces, 1, t)
      BY <3>1, DeepWords DEF Deep!Commit, Committed
    <3>3. RowStep(MorePlaces, 1)
      BY <2>2, <3>1, <3>2 DEF Deep!Rollback, RowStep
    <3> QED
      BY <1>2, <3>1, <3>3
  <2> QED
    BY <1>4, <1>7, <2>1, <2>2, DeepWords DEF Deep!Write
<1>5. ASSUME requests = {}, NEW l \in MorePlaces, NEW p \in MorePlaces \union {None},
             Deep!Create(l, p) \/ Deep!CheckMove(l, p)
      PROVE  DeepInv'
  <2>1. CASE Deep!Create(l, p)
    BY <1>1, <1>2, <1>5, <2>1, DeepWords, RequestSteps DEF Deep!Create
  <2>2. CASE Deep!CheckMove(l, p)
    <3> DEFINE r == [kind |-> "move", location |-> l, parent |-> p]
    <3>1. r \in Rows /\ r.kind = "move" /\ r.location = l /\ r.parent = p
      BY DEF RequestRows
    <3>2. Deep!Asked(r) /\ l \in DOMAIN parent
          /\ (p = None \/ (p \in DOMAIN parent /\ Deep!NotDescendant(l, p)))
      BY <2>2, DeepWords DEF Deep!CheckMove
    <3> HIDE DEF r
    <3> QED
      BY <1>3, <1>5, <3>1, <3>2
  <2> QED
    BY <1>5, <2>1, <2>2
<1>6. ASSUME requests = {}, NEW l \in MorePlaces, Deep!CheckDelete(l)
      PROVE  DeepInv'
  <2> DEFINE r == [kind |-> "delete", location |-> l]
  <2>1. r \in Rows /\ r.kind = "delete" /\ r.location = l
    BY DEF RequestRows
  <2>2. Deep!Asked(r) /\ Deep!Empty(l)
    BY <1>6 DEF Deep!CheckDelete
  <2> HIDE DEF r
  <2> QED
    BY <1>3, <1>6, <2>1, <2>2
<1> QED
  BY <1>4, <1>5, <1>6, <1>7, DeepWords DEF Deep!UndisturbedNext, Deep!Change

\* A tree stays one: created, moved and deleted locations.
LEMMA CreateTree ==
  ASSUME IsForest(parent, MorePlaces), IsTree(parent), NEW l \in MorePlaces, NEW p, L!Create(l, p)
  PROVE  IsTree(parent)'
<1>1. /\ l \notin DOMAIN parent /\ p \in DOMAIN parent \union {None}
      /\ parent' = [k \in DOMAIN parent \union {l} |-> IF k = l THEN p ELSE parent[k]]
  BY DEF L!Create, L!Existing
<1> QED
  BY <1>1, CreateKeepsTree

LEMMA MoveTree ==
  ASSUME DeepEnough, Depth \in Nat, NEW n, ChecksHold(n),
         IsForest(parent, MorePlaces), IsTree(parent), NEW r \in requests, L!WriteMove(r)
  PROVE  IsTree(parent)'
<1>1. /\ r.location \in DOMAIN parent
      /\ \/ r.parent = None
         \/ /\ r.parent \in DOMAIN parent
            /\ r.location \notin {r.parent} \union AboveAndIt(parent, r.parent, Depth)
  BY DEF L!WriteMove, ChecksHold
<1>2. /\ parent = [l \in DOMAIN parent |-> parent[l]]
      /\ \A l \in DOMAIN parent : parent[l] \in DOMAIN parent \union {None}
  BY DEF IsForest
<1>3. parent' = [parent EXCEPT ![r.location] = r.parent]
  BY <1>1 DEF L!WriteMove, L!StillThere, L!Existing
<1>4. CASE r.parent = None
  <2>1. /\ parent' = [x \in DOMAIN parent' |-> parent'[x]] /\ DOMAIN parent' \subseteq DOMAIN parent
        /\ \A x \in DOMAIN parent' :
             parent'[x] = None \/ (parent'[x] = parent[x] /\ parent[x] \in DOMAIN parent')
    BY <1>1, <1>2, <1>3, <1>4
  <2> QED
    BY <2>1, CutKeepsTree
<1>5. CASE r.parent \in DOMAIN parent
              /\ r.location \notin {r.parent} \union AboveAndIt(parent, r.parent, Depth)
  <2>1. /\ r.parent \in AboveAndIt(parent, r.parent, Depth)
        /\ AboveAndIt(parent, r.parent, Depth) \subseteq DOMAIN parent
        /\ \A x \in AboveAndIt(parent, r.parent, Depth) :
             parent[x] \in DOMAIN parent => parent[x] \in AboveAndIt(parent, r.parent, Depth)
    BY <1>5, AboveIsClosed DEF DeepEnough
  <2>2. IsTree([parent EXCEPT ![r.location] = r.parent])
    BY <1>1, <1>5, <2>1, MoveKeepsTree
  <2> QED
    BY <1>3, <2>2
<1> QED
  BY <1>1, <1>4, <1>5

LEMMA DeleteTree ==
  ASSUME IsForest(parent, MorePlaces), IsTree(parent), NEW l,
         parent' = [k \in DOMAIN parent \ {l} |-> IF parent[k] = l THEN None ELSE parent[k]]
  PROVE  IsTree(parent)'
<1>1. \A k \in DOMAIN parent : parent[k] \in DOMAIN parent \union {None}
  BY DEF IsForest
<1>2. /\ parent' = [x \in DOMAIN parent' |-> parent'[x]] /\ DOMAIN parent' \subseteq DOMAIN parent
      /\ \A x \in DOMAIN parent' :
           parent'[x] = None \/ (parent'[x] = parent[x] /\ parent[x] \in DOMAIN parent')
  BY <1>1
<1> QED
  BY <1>2, CutKeepsTree

LEMMA DeepTreeStep ==
  ASSUME LocationsAssumption, DeepEnough, DeepInv, IsTree(parent), Deep!UndisturbedNext
  PROVE  IsTree(parent)'
<1>1. IsForest(parent, MorePlaces) /\ ChecksHold(1) /\ Depth \in Nat
  BY DEF LocationsAssumption, Deep!LocationsAssumption, DeepInv, LocationRows
<1>2. ASSUME parent' = parent PROVE IsTree(parent)'
  BY <1>2
<1>3. ASSUME NEW l \in MorePlaces, NEW p, Deep!Create(l, p) PROVE IsTree(parent)'
  BY <1>1, <1>3, DeepWords, CreateTree
<1>4. ASSUME NEW r \in requests, Deep!WriteMove(r) PROVE IsTree(parent)'
  BY <1>1, <1>4, DeepWords, MoveTree
<1>5. ASSUME NEW r \in requests, Deep!WriteDelete(r) PROVE IsTree(parent)'
  <2>1. parent' = [k \in DOMAIN parent \ {r.location} |->
                     IF parent[k] = r.location THEN None ELSE parent[k]]
    BY <1>5, DeepWords DEF Deep!WriteDelete
  <2> QED
    BY <1>1, <2>1, DeleteTree
<1>6. ASSUME NEW p, NEW t, Deep!MoveUnits(t, p) PROVE parent' = parent
  BY <1>6 DEF Deep!MoveUnits, Deep!PutAway, Deep!TakeFromLocation, Deep!Line
<1>7. ASSUME Deep!Write PROVE IsTree(parent)'
  <2>1. ASSUME NEW t, Deep!Commit(t) \/ Deep!Rollback(t) PROVE parent' = parent
    BY <2>1 DEF Deep!Commit, Deep!Rollback
  <2> QED
    BY <1>2, <1>4, <1>5, <1>6, <1>7, <2>1 DEF Deep!Write
<1>8. ASSUME Deep!Change PROVE IsTree(parent)'
  <2>1. ASSUME NEW r, Deep!Asked(r) PROVE parent' = parent
    BY <2>1 DEF Deep!Asked
  <2> QED
    BY <1>2, <1>3, <1>6, <1>8, <2>1 DEF Deep!Change, Deep!CheckMove, Deep!CheckDelete
<1> QED
  BY <1>7, <1>8 DEF Deep!UndisturbedNext

LEMMA DeepGives ==
  /\ LocationsAssumption /\ DeepInv => Deep!LocationsTypeOK
  /\ DeepInv => Deep!DeletesEmpty
  /\ DeepEnough /\ DeepInv /\ IsTree(parent) => Deep!NeverInsideItself
<1>1. ASSUME LocationsAssumption, DeepInv PROVE Deep!LocationsTypeOK
  <2>1. Held(MorePlaces, 1) /\ IsForest(parent, MorePlaces) /\ 1 \in Nat
    BY <1>1 DEF DeepInv, LocationRows
  <2>2. Deep!Product = 1..1 /\ Deep!Existing = DOMAIN parent
    BY DeepWords
  <2>3. ASSUME NEW l \in MorePlaces, l \notin DOMAIN parent
        PROVE  Deep!Used(l) = 0
    <3>1. Sums!Total([p \in 1..1 |-> units[p][l]], 1) = 0
      BY <2>1, <2>3, NothingHeld
    <3> QED
      BY <3>1, DeepWords
  <2> QED
    BY <2>1, <2>2, <2>3 DEF Deep!LocationsTypeOK, Held, IsForest
<1>2. ASSUME DeepInv PROVE Deep!DeletesEmpty
  <2>1. ASSUME NEW r \in requests, Deep!Delete(r)
        PROVE  Deep!Children(r.location) = {} /\ Deep!Used(r.location) = 0
    <3>1. Deep!Empty(r.location)
      BY <1>2, <2>1, DeepWords DEF Deep!Delete, DeepInv, ChecksHold
    <3> QED
      BY <3>1 DEF Deep!Empty
  <2> QED
    BY <2>1 DEF Deep!DeletesEmpty
<1>3. ASSUME DeepEnough, DeepInv, IsTree(parent), NEW l \in DOMAIN parent
      PROVE  l \notin Deep!Above(l)
  <2>1. IsForest(parent, MorePlaces) /\ Cardinality(MorePlaces) \in Nat
    BY <1>3, FS_CardinalityType DEF DeepInv, LocationRows, DeepEnough
  <2>2. l \notin {WalkAbove(parent, parent[l], Cardinality(MorePlaces))[i] :
                   i \in DOMAIN WalkAbove(parent, parent[l], Cardinality(MorePlaces))}
    BY <1>3, <2>1, TreeGivesIt
  <2> QED
    BY <2>2, DeepWords
<1> QED
  BY <1>1, <1>2, <1>3, DeepWords DEF Deep!NeverInsideItself

-----------------------------------------------------------------------------
(* The same beside an import of locations. *)

\* The tree that a file would leave, and what makes it one.
FinalOf(f, file) ==
  [l \in DOMAIN f \union Tree!Codes(file) |->
     IF l \in Tree!Codes(file)
     THEN (CHOOSE row \in {file[i] : i \in DOMAIN file} : row.code = l).parent
     ELSE f[l]]

FileFits(f, file) ==
  /\ \A i, j \in DOMAIN file : i # j => file[i].code # file[j].code
  /\ \A i \in DOMAIN file :
       /\ file[i].parent \in DOMAIN FinalOf(f, file) \union {None}
       /\ ~ \E n \in 0..((Depth + 1) - 1) :
              Walk(FinalOf(f, file), FinalOf(f, file)[file[i].code], Depth + 1)[n] = file[i].code

\* Every location of the file is inside the one it asks for.
AsAsked(f, file) == \A i \in DOMAIN file : f[file[i].code] = file[i].parent

TreeFiles == UNION {[1..n -> Tree!Row] : n \in Nat}

TreeInv ==
  /\ LocationRows(MorePlaces, 0)
  /\ requests \subseteq RequestRows(MorePlaces, 0) \union [kind : {"import"}, file : TreeFiles]
  /\ ChecksHold(0)
  /\ \A r \in requests : r.kind = "import" => FileFits(parent, r.file)

\* What a file that fits leaves.
LEMMA FileGives ==
  ASSUME NEW f, IsForest(f, MorePlaces), NEW file \in TreeFiles, FileFits(f, file)
  PROVE  /\ IsForest(FinalOf(f, file), MorePlaces)
         /\ Tree!Codes(file) \subseteq DOMAIN FinalOf(f, file)
         /\ DOMAIN FinalOf(f, file) = DOMAIN f \union Tree!Codes(file)
         /\ AsAsked(FinalOf(f, file), file)
         /\ \A l \in DOMAIN f : l \notin Tree!Codes(file) => FinalOf(f, file)[l] = f[l]
<1> DEFINE final == FinalOf(f, file)
           codes == Tree!Codes(file)
<1>1. codes = {file[i].code : i \in DOMAIN file}
  BY DEF Tree!Codes
<1>2. \A i \in DOMAIN file : file[i].code \in MorePlaces /\ file[i].parent \in MorePlaces \union {None}
  BY DEF TreeFiles, Tree!Row
<1>3. /\ DOMAIN final = DOMAIN f \union codes /\ final = [l \in DOMAIN final |-> final[l]]
      /\ \A l \in codes : final[l] = (CHOOSE row \in {file[i] : i \in DOMAIN file} : row.code = l).parent
      /\ \A l \in DOMAIN f : l \notin codes => final[l] = f[l]
  BY DEF FinalOf
<1>4. /\ \A i, j \in DOMAIN file : i # j => file[i].code # file[j].code
      /\ \A i \in DOMAIN file : file[i].parent \in DOMAIN final \union {None}
  BY DEF FileFits
<1> HIDE DEF final, codes
<1>5. ASSUME NEW i \in DOMAIN file
      PROVE  file[i].code \in codes /\ final[file[i].code] = file[i].parent
  <2> DEFINE Rows == {file[j] : j \in DOMAIN file}
             row == CHOOSE row \in Rows : row.code = file[i].code
  <2>1. file[i] \in Rows
    OBVIOUS
  <2>2. row \in Rows /\ row.code = file[i].code
    <3> HIDE DEF Rows
    <3> QED
      BY <2>1
  <2>3. row = file[i]
    <3> HIDE DEF row
    <3> QED
      BY <1>4, <2>2
  <2>4. file[i].code \in codes
    BY <1>1
  <2> QED
    BY <1>3, <2>3, <2>4
<1>6. IsForest(final, MorePlaces)
  <2>1. None \notin MorePlaces /\ DOMAIN f \subseteq MorePlaces
        /\ \A l \in DOMAIN f : f[l] \in DOMAIN f \union {None}
    BY DEF IsForest
  <2>2. \A l \in codes : final[l] \in DOMAIN final \union {None} /\ l \in MorePlaces
    BY <1>1, <1>2, <1>4, <1>5
  <2> QED
    BY <1>3, <2>1, <2>2 DEF IsForest
<1>7. codes \subseteq DOMAIN final /\ \A i \in DOMAIN file : final[file[i].code] = file[i].parent
  BY <1>3, <1>5
<1>8. AsAsked(final, file)
  BY <1>7 DEF AsAsked
<1> QED
  BY <1>3, <1>6, <1>7, <1>8 DEF final, codes

LEMMA TreeWords ==
  /\ \A l, p : Tree!NotDescendant(l, p) <=> l \notin {p} \union AboveAndIt(parent, p, Depth)
  /\ \A l : Tree!Used(l) = Sums!Total([p \in 1..0 |-> units[p][l]], 0)
  /\ \A l : Tree!Empty(l) <=> Vacant(0, l)
  /\ \A l : Tree!Above(l) =
       {WalkAbove(parent, parent[l], Cardinality(MorePlaces))[i] :
          i \in DOMAIN WalkAbove(parent, parent[l], Cardinality(MorePlaces))}
  /\ Tree!Product = 1..0 /\ Tree!Existing = DOMAIN parent
  /\ \A l, p : Tree!Create(l, p) <=> L!Create(l, p)
  /\ Tree!Open = Opened /\ \A p : Tree!Started(p) = NewOne(MorePlaces, 0, p)
  /\ \A r : Tree!WriteMove(r) <=> L!WriteMove(r)
  /\ \A file : Tree!FinalParent(file) = FinalOf(parent, file)
  /\ \A l, final : Tree!HasCycle(l, final) <=>
       \E n \in 0..((Depth + 1) - 1) : Walk(final, final[l], Depth + 1)[n] = l
<1>1. \A l, p : Tree!NotDescendant(l, p) <=> l \notin {p} \union AboveAndIt(parent, p, Depth)
  BY Zenon DEF Tree!NotDescendant, Tree!Ancestors, AboveAndIt, Walk, Tree!Existing
<1>2. \A l : Tree!Used(l) = Sums!Total([p \in 1..0 |-> units[p][l]], 0)
  BY DEF Tree!Used, Tree!Sum, Tree!Total, Sums!Total, Tree!Product
<1>3. \A l : Tree!Empty(l) <=> Vacant(0, l)
  BY <1>2 DEF Tree!Empty, Tree!Children, Vacant, Tree!Existing
<1>4. \A l : Tree!Above(l) =
        {WalkAbove(parent, parent[l], Cardinality(MorePlaces))[i] :
           i \in DOMAIN WalkAbove(parent, parent[l], Cardinality(MorePlaces))}
  BY Zenon DEF Tree!Above, WalkAbove, Tree!Cardinality, Cardinality
<1>5. Tree!Product = 1..0 /\ Tree!Existing = DOMAIN parent
  BY DEF Tree!Product, Tree!Existing
<1>6. \A l, p : Tree!Create(l, p) <=> L!Create(l, p)
  BY Zenon DEF Tree!Create, L!Create, Tree!Existing, L!Existing
<1>7. Tree!Open = Opened /\ \A p : Tree!Started(p) = NewOne(MorePlaces, 0, p)
  BY Zenon DEF Tree!Open, Opened, Tree!Started, NewOne, Tree!Product
<1>8. \A r : Tree!WriteMove(r) <=> L!WriteMove(r)
  BY Zenon DEF Tree!WriteMove, L!WriteMove, Tree!Existing, L!Existing, Tree!StillThere, L!StillThere
<1>9. \A file : Tree!FinalParent(file) = FinalOf(parent, file)
  BY Zenon DEF Tree!FinalParent, FinalOf, Tree!Existing
<1>10. \A l, final : Tree!HasCycle(l, final) <=>
         \E n \in 0..((Depth + 1) - 1) : Walk(final, final[l], Depth + 1)[n] = l
  BY Zenon DEF Tree!HasCycle, Walk
<1> QED
  BY <1>1, <1>2, <1>3, <1>4, <1>5, <1>6, <1>7, <1>8, <1>9, <1>10

\* A file that was planned and is applied undisturbed leaves its own tree.
LEMMA ApplyGives ==
  ASSUME TreeInv, NEW r \in requests, Tree!ApplyImport(r)
  PROVE  /\ r.kind = "import" /\ r.file \in TreeFiles /\ FileFits(parent, r.file)
         /\ IsForest(parent, MorePlaces)
         /\ parent' = FinalOf(parent, r.file) /\ units' = units /\ requests' = requests \ {r}
<1> DEFINE file == r.file
           final == FinalOf(parent, file)
           codes == Tree!Codes(file)
<1>1. r.kind = "import" /\ file \in TreeFiles /\ FileFits(parent, file) /\ IsForest(parent, MorePlaces)
  <2>1. r.kind = "import"
    BY DEF Tree!ApplyImport
  <2>2. file \in TreeFiles
    BY <2>1 DEF TreeInv, RequestRows, StockRequests
  <2> QED
    BY <2>1, <2>2 DEF TreeInv, LocationRows
<1>2. /\ IsForest(final, MorePlaces) /\ DOMAIN final = DOMAIN parent \union codes
  BY <1>1, FileGives
<1>3. /\ parent' = [l \in DOMAIN parent \union codes |->
                      IF l \in codes /\ final[l] \in (DOMAIN parent \union codes) \union {None}
                      THEN final[l] ELSE IF l \in DOMAIN parent THEN parent[l] ELSE None]
      /\ units' = units /\ requests' = requests \ {r}
  BY TreeWords DEF Tree!ApplyImport, Tree!Known
<1>4. \A l \in DOMAIN final : final[l] \in DOMAIN final \union {None}
  BY <1>2 DEF IsForest
<1>5. \A l \in DOMAIN parent : l \notin codes => final[l] = parent[l]
  BY <1>1, FileGives
<1>6. final = [l \in DOMAIN final |-> final[l]]
  BY <1>2 DEF IsForest
<1> HIDE DEF final, codes
<1>7. parent' = final
  BY <1>2, <1>3, <1>4, <1>5, <1>6
<1> QED
  BY <1>1, <1>3, <1>7 DEF final

\* There are no products, so no transactions either.
LEMMA NoUnits ==
  ASSUME TreeInv
  PROVE  /\ Opened = {} /\ Tree!Open = {}
         /\ \A r \in requests : ~ Tree!Commit(r) /\ ~ Tree!Rollback(r)
         /\ \A p \in Tree!Product : FALSE
<1>1. \A t \in Opened : t.first \in 1..0
  BY DEF TreeInv, LocationRows, Apart, StockRequests
<1>2. Opened = {}
  BY <1>1
<1> QED
  BY <1>2, TreeWords DEF Opened, Tree!Commit, Tree!Rollback

LEMMA TreeStep ==
  ASSUME LocationsAssumption, TreeInv, Tree!UndisturbedTreeNext
  PROVE  TreeInv'
<1> DEFINE Rows == RequestRows(MorePlaces, 0)
           Imports == [kind : {"import"}, file : TreeFiles]
<1>1. /\ 0 \in Nat /\ None \notin MorePlaces /\ SomeRows \in Nat
      /\ LocationRows(MorePlaces, 0) /\ requests \subseteq Rows \union Imports
      /\ \A r, q \in requests : r = q
  BY DEF LocationsAssumption, Tree!LocationsAssumption, Tree!ImportTreeAssumption, TreeInv, ChecksHold
<1>2. ASSUME requests' = {}, LocationRows(MorePlaces, 0)' PROVE TreeInv'
  BY <1>2 DEF TreeInv, ChecksHold
<1>3. ASSUME requests' = {}, RowStep(MorePlaces, 0) PROVE TreeInv'
  BY <1>1, <1>2, <1>3, RowsStay
<1>4. ASSUME requests = {}, NEW r \in Rows \union Imports, Tree!Asked(r),
             r.kind = "move" =>
               /\ r.location \in DOMAIN parent
               /\ r.parent = None \/ (r.parent \in DOMAIN parent /\ Tree!NotDescendant(r.location, r.parent)),
             r.kind = "delete" => Tree!Empty(r.location),
             r.kind = "import" => FileFits(parent, r.file), r.kind # "stock"
      PROVE  TreeInv'
  <2>1. requests' = {r} /\ parent' = parent /\ units' = units
    BY <1>4 DEF Tree!Asked
  <2>2. LocationRows(MorePlaces, 0)'
    <3>1. RowStep(MorePlaces, 0)
      BY <1>4, <2>1 DEF RowStep, Opened
    <3> QED
      BY <1>1, <3>1, RowsStay
  <2>3. r.kind = "move" => r.parent = None \/
          r.location \notin {r.parent} \union AboveAndIt(parent, r.parent, Depth)
    BY <1>4, TreeWords
  <2>4. r.kind = "delete" => Vacant(0, r.location)'
    BY <1>4, <2>1, TreeWords DEF Vacant
  <2>5. ChecksHold(0)'
    BY <1>4, <2>1, <2>3, <2>4 DEF ChecksHold
  <2>6. requests' \subseteq Rows \union Imports
    BY <2>1, <1>4
  <2>7. \A q \in requests' : q.kind = "import" => FileFits(parent', q.file)
    BY <1>4, <2>1
  <2> QED
    BY <2>2, <2>5, <2>6, <2>7 DEF TreeInv, RequestRows, StockRequests
<1>5. ASSUME Tree!Write PROVE TreeInv'
  <2>1. PICK r \in requests : Tree!WriteMove(r) \/ Tree!WriteDelete(r)
    BY <1>5, NoUnits DEF Tree!Write
  <2>2. /\ requests' = requests \ {r} /\ r.kind \in {"move", "delete"}
    BY <2>1 DEF Tree!WriteMove, Tree!WriteDelete
  <2>3. requests' = {} /\ r \in Rows
    BY <1>1, <2>2
  <2>4. Tree!WriteDelete(r) => r.kind = "delete" /\ Deleted(0, r.location)
    BY <1>1, <2>3, NoUnits, TreeWords DEF Tree!WriteDelete, Deleted, Opened
  <2>5. RowStep(MorePlaces, 0)
    BY <1>1, <2>1, <2>3, <2>4, TreeWords, RequestSteps
  <2> QED
    BY <1>3, <2>3, <2>5
<1>6. ASSUME requests = {}, NEW l \in MorePlaces, NEW p \in MorePlaces \union {None},
             Tree!Create(l, p) \/ Tree!CheckMove(l, p)
      PROVE  TreeInv'
  <2>1. CASE Tree!Create(l, p)
    BY <1>1, <1>3, <1>6, <2>1, TreeWords, RequestSteps DEF Tree!Create
  <2>2. CASE Tree!CheckMove(l, p)
    <3> DEFINE r == [kind |-> "move", location |-> l, parent |-> p]
    <3>1. r \in Rows /\ r.kind = "move" /\ r.location = l /\ r.parent = p
      BY DEF RequestRows
    <3>2. Tree!Asked(r) /\ l \in DOMAIN parent
          /\ (p = None \/ (p \in DOMAIN parent /\ Tree!NotDescendant(l, p)))
      BY <2>2, TreeWords DEF Tree!CheckMove
    <3> HIDE DEF r
    <3> QED
      BY <1>4, <1>6, <3>1, <3>2
  <2> QED
    BY <1>6, <2>1, <2>2
<1>7. ASSUME requests = {}, NEW l \in MorePlaces, Tree!CheckDelete(l)
      PROVE  TreeInv'
  <2> DEFINE r == [kind |-> "delete", location |-> l]
  <2>1. r \in Rows /\ r.kind = "delete" /\ r.location = l
    BY DEF RequestRows
  <2>2. Tree!Asked(r) /\ Tree!Empty(l)
    BY <1>7 DEF Tree!CheckDelete
  <2> HIDE DEF r
  <2> QED
    BY <1>4, <1>7, <2>1, <2>2
<1>8. ASSUME requests = {}, Tree!Plan PROVE TreeInv'
  <2>1. PICK n \in 1..SomeRows : \E file \in [1..n -> Tree!Row] : Tree!PlanImport(file)
    BY <1>8 DEF Tree!Plan
  <2>2. PICK file \in [1..n -> Tree!Row] : Tree!PlanImport(file)
    BY <2>1
  <2> DEFINE r == [kind |-> "import", file |-> file]
  <2>3. r \in Imports /\ r.kind = "import" /\ r.file = file
    <3>1. n \in Nat
      OBVIOUS
    <3>2. file \in TreeFiles
      BY <3>1 DEF TreeFiles
    <3> QED
      BY <3>2
  <2>4. FileFits(parent, file)
    BY <2>2, TreeWords DEF Tree!PlanImport, FileFits
  <2>5. Tree!Asked(r)
    BY <2>2 DEF Tree!PlanImport
  <2> HIDE DEF r
  <2> QED
    BY <1>4, <1>8, <2>3, <2>4, <2>5
<1>9. ASSUME Tree!Apply PROVE TreeInv'
  <2>1. PICK r \in requests : Tree!ApplyImport(r)
    BY <1>9 DEF Tree!Apply
  <2>2. /\ r.file \in TreeFiles /\ FileFits(parent, r.file) /\ IsForest(parent, MorePlaces)
        /\ parent' = FinalOf(parent, r.file) /\ units' = units /\ requests' = requests \ {r}
    BY <2>1, ApplyGives
  <2>3. requests' = {}
    BY <1>1, <2>2
  <2>4. IsForest(parent', MorePlaces)
    BY <2>2, FileGives
  <2>5. Held(MorePlaces, 0)' /\ Apart(MorePlaces, 0)'
    BY <1>1, <2>2, <2>3 DEF LocationRows, Held, Apart, Opened
  <2> QED
    BY <1>2, <2>3, <2>4, <2>5 DEF LocationRows
<1> QED
  BY <1>5, <1>6, <1>7, <1>8, <1>9, NoUnits DEF Tree!UndisturbedTreeNext, Tree!Change

LEMMA TreeTreeStep ==
  ASSUME LocationsAssumption, DeepEnough, TreeInv, IsTree(parent), Tree!UndisturbedTreeNext
  PROVE  IsTree(parent)'
<1>1. IsForest(parent, MorePlaces) /\ ChecksHold(0) /\ Depth \in Nat
  BY DEF LocationsAssumption, Deep!LocationsAssumption, TreeInv, LocationRows
<1>2. ASSUME parent' = parent PROVE IsTree(parent)'
  BY <1>2
<1>3. ASSUME NEW l \in MorePlaces, NEW p, Tree!Create(l, p) PROVE IsTree(parent)'
  BY <1>1, <1>3, TreeWords, CreateTree
<1>4. ASSUME NEW r \in requests, Tree!WriteMove(r) PROVE IsTree(parent)'
  BY <1>1, <1>4, TreeWords, MoveTree
<1>5. ASSUME NEW r \in requests, Tree!WriteDelete(r) PROVE IsTree(parent)'
  <2>1. parent' = [k \in DOMAIN parent \ {r.location} |->
                     IF parent[k] = r.location THEN None ELSE parent[k]]
    BY <1>5, TreeWords DEF Tree!WriteDelete
  <2> QED
    BY <1>1, <2>1, DeleteTree
<1>6. ASSUME NEW r \in requests, Tree!ApplyImport(r) PROVE IsTree(parent)'
  <2> DEFINE file == r.file
             final == FinalOf(parent, file)
             codes == Tree!Codes(file)
  <2>1. /\ file \in TreeFiles /\ FileFits(parent, file) /\ parent' = final
    BY <1>6, ApplyGives
  <2>2. /\ IsForest(final, MorePlaces) /\ codes \in SUBSET DOMAIN final
        /\ \A x \in DOMAIN final : x \notin codes => x \in DOMAIN parent /\ final[x] = parent[x]
    BY <1>1, <2>1, FileGives
  <2>3. \A c \in codes : ~ \E i \in 0..((Depth + 1) - 1) : Walk(final, final[c], Depth + 1)[i] = c
    <3>1. \A c \in codes : \E i \in DOMAIN file : c = file[i].code
      BY DEF Tree!Codes
    <3> QED
      BY <2>1, <3>1 DEF FileFits
  <2>4. /\ Depth + 1 \in Nat /\ Cardinality(MorePlaces) <= Depth + 1 /\ IsFiniteSet(MorePlaces)
    BY <1>1, FS_CardinalityType DEF DeepEnough
  <2> DEFINE n == Depth + 1
  <2>5. /\ n \in Nat /\ Cardinality(MorePlaces) <= n /\ IsFiniteSet(MorePlaces)
        /\ \A c \in codes : ~ \E i \in 0..(n - 1) : Walk(final, final[c], n)[i] = c
    BY ONLY <2>3, <2>4
  <2> HIDE DEF final, codes, n
  <2>6. IsTree(final)
    BY ONLY IsTree(parent), <2>2, <2>5, FileKeepsTree
  <2> QED
    BY <2>1, <2>6
<1> QED
  BY <1>2, <1>3, <1>4, <1>5, <1>6, NoUnits
     DEF Tree!UndisturbedTreeNext, Tree!Write, Tree!Apply, Tree!Plan, Tree!Change, Tree!CheckMove,
         Tree!CheckDelete, Tree!Asked, Tree!PlanImport

\* What an import has written is the file.
LEMMA TreeGives ==
  /\ LocationsAssumption /\ TreeInv => Tree!LocationsTypeOK
  /\ TreeInv /\ Tree!UndisturbedTreeNext => Tree!ImportsAsAsked
  /\ DeepEnough /\ TreeInv /\ IsTree(parent) => Tree!NeverInsideItself
<1>1. ASSUME LocationsAssumption, TreeInv PROVE Tree!LocationsTypeOK
  <2>1. Held(MorePlaces, 0) /\ IsForest(parent, MorePlaces) /\ 0 \in Nat
    BY <1>1 DEF TreeInv, LocationRows
  <2>2. Tree!Product = 1..0 /\ Tree!Existing = DOMAIN parent
    BY TreeWords
  <2>3. ASSUME NEW l \in MorePlaces, l \notin DOMAIN parent
        PROVE  Tree!Used(l) = 0
    <3>1. Sums!Total([p \in 1..0 |-> units[p][l]], 0) = 0
      BY <2>1, <2>3, NothingHeld
    <3> QED
      BY <3>1, TreeWords
  <2> QED
    BY <2>1, <2>2, <2>3 DEF Tree!LocationsTypeOK, Held, IsForest
<1>2. ASSUME TreeInv, Tree!UndisturbedTreeNext,
             NEW r \in requests \ requests', r.kind = "import", NEW i \in DOMAIN r.file
      PROVE  parent'[r.file[i].code] = r.file[i].parent
  <2>1. \A q \in requests : Tree!WriteMove(q) \/ Tree!WriteDelete(q) =>
          q.kind # "import" /\ requests' = requests \ {q}
    BY DEF Tree!WriteMove, Tree!WriteDelete
  <2>2. Tree!Apply
    <3>1. ~ Tree!Write
      BY <1>2, <2>1, NoUnits DEF Tree!Write
    <3>2. requests # {}
      BY <1>2
    <3> QED
      BY <1>2, <3>1, <3>2 DEF Tree!UndisturbedTreeNext
  <2>3. PICK q \in requests : Tree!ApplyImport(q)
    BY <2>2 DEF Tree!Apply
  <2>4. /\ q.file \in TreeFiles /\ FileFits(parent, q.file) /\ IsForest(parent, MorePlaces)
        /\ parent' = FinalOf(parent, q.file) /\ requests' = requests \ {q}
    BY <1>2, <2>3, ApplyGives
  <2>5. q = r
    BY <1>2, <2>4
  <2>6. i \in DOMAIN q.file /\ r.file = q.file
    BY <2>5
  <2>7. AsAsked(parent', q.file)
    BY ONLY <2>4, FileGives
  <2> QED
    BY ONLY <2>6, <2>7 DEF AsAsked
<1>3. ASSUME DeepEnough, TreeInv, IsTree(parent), NEW l \in DOMAIN parent
      PROVE  l \notin Tree!Above(l)
  <2>1. IsForest(parent, MorePlaces) /\ Cardinality(MorePlaces) \in Nat
    BY <1>3, FS_CardinalityType DEF TreeInv, LocationRows, DeepEnough
  <2>2. l \notin {WalkAbove(parent, parent[l], Cardinality(MorePlaces))[i] :
                   i \in DOMAIN WalkAbove(parent, parent[l], Cardinality(MorePlaces))}
    BY <1>3, <2>1, TreeGivesIt
  <2> QED
    BY <2>2, TreeWords
<1> QED
  BY <1>1, <1>2, <1>3, TreeWords DEF Tree!NeverInsideItself, Tree!ImportsAsAsked

-----------------------------------------------------------------------------
(* The parts with locations, together. *)

\* No location is there at first.
LEMMA NoPlaces ==
  ASSUME parent = <<>>, requests = {}, NEW n \in Nat, NEW places, None \notin places,
         units = [p \in 1..n |-> [l \in places |-> 0]]
  PROVE  LocationRows(places, n) /\ IsTree(parent)
<1>1. DOMAIN parent = {}
  OBVIOUS
<1>2. parent = [l \in DOMAIN parent |-> parent[l]]
  OBVIOUS
<1>3. units \in [1..n -> [places -> Nat]] /\ \A p \in 1..n : \A l \in places : units[p][l] = 0
  OBVIOUS
<1>4. Heights(parent, [l \in {} |-> 0])
  BY <1>1 DEF Heights
<1> QED
  BY <1>1, <1>2, <1>3, <1>4 DEF LocationRows, IsForest, Held, Apart, Opened, IsTree

TreesInv ==
  /\ part = "locations" => CapacityInv
  /\ part = "deep locations" => DeepInv
  /\ part = "import of locations" => TreeInv

TreesStand == part \in {"deep locations", "import of locations"} => IsTree(parent)

LEMMA NothingFits ==
  ASSUME PlacesInv, SomeProducts \in Nat, Room \in Nat, requests = {},
         units = [p \in 1..SomeProducts |-> [l \in Places |-> 0]]
  PROVE  CapacityInv
<1>1. Opened = {}
  BY DEF Opened
<1>2. ASSUME NEW l \in Places
      PROVE  InPlace(SomeProducts, l) + Weights(Opened, SomeProducts, l) <= SomeProducts * Room
  <2> DEFINE n == SomeProducts
             f == [p \in 1..n |-> units[p][l]]
             g == [k \in 1..n |-> Weight(Opened, n, l, k)]
  <2>1. \A p \in 1..n : f[p] = 0 /\ g[p] = 0
    BY <1>1 DEF Weight
  <2>2. InPlace(n, l) = Sums!Total(f, n) /\ Weights(Opened, n, l) = Sums!Total(g, n)
    BY DEF InPlace, Weights
  <2> HIDE DEF f, g
  <2>3. Sums!Total(f, n) = 0 /\ Sums!Total(g, n) = 0
    BY <2>1, Sums!TotalAllZero, 0 \in Nat
  <2>4. 0 <= SomeProducts * Room
    OBVIOUS
  <2> QED
    BY <2>2, <2>3, <2>4
<1> QED
  BY <1>1, <1>2 DEF CapacityInv

LEMMA TreesInit == ASSUME Init PROVE TreesInv /\ TreesStand
<1>1. /\ SomeProducts \in Nat /\ Room \in Nat /\ None \notin Places /\ None \notin MorePlaces
      /\ 0 \in Nat /\ 1 \in Nat
  BY LocationsAssumption
     DEF L!LocationsAssumption, Deep!LocationsAssumption, LocationsAssumption
<1>2. ASSUME part = "locations" PROVE CapacityInv
  <2>1. units = [p \in 1..SomeProducts |-> [l \in Places |-> 0]] /\ requests = {} /\ parent = <<>>
    BY <1>2 DEF Init, LocationsInit, L!Init, L!Product
  <2>2. PlacesInv
    BY <1>1, <2>1, NoPlaces DEF PlacesInv
  <2> QED
    BY <1>1, <2>1, <2>2, NothingFits
<1>3. ASSUME part = "deep locations" PROVE DeepInv /\ IsTree(parent)
  <2>1. units = [p \in 1..1 |-> [l \in MorePlaces |-> 0]] /\ requests = {} /\ parent = <<>>
    BY <1>3 DEF Init, LocationsInit, Deep!Init, Deep!Product
  <2> QED
    BY <1>1, <2>1, NoPlaces DEF DeepInv, ChecksHold
<1>4. ASSUME part = "import of locations" PROVE TreeInv /\ IsTree(parent)
  <2>1. units = [p \in 1..0 |-> [l \in MorePlaces |-> 0]] /\ requests = {} /\ parent = <<>>
    BY <1>4 DEF Init, LocationsInit, Tree!Init, Tree!Product
  <2> QED
    BY <1>1, <2>1, NoPlaces DEF TreeInv, ChecksHold
<1> QED
  BY <1>2, <1>3, <1>4 DEF TreesInv, TreesStand

LEMMA TreesStep ==
  ASSUME TreesInv, [Next]_vars
  PROVE  TreesInv' /\ (DeepEnough /\ TreesStand => TreesStand')
<1>1. LocationsAssumption
  BY LocationsAssumption DEF LocationsAssumption
<1>2. ASSUME UNCHANGED vars PROVE TreesInv' /\ (TreesStand => TreesStand')
  <2>1. part' = part /\ units' = units /\ requests' = requests /\ parent' = parent
    BY <1>2 DEF vars, locationVars
  <2>2. \A places, n : LocationRows(places, n)' <=> LocationRows(places, n)
    BY <2>1 DEF LocationRows, Held, Apart, Opened
  <2>3. \A n : ChecksHold(n)' <=> ChecksHold(n)
    BY <2>1 DEF ChecksHold, Vacant
  <2>4. (CapacityInv => CapacityInv') /\ (DeepInv => DeepInv')
    BY <2>1, <2>2, <2>3 DEF CapacityInv, Opened, InPlace, PlacesInv, DeepInv, RequestRows
  <2>5. TreeInv => TreeInv'
    BY <2>1, <2>2, <2>3 DEF TreeInv, RequestRows
  <2> QED
    BY <1>2, <2>1, <2>4, <2>5 DEF TreesInv, TreesStand
<1>3. ASSUME Next PROVE TreesInv' /\ (DeepEnough /\ TreesStand => TreesStand')
  <2>1. part' = part
    BY <1>3 DEF Next
  <2>2. part = "locations" => L!Next
    BY <1>3 DEF Next, LocationsNext
  <2>3. part = "deep locations" => Deep!UndisturbedNext
    BY <1>3 DEF Next, LocationsNext
  <2>4. part = "import of locations" => Tree!UndisturbedTreeNext
    BY <1>3 DEF Next, LocationsNext
  <2>5. TreesInv'
    BY <1>1, <2>1, <2>2, <2>3, <2>4, CapacityStep, DeepStep, TreeStep DEF TreesInv
  <2>6. ASSUME DeepEnough, TreesStand PROVE TreesStand'
    BY <1>1, <2>1, <2>3, <2>4, <2>6, DeepTreeStep, TreeTreeStep DEF TreesInv, TreesStand
  <2> QED
    BY <2>5, <2>6
<1> QED
  BY <1>2, <1>3

LEMMA TreesPart == Spec => []TreesInv
BY TreesInit, TreesStep, PTL DEF Spec

\* Deletions and imports of trees do what was asked.
TreesRight ==
  /\ part = "deep locations" => Deep!DeletesEmpty
  /\ part = "import of locations" => Tree!ImportsAsAsked

\* What is written to locations is what was asked.
LEMMA TreesWrite == Spec => [][TreesRight]_vars
<1>1. LocationsAssumption
  BY LocationsAssumption DEF LocationsAssumption
<1>2. TreesInv /\ [Next]_vars => TreesRight
  <2> SUFFICES ASSUME TreesInv, [Next]_vars PROVE TreesRight
    OBVIOUS
  <2>1. ASSUME part = "deep locations" PROVE Deep!DeletesEmpty
    BY <2>1, DeepGives DEF TreesInv
  <2>2. ASSUME part = "import of locations" PROVE Tree!ImportsAsAsked
    <3>1. TreeInv /\ (Tree!UndisturbedTreeNext \/ UNCHANGED locationVars)
      BY <2>2 DEF TreesInv, Next, LocationsNext, vars
    <3>2. ASSUME UNCHANGED locationVars PROVE Tree!ImportsAsAsked
      BY <3>2 DEF locationVars, Tree!ImportsAsAsked
    <3> QED
      BY <1>1, <3>1, <3>2, TreeGives
  <2> QED
    BY <2>1, <2>2 DEF TreesRight
<1> QED
  BY <1>2, TreesPart, PTL DEF Spec

-----------------------------------------------------------------------------
(* Cycle counts.  What a line remembers fits the books as long as nothing   *)
(* moved in its place, and what was counted fits what is there.            *)

Bins == INSTANCE ShelfTheorems WITH NumLocations <- Bays

CountLine == [made : BOOLEAN, expected : Int, counted : Nat \union {-1},
              moved : BOOLEAN, exact : BOOLEAN]

CountRow == [status : {"none", "open", "submitted", "approved", "cancelled"},
             lines : [C!Place -> CountLine],
             reading : {"nothing", "create", "add"}, read : Nat]

BooksRow == [onHand : Nat, reserved : Nat, picked : Nat, loc : [1..Bays -> Nat]]

\* A line, beside what is booked and what is there in its place.
LineAgrees(line, booked, there) ==
  /\ line.made /\ ~line.moved => booked = line.expected
  /\ line.made /\ line.exact => booked + (line.counted - line.expected) = there

\* A count, beside the books and what is there.
CountAgrees(row, b, there) ==
  /\ \A p \in C!Place : LineAgrees(row.lines[p], C!Booked(b, p), there[p])
  /\ row.reading # "nothing" /\ ~row.lines[0].moved => row.read = b.onHand - b.picked
  /\ row.status = "none" => \A p \in C!Place : ~row.lines[p].made
  /\ row.reading = "add" => row.status = "open"

BooksKept(b) ==
  b.picked <= b.reserved /\ b.reserved <= b.onHand /\ C!Unlocated(b) >= 0

CountsInv ==
  /\ books \in BooksRow /\ real \in [C!Place -> Nat] /\ surprises \in 0..SomeSurprises
  /\ counts \in [Countings -> CountRow]
  /\ BooksKept(books)
  /\ \A c \in Countings : CountAgrees(counts[c], books, real)

\* No count is approved from one state to the next.
NoneApproved ==
  \A c \in Countings : counts[c].status = "submitted" => counts'[c].status # "approved"

\* The operators of this part, in the words of the lemmas.
LEMMA CountWords ==
  /\ C!Place = 1..Bays \union {0} /\ C!NoLocation = 0 /\ C!NotCounted = -1
  /\ \A b : C!Unlocated(b) = b.onHand - b.picked - Bins!LocatedQuantity(b.loc)
  /\ \A b, p : C!Booked(b, p) = IF p = 0 THEN C!Unlocated(b) ELSE b.loc[p]
  /\ \A loc, p, q : C!PutAway(loc, p, q) = Bins!PutAway(loc, p, q)
  /\ \A loc, p, q : C!Taken(loc, q, p) = Bins!Taken(loc, q, p)
<1>1. \A loc : C!LocatedQuantity(loc) = Bins!LocatedQuantity(loc)
  BY Zenon DEF C!LocatedQuantity, Bins!LocatedQuantity, C!Total, Bins!Total
<1>2. \A b : C!Unlocated(b) = b.onHand - b.picked - Bins!LocatedQuantity(b.loc)
  BY <1>1 DEF C!Unlocated, C!UnlocatedQuantity
<1>3. C!NoLocation = 0 /\ C!Place = 1..Bays \union {0}
  BY DEF C!NoLocation, C!Place, C!Location
<1>4. \A b, p : C!Booked(b, p) = IF p = 0 THEN C!Unlocated(b) ELSE b.loc[p]
  BY <1>3 DEF C!Booked
<1>5. /\ \A loc, p, q : C!PutAway(loc, p, q) = Bins!PutAway(loc, p, q)
      /\ \A loc, p, q : C!Taken(loc, q, p) = Bins!Taken(loc, q, p)
  BY Zenon DEF C!PutAway, Bins!PutAway, C!Taken, Bins!Taken, C!NoLocation, Bins!NoLocation
<1>6. C!NotCounted = -1
  BY DEF C!NotCounted
<1> QED
  BY <1>2, <1>3, <1>4, <1>5, <1>6

\* What units that are put away, or taken, change in the locations.
LEMMA BinsStore ==
  ASSUME NEW loc \in [1..Bays -> Nat], NEW p \in 1..Bays \union {0}, NEW q \in Nat, Bays \in Nat
  PROVE  /\ C!PutAway(loc, p, q) \in [1..Bays -> Nat]
         /\ Bins!LocatedQuantity(C!PutAway(loc, p, q))
              = Bins!LocatedQuantity(loc) + (IF p = 0 THEN 0 ELSE q)
         /\ \A l \in 1..Bays : C!PutAway(loc, p, q)[l] = loc[l] + (IF l = p THEN q ELSE 0)
         /\ Bins!LocatedQuantity(loc) \in Int
<1>1. Bins!Location = 1..Bays /\ Bins!NoLocation = 0
  BY DEF Bins!Location, Bins!NoLocation
<1>2. /\ Bins!PutAway(loc, p, q) \in [1..Bays -> Nat]
      /\ Bins!LocatedQuantity(Bins!PutAway(loc, p, q))
           = Bins!LocatedQuantity(loc) + (IF p = 0 THEN 0 ELSE q)
  BY <1>1, Bins!PutAwayStores
<1>3. Bins!LocatedQuantity(loc) \in Int
  BY <1>1, Bins!LocatedInt
<1>4. \A l \in 1..Bays : Bins!PutAway(loc, p, q)[l] = loc[l] + (IF l = p THEN q ELSE 0)
  BY DEF Bins!PutAway, Bins!NoLocation
<1>5. C!PutAway(loc, p, q) = Bins!PutAway(loc, p, q)
  BY CountWords
<1> QED
  BY <1>2, <1>3, <1>4, <1>5

LEMMA BinsTake ==
  ASSUME NEW loc \in [1..Bays -> Nat], NEW p \in 1..Bays \union {0}, NEW q \in Nat, Bays \in Nat,
         p = 0 \/ q <= loc[p]
  PROVE  /\ C!Taken(loc, q, p) \in [1..Bays -> Nat]
         /\ Bins!LocatedQuantity(C!Taken(loc, q, p))
              = Bins!LocatedQuantity(loc) - (IF p = 0 THEN 0 ELSE q)
         /\ \A l \in 1..Bays : C!Taken(loc, q, p)[l] = loc[l] - (IF l = p THEN q ELSE 0)
         /\ Bins!LocatedQuantity(loc) \in Int
<1>1. Bins!Location = 1..Bays /\ Bins!NoLocation = 0
  BY DEF Bins!Location, Bins!NoLocation
<1>2. /\ Bins!Taken(loc, q, p) \in [1..Bays -> Nat]
      /\ Bins!LocatedQuantity(Bins!Taken(loc, q, p))
           = Bins!LocatedQuantity(loc) - (IF p = 0 THEN 0 ELSE q)
  BY <1>1, Bins!TakenLeaves
<1>3. Bins!LocatedQuantity(loc) \in Int
  BY <1>1, Bins!LocatedInt
<1>4. \A l \in 1..Bays : Bins!Taken(loc, q, p)[l] = loc[l] - (IF l = p THEN q ELSE 0)
  BY DEF Bins!Taken, Bins!NoLocation
<1>5. C!Taken(loc, q, p) = Bins!Taken(loc, q, p)
  BY CountWords
<1> QED
  BY <1>2, <1>3, <1>4, <1>5

LEMMA BookedInt ==
  ASSUME NEW b \in BooksRow, NEW p \in C!Place, Bays \in Nat
  PROVE  C!Booked(b, p) \in Int /\ C!Unlocated(b) \in Int
<1>1. b.loc \in [1..Bays -> Nat] /\ b.onHand \in Nat /\ b.picked \in Nat
  BY DEF BooksRow
<1>2. Bins!LocatedQuantity(b.loc) \in Int
  BY <1>1, BinsStore, CountWords, 0 \in Nat
<1>3. C!Unlocated(b) \in Int
  BY <1>1, <1>2, CountWords
<1>4. p # 0 => p \in 1..Bays
  BY CountWords
<1> QED
  BY <1>1, <1>3, <1>4, CountWords

\* Units that move, and are booked, leave every count in agreement.
LEMMA MovedAgrees ==
  ASSUME CountsInv, Bays \in Nat, NEW near \in SUBSET C!Place, C!Disturb(near),
         books' \in BooksRow, BooksKept(books'), real' \in [C!Place -> Nat], surprises' = surprises,
         \A p \in C!Place : C!Booked(books', p) - C!Booked(books, p) = real'[p] - real[p],
         \A p \in C!Place \ near : C!Booked(books', p) = C!Booked(books, p)
  PROVE  CountsInv' /\ NoneApproved
<1>1. /\ counts \in [Countings -> CountRow] /\ 0 \in C!Place
      /\ \A p \in C!Place : real[p] \in Int /\ real'[p] \in Int
      /\ \A p \in C!Place : C!Booked(books, p) \in Int /\ C!Booked(books', p) \in Int
  BY BookedInt, CountWords DEF CountsInv
<1>2. ASSUME NEW c \in Countings
      PROVE  /\ counts'[c] \in CountRow /\ counts'[c].status = counts[c].status
             /\ CountAgrees(counts'[c], books', real')
  <2> DEFINE row == counts[c]
             touched == IF row.reading = "nothing" THEN near ELSE C!Place
             after == [row EXCEPT !.lines =
                         [p \in C!Place |-> IF p \in touched THEN [@[p] EXCEPT !.moved = TRUE] ELSE @[p]]]
  <2>1. row \in CountRow /\ CountAgrees(row, books, real)
    BY <1>1 DEF CountsInv
  <2>2. counts'[c] = after
    BY DEF C!Disturb, C!Disturbed
  <2>3. \A p \in C!Place : row.lines[p] \in CountLine
    BY <2>1 DEF CountRow
  <2> DEFINE lines == [p \in C!Place |->
                         IF p \in touched THEN [row.lines[p] EXCEPT !.moved = TRUE] ELSE row.lines[p]]
  <2>9. after = [row EXCEPT !.lines = lines]
    OBVIOUS
  <2>4. /\ after.status = row.status /\ after.reading = row.reading /\ after.read = row.read
        /\ \A p \in C!Place : after.lines[p] =
             IF p \in touched THEN [row.lines[p] EXCEPT !.moved = TRUE] ELSE row.lines[p]
        /\ after = [status |-> row.status, lines |-> after.lines, reading |-> row.reading,
                    read |-> row.read]
        /\ after.lines = [p \in C!Place |->
             IF p \in touched THEN [row.lines[p] EXCEPT !.moved = TRUE] ELSE row.lines[p]]
    <3> HIDE DEF touched
    <3>1. row = [status |-> row.status, lines |-> row.lines, reading |-> row.reading,
                 read |-> row.read]
      BY <2>1 DEF CountRow
    <3>2. after.lines = lines /\ after = [status |-> row.status, lines |-> lines,
                                          reading |-> row.reading, read |-> row.read]
      <4> HIDE DEF lines, row
      <4> QED
        BY <2>9, <3>1
    <3> QED
      BY <3>2
  <2>5. \A p \in C!Place :
          /\ after.lines[p] \in CountLine
          /\ after.lines[p].made = row.lines[p].made /\ after.lines[p].exact = row.lines[p].exact
          /\ after.lines[p].expected = row.lines[p].expected
          /\ after.lines[p].counted = row.lines[p].counted
          /\ ~after.lines[p].moved => ~row.lines[p].moved /\ p \notin near
          /\ ~after.lines[p].moved => row.reading = "nothing"
    BY <2>3, <2>4 DEF CountLine
  <2> HIDE DEF after
  <2>6. after \in CountRow
    BY <2>1, <2>4, <2>5 DEF CountRow
  <2>7. ASSUME NEW p \in C!Place
        PROVE  LineAgrees(after.lines[p], C!Booked(books', p), real'[p])
    <3>1. LineAgrees(row.lines[p], C!Booked(books, p), real[p])
      BY <2>1 DEF CountAgrees
    <3>2. row.lines[p].expected \in Int /\ row.lines[p].counted \in Int
      BY <2>3 DEF CountLine
    <3>3. /\ C!Booked(books', p) - C!Booked(books, p) = real'[p] - real[p]
          /\ p \notin near => C!Booked(books', p) = C!Booked(books, p)
          /\ real[p] \in Int /\ real'[p] \in Int
          /\ C!Booked(books, p) \in Int /\ C!Booked(books', p) \in Int
      BY <1>1
    <3> QED
      BY ONLY <2>5, <3>1, <3>2, <3>3, p \in C!Place DEF LineAgrees
  <2>8. CountAgrees(after, books', real')
    BY <1>1, <2>1, <2>4, <2>5, <2>7 DEF CountAgrees
  <2> QED
    BY <2>2, <2>4, <2>6, <2>8
<1>3. counts' = [c \in Countings |-> counts'[c]]
  BY DEF C!Disturb
<1>4. counts' \in [Countings -> CountRow]
  BY <1>2, <1>3
<1> QED
  BY <1>1, <1>2, <1>4 DEF CountsInv, NoneApproved


\* Books whose shelves change by units that are put away or taken.
LEMMA StoredBooks ==
  ASSUME NEW b \in BooksRow, BooksKept(b), Bays \in Nat,
         NEW p \in C!Place, NEW q \in Nat,
         NEW after, after.loc = C!PutAway(b.loc, p, q),
         after = [onHand |-> after.onHand, reserved |-> b.reserved, picked |-> b.picked,
                  loc |-> after.loc],
         after.onHand = b.onHand + q
  PROVE  /\ after \in BooksRow /\ BooksKept(after)
         /\ \A k \in C!Place : C!Booked(after, k) = C!Booked(b, k) + (IF k = p THEN q ELSE 0)
<1>1. /\ b.onHand \in Nat /\ b.reserved \in Nat /\ b.picked \in Nat /\ b.loc \in [1..Bays -> Nat]
      /\ after.reserved = b.reserved /\ after.picked = b.picked
      /\ b.picked <= b.reserved /\ b.reserved <= b.onHand /\ C!Unlocated(b) >= 0
  BY DEF BooksRow, BooksKept
<1>2. /\ p \in 1..Bays \union {0} /\ after.loc \in [1..Bays -> Nat]
      /\ Bins!LocatedQuantity(after.loc) = Bins!LocatedQuantity(b.loc) + (IF p = 0 THEN 0 ELSE q)
      /\ \A l \in 1..Bays : after.loc[l] = b.loc[l] + (IF l = p THEN q ELSE 0)
      /\ Bins!LocatedQuantity(b.loc) \in Int
  <2> DEFINE loc == b.loc
             later == after.loc
  <2>1. p \in 1..Bays \union {0} /\ loc \in [1..Bays -> Nat] /\ later = C!PutAway(loc, p, q)
    BY <1>1, CountWords
  <2> HIDE DEF loc, later
  <2>2. /\ C!PutAway(loc, p, q) \in [1..Bays -> Nat]
        /\ Bins!LocatedQuantity(C!PutAway(loc, p, q))
             = Bins!LocatedQuantity(loc) + (IF p = 0 THEN 0 ELSE q)
        /\ \A l \in 1..Bays : C!PutAway(loc, p, q)[l] = loc[l] + (IF l = p THEN q ELSE 0)
        /\ Bins!LocatedQuantity(loc) \in Int
    BY ONLY <2>1, q \in Nat, Bays \in Nat, BinsStore
  <2> QED
    BY <2>1, <2>2 DEF loc, later
<1>3. after.onHand \in Nat
  BY <1>1
<1>4. after \in BooksRow
  BY <1>1, <1>2, <1>3 DEF BooksRow
<1>5. /\ C!Unlocated(b) = b.onHand - b.picked - Bins!LocatedQuantity(b.loc)
      /\ C!Unlocated(after) = after.onHand - after.picked - Bins!LocatedQuantity(after.loc)
      /\ \A k \in C!Place : k \in 1..Bays \union {0}
      /\ \A k : C!Booked(b, k) = IF k = 0 THEN C!Unlocated(b) ELSE b.loc[k]
      /\ \A k : C!Booked(after, k) = IF k = 0 THEN C!Unlocated(after) ELSE after.loc[k]
  BY CountWords
<1>6. BooksKept(after)
  BY <1>1, <1>2, <1>5 DEF BooksKept
<1>7. ASSUME NEW k \in C!Place
      PROVE  C!Booked(after, k) = C!Booked(b, k) + (IF k = p THEN q ELSE 0)
  <2>1. ASSUME k = 0 PROVE C!Booked(after, k) = C!Booked(b, k) + (IF k = p THEN q ELSE 0)
    <3>1. C!Booked(after, k) = C!Unlocated(after) /\ C!Booked(b, k) = C!Unlocated(b)
      BY <1>5, <2>1
    <3> QED
      BY <1>1, <1>2, <1>5, <2>1, <3>1
  <2>2. ASSUME k # 0 PROVE C!Booked(after, k) = C!Booked(b, k) + (IF k = p THEN q ELSE 0)
    <3>1. C!Booked(after, k) = after.loc[k] /\ C!Booked(b, k) = b.loc[k] /\ k \in 1..Bays
      BY <1>5, <2>2
    <3> QED
      BY <1>2, <3>1
  <2> QED
    BY <2>1, <2>2
<1> QED
  BY <1>4, <1>6, <1>7

LEMMA TakenBooks ==
  ASSUME NEW b \in BooksRow, BooksKept(b), Bays \in Nat,
         NEW p \in C!Place, NEW q \in Nat, q <= C!Booked(b, p),
         NEW after, after.loc = C!Taken(b.loc, q, p),
         after = [onHand |-> after.onHand, reserved |-> b.reserved, picked |-> after.picked,
                  loc |-> after.loc],
         after.onHand - after.picked = b.onHand - b.picked - q,
         after.onHand \in Nat, after.picked \in Nat,
         after.picked <= b.reserved, b.reserved <= after.onHand
  PROVE  /\ after \in BooksRow /\ BooksKept(after)
         /\ \A k \in C!Place : C!Booked(after, k) = C!Booked(b, k) - (IF k = p THEN q ELSE 0)
<1>1. /\ b.onHand \in Nat /\ b.reserved \in Nat /\ b.picked \in Nat /\ b.loc \in [1..Bays -> Nat]
      /\ after.reserved = b.reserved /\ C!Unlocated(b) >= 0
  BY DEF BooksRow, BooksKept
<1>2. /\ C!Unlocated(b) = b.onHand - b.picked - Bins!LocatedQuantity(b.loc)
      /\ C!Unlocated(after) = after.onHand - after.picked - Bins!LocatedQuantity(after.loc)
      /\ \A k \in C!Place : k \in 1..Bays \union {0}
      /\ \A k : C!Booked(b, k) = IF k = 0 THEN C!Unlocated(b) ELSE b.loc[k]
      /\ \A k : C!Booked(after, k) = IF k = 0 THEN C!Unlocated(after) ELSE after.loc[k]
  BY CountWords
<1>3. /\ p = 0 \/ q <= b.loc[p]
      /\ p \in 1..Bays \union {0}
  BY <1>2
<1>4. /\ after.loc \in [1..Bays -> Nat]
      /\ Bins!LocatedQuantity(after.loc) = Bins!LocatedQuantity(b.loc) - (IF p = 0 THEN 0 ELSE q)
      /\ \A l \in 1..Bays : after.loc[l] = b.loc[l] - (IF l = p THEN q ELSE 0)
      /\ Bins!LocatedQuantity(b.loc) \in Int
  <2> DEFINE loc == b.loc
             later == after.loc
  <2>1. loc \in [1..Bays -> Nat] /\ later = C!Taken(loc, q, p) /\ (p = 0 \/ q <= loc[p])
    BY <1>1, <1>3
  <2> HIDE DEF loc, later
  <2>2. /\ later \in [1..Bays -> Nat]
        /\ Bins!LocatedQuantity(later) = Bins!LocatedQuantity(loc) - (IF p = 0 THEN 0 ELSE q)
        /\ \A l \in 1..Bays : later[l] = loc[l] - (IF l = p THEN q ELSE 0)
        /\ Bins!LocatedQuantity(loc) \in Int
    BY ONLY <1>3, <2>1, q \in Nat, Bays \in Nat, BinsTake
  <2> QED
    BY <2>2 DEF loc, later
<1>5. after \in BooksRow
  BY <1>1, <1>4 DEF BooksRow
<1>6. ASSUME NEW k \in C!Place
      PROVE  C!Booked(after, k) = C!Booked(b, k) - (IF k = p THEN q ELSE 0)
  <2>1. ASSUME k = 0 PROVE C!Booked(after, k) = C!Booked(b, k) - (IF k = p THEN q ELSE 0)
    <3>1. C!Booked(after, k) = C!Unlocated(after) /\ C!Booked(b, k) = C!Unlocated(b)
      BY <1>2, <2>1
    <3> QED
      BY <1>1, <1>2, <1>3, <1>4, <2>1, <3>1
  <2>2. ASSUME k # 0 PROVE C!Booked(after, k) = C!Booked(b, k) - (IF k = p THEN q ELSE 0)
    <3>1. C!Booked(after, k) = after.loc[k] /\ C!Booked(b, k) = b.loc[k] /\ k \in 1..Bays
      BY <1>2, <2>2
    <3> QED
      BY <1>4, <3>1
  <2> QED
    BY <2>1, <2>2
<1>7. C!Unlocated(after) >= 0
  <2>1. C!Booked(after, 0) = C!Unlocated(after) /\ 0 \in C!Place
    BY <1>2, CountWords
  <2> QED
    BY <1>1, <1>2, <1>3, <1>4
<1>8. BooksKept(after)
  BY <1>1, <1>7 DEF BooksKept
<1> QED
  BY <1>5, <1>6, <1>8

LEMMA ReceiveCounts ==
  ASSUME CountsInv, Bays \in Nat, NEW p \in C!Place, C!Receive(p)
  PROVE  CountsInv' /\ NoneApproved
<1>1. books \in BooksRow /\ BooksKept(books) /\ real \in [C!Place -> Nat] /\ 1 \in Nat
  BY DEF CountsInv
<1>2. /\ books'.loc = C!PutAway(books.loc, p, 1) /\ books'.onHand = books.onHand + 1
      /\ books' = [onHand |-> books'.onHand, reserved |-> books.reserved, picked |-> books.picked,
                   loc |-> books'.loc]
  BY <1>1 DEF C!Receive, BooksRow
<1>3. /\ books' \in BooksRow /\ BooksKept(books')
      /\ \A k \in C!Place : C!Booked(books', k) = C!Booked(books, k) + (IF k = p THEN 1 ELSE 0)
  <2>1. books.onHand \in Nat
    BY <1>1 DEF BooksRow
  <2> QED
    BY <1>1, <1>2, <2>1, StoredBooks
<1>4. /\ real' \in [C!Place -> Nat] /\ C!Disturb({p}) /\ surprises' = surprises
      /\ \A k \in C!Place : real'[k] = real[k] + (IF k = p THEN 1 ELSE 0)
  BY <1>1 DEF C!Receive
<1>5. \A k \in C!Place : C!Booked(books, k) \in Int /\ real[k] \in Int
  BY <1>1, BookedInt
<1>6. /\ \A k \in C!Place : C!Booked(books', k) - C!Booked(books, k) = real'[k] - real[k]
      /\ \A k \in C!Place \ {p} : C!Booked(books', k) = C!Booked(books, k)
  BY <1>3, <1>4, <1>5
<1> QED
  BY <1>3, <1>4, <1>6, MovedAgrees

LEMMA LeaveCounts ==
  ASSUME CountsInv, Bays \in Nat, NEW p \in C!Place, C!Withdraw(p) \/ C!Pick(p)
  PROVE  CountsInv' /\ NoneApproved
<1>1. books \in BooksRow /\ BooksKept(books) /\ real \in [C!Place -> Nat] /\ 1 \in Nat
  BY DEF CountsInv
<1>2. /\ books.onHand \in Nat /\ books.reserved \in Nat /\ books.picked \in Nat
      /\ books.picked <= books.reserved /\ books.reserved <= books.onHand
  BY <1>1 DEF BooksRow, BooksKept
<1>3. /\ books'.loc = C!Taken(books.loc, 1, p)
      /\ books' = [onHand |-> books'.onHand, reserved |-> books.reserved,
                   picked |-> books'.picked, loc |-> books'.loc]
      /\ \/ books'.onHand = books.onHand - 1 /\ books'.picked = books.picked
            /\ books.onHand - books.reserved >= 1
         \/ books'.onHand = books.onHand /\ books'.picked = books.picked + 1
            /\ books.picked < books.reserved
      /\ C!Booked(books, p) >= 1 /\ real[p] >= 1 /\ C!Disturb({p}) /\ surprises' = surprises
      /\ real' = [real EXCEPT ![p] = @ - 1]
  BY <1>1 DEF C!Withdraw, C!Pick, C!Available, BooksRow
<1>4. /\ books'.onHand - books'.picked = books.onHand - books.picked - 1
      /\ books'.onHand \in Nat /\ books'.picked \in Nat
      /\ books'.picked <= books.reserved /\ books.reserved <= books'.onHand
      /\ 1 <= C!Booked(books, p)
  <2>1. C!Booked(books, p) \in Int
    BY <1>1, BookedInt
  <2> QED
    BY <1>2, <1>3, <2>1
<1>5. /\ books' \in BooksRow /\ BooksKept(books')
      /\ \A k \in C!Place : C!Booked(books', k) = C!Booked(books, k) - (IF k = p THEN 1 ELSE 0)
  BY <1>1, <1>3, <1>4, TakenBooks
<1>6. /\ real' \in [C!Place -> Nat]
      /\ \A k \in C!Place : real'[k] = real[k] - (IF k = p THEN 1 ELSE 0)
  BY <1>1, <1>3
<1>7. \A k \in C!Place : C!Booked(books, k) \in Int /\ real[k] \in Int
  BY <1>1, BookedInt
<1>8. /\ \A k \in C!Place : C!Booked(books', k) - C!Booked(books, k) = real'[k] - real[k]
      /\ \A k \in C!Place \ {p} : C!Booked(books', k) = C!Booked(books, k)
  BY <1>5, <1>6, <1>7
<1> QED
  BY <1>3, <1>5, <1>6, <1>8, MovedAgrees


LEMMA RelocateCounts ==
  ASSUME CountsInv, Bays \in Nat, NEW p \in C!Place, NEW q \in C!Place, C!Relocate(p, q)
  PROVE  CountsInv' /\ NoneApproved
<1> DEFINE loc == books.loc
           mid == C!Taken(loc, 1, p)
           last == C!PutAway(mid, q, 1)
<1>1. /\ books \in BooksRow /\ BooksKept(books) /\ real \in [C!Place -> Nat] /\ 1 \in Nat
      /\ loc \in [1..Bays -> Nat] /\ p # q
      /\ books.onHand \in Nat /\ books.reserved \in Nat /\ books.picked \in Nat
      /\ books.picked <= books.reserved /\ books.reserved <= books.onHand /\ C!Unlocated(books) >= 0
  BY DEF CountsInv, BooksRow, BooksKept, C!Relocate
<1>2. /\ books'.loc = last
      /\ books' = [onHand |-> books.onHand, reserved |-> books.reserved, picked |-> books.picked,
                   loc |-> last]
      /\ C!Booked(books, p) >= 1 /\ real[p] >= 1 /\ C!Disturb({p, q}) /\ surprises' = surprises
      /\ real' = [real EXCEPT ![p] = @ - 1, ![q] = @ + 1]
  BY <1>1 DEF C!Relocate, BooksRow
<1>3. /\ C!Unlocated(books) = books.onHand - books.picked - Bins!LocatedQuantity(loc)
      /\ C!Unlocated(books') = books.onHand - books.picked - Bins!LocatedQuantity(last)
      /\ \A k \in C!Place : k \in 1..Bays \union {0}
      /\ \A k : C!Booked(books, k) = IF k = 0 THEN C!Unlocated(books) ELSE loc[k]
      /\ \A k : C!Booked(books', k) = IF k = 0 THEN C!Unlocated(books') ELSE last[k]
  BY <1>2, CountWords
<1>4. (p = 0 \/ 1 <= loc[p]) /\ p \in 1..Bays \union {0} /\ q \in 1..Bays \union {0}
  <2>1. p # 0 => loc[p] \in Nat
    BY <1>1, <1>3
  <2> QED
    BY <1>2, <1>3, <2>1
<1> HIDE DEF loc, mid, last
<1>5. /\ mid \in [1..Bays -> Nat]
      /\ Bins!LocatedQuantity(mid) = Bins!LocatedQuantity(loc) - (IF p = 0 THEN 0 ELSE 1)
      /\ \A l \in 1..Bays : mid[l] = loc[l] - (IF l = p THEN 1 ELSE 0)
      /\ Bins!LocatedQuantity(loc) \in Int
  BY ONLY <1>1, <1>4, Bays \in Nat, BinsTake DEF mid
<1>6. /\ last \in [1..Bays -> Nat]
      /\ Bins!LocatedQuantity(last) = Bins!LocatedQuantity(mid) + (IF q = 0 THEN 0 ELSE 1)
      /\ \A l \in 1..Bays : last[l] = mid[l] + (IF l = q THEN 1 ELSE 0)
  <2>1. /\ C!PutAway(mid, q, 1) \in [1..Bays -> Nat]
        /\ Bins!LocatedQuantity(C!PutAway(mid, q, 1))
             = Bins!LocatedQuantity(mid) + (IF q = 0 THEN 0 ELSE 1)
        /\ \A l \in 1..Bays : C!PutAway(mid, q, 1)[l] = mid[l] + (IF l = q THEN 1 ELSE 0)
    <3>1. mid \in [1..Bays -> Nat] /\ q \in 1..Bays \union {0} /\ 1 \in Nat
      BY <1>4, <1>5
    <3> QED
      BY ONLY <3>1, Bays \in Nat, BinsStore
  <2> QED
    BY ONLY <2>1 DEF last
<1>14. C!Unlocated(books') = C!Unlocated(books) + (IF p = 0 THEN 0 ELSE 1) - (IF q = 0 THEN 0 ELSE 1)
       /\ C!Unlocated(books) \in Int
  <2> DEFINE first == Bins!LocatedQuantity(loc)
             between == Bins!LocatedQuantity(mid)
             now == Bins!LocatedQuantity(last)
  <2>1. /\ first \in Int /\ between = first - (IF p = 0 THEN 0 ELSE 1)
        /\ now = between + (IF q = 0 THEN 0 ELSE 1)
        /\ C!Unlocated(books) = books.onHand - books.picked - first
        /\ C!Unlocated(books') = books.onHand - books.picked - now
        /\ books.onHand \in Int /\ books.picked \in Int
    <3>1. books.onHand \in Int /\ books.picked \in Int
      BY <1>1
    <3> QED
      BY ONLY <1>3, <1>5, <1>6, <3>1
  <2> HIDE DEF first, between, now
  <2> QED
    BY ONLY <2>1
<1>7. books' \in BooksRow
  BY <1>1, <1>2, <1>6 DEF BooksRow
<1>8. ASSUME NEW k \in C!Place
      PROVE  C!Booked(books', k) = C!Booked(books, k) - (IF k = p THEN 1 ELSE 0) + (IF k = q THEN 1 ELSE 0)
  <2>1. ASSUME k = 0
        PROVE C!Booked(books', k) = C!Booked(books, k) - (IF k = p THEN 1 ELSE 0) + (IF k = q THEN 1 ELSE 0)
    <3>1. C!Booked(books', k) = C!Unlocated(books') /\ C!Booked(books, k) = C!Unlocated(books)
      BY <1>3, <2>1
    <3> QED
      BY ONLY <1>1, <1>14, <2>1, <3>1
  <2>2. ASSUME k # 0
        PROVE C!Booked(books', k) = C!Booked(books, k) - (IF k = p THEN 1 ELSE 0) + (IF k = q THEN 1 ELSE 0)
    <3>1. C!Booked(books', k) = last[k] /\ C!Booked(books, k) = loc[k] /\ k \in 1..Bays
      BY <1>3, <2>2
    <3>2. loc[k] \in Nat
      BY <1>1, <3>1
    <3> QED
      BY <1>5, <1>6, <3>1, <3>2
  <2> QED
    BY <2>1, <2>2
<1>9. BooksKept(books')
  <2>1. C!Unlocated(books') >= 0
    <3>1. q # 0 => C!Unlocated(books) >= (IF p = 0 THEN 1 ELSE 0)
      BY ONLY <1>1, <1>2, <1>3, <1>14
    <3> QED
      BY ONLY <1>1, <1>14, <3>1
  <2>2. /\ books'.picked = books.picked /\ books'.reserved = books.reserved
        /\ books'.onHand = books.onHand
    BY <1>2
  <2> QED
    BY <1>1, <2>1, <2>2 DEF BooksKept
<1>10. /\ real' \in [C!Place -> Nat]
       /\ \A k \in C!Place : real'[k] = real[k] - (IF k = p THEN 1 ELSE 0) + (IF k = q THEN 1 ELSE 0)
  <2>1. real' = [k \in C!Place |-> IF k = q THEN real[k] + 1 ELSE IF k = p THEN real[k] - 1 ELSE real[k]]
    BY <1>1, <1>2
  <2>2. \A k \in C!Place : real[k] \in Nat
    BY <1>1
  <2> QED
    BY ONLY <1>1, <1>2, <2>1, <2>2
<1>11. \A k \in C!Place : C!Booked(books, k) \in Int /\ real[k] \in Int
  BY <1>1, BookedInt
<1>12. /\ \A k \in C!Place : C!Booked(books', k) - C!Booked(books, k) = real'[k] - real[k]
       /\ \A k \in C!Place \ {p, q} : C!Booked(books', k) = C!Booked(books, k)
  BY <1>8, <1>10, <1>11
<1>13. {p, q} \in SUBSET C!Place
  OBVIOUS
<1> QED
  BY ONLY CountsInv, Bays \in Nat, <1>2, <1>7, <1>9, <1>10, <1>12, <1>13, MovedAgrees

LEMMA ReserveCounts ==
  ASSUME CountsInv, Bays \in Nat, C!Reserve
  PROVE  CountsInv' /\ NoneApproved
<1>1. /\ books \in BooksRow /\ BooksKept(books)
      /\ books.onHand \in Nat /\ books.reserved \in Nat /\ books.picked \in Nat
      /\ books.picked <= books.reserved /\ books.reserved <= books.onHand /\ C!Unlocated(books) >= 0
      /\ books.onHand - books.reserved >= 1
  BY DEF CountsInv, BooksRow, BooksKept, C!Reserve, C!Available
<1>2. /\ books' = [books EXCEPT !.reserved = @ + 1] /\ real' = real /\ surprises' = surprises
      /\ counts' = counts
  BY DEF C!Reserve
<1>3. /\ books' \in BooksRow /\ books'.onHand = books.onHand /\ books'.picked = books.picked
      /\ books'.loc = books.loc /\ books'.reserved = books.reserved + 1
  BY <1>1, <1>2 DEF BooksRow
<1>4. C!Unlocated(books') = C!Unlocated(books) /\ \A k : C!Booked(books', k) = C!Booked(books, k)
  BY <1>3, CountWords
<1>5. BooksKept(books')
  BY <1>1, <1>3, <1>4 DEF BooksKept
<1>6. ASSUME NEW c \in Countings PROVE CountAgrees(counts'[c], books', real')
  BY <1>2, <1>3, <1>4 DEF CountsInv, CountAgrees
<1> QED
  BY <1>2, <1>3, <1>5, <1>6 DEF CountsInv, NoneApproved

LEMMA SurpriseCounts ==
  ASSUME CountsInv, Bays \in Nat, SomeSurprises \in Nat,
         NEW p \in C!Place, NEW d \in {-1, 1}, C!Surprise(p, d)
  PROVE  CountsInv' /\ NoneApproved
<1>1. /\ counts \in [Countings -> CountRow] /\ real \in [C!Place -> Nat]
      /\ surprises' \in 0..SomeSurprises /\ books' = books
      /\ real' = [real EXCEPT ![p] = @ + d] /\ real[p] + d \in Nat
  BY DEF CountsInv, C!Surprise
<1>2. real' \in [C!Place -> Nat] /\ \A k \in C!Place : k # p => real'[k] = real[k]
  BY <1>1
<1>3. ASSUME NEW c \in Countings
      PROVE  /\ counts'[c] \in CountRow /\ counts'[c].status = counts[c].status
             /\ CountAgrees(counts'[c], books, real')
  <2> DEFINE row == counts[c]
             after == [row EXCEPT !.lines[p].exact = FALSE]
             lines == [row.lines EXCEPT ![p] = [@ EXCEPT !.exact = FALSE]]
  <2>1. row \in CountRow /\ CountAgrees(row, books, real)
    BY <1>1 DEF CountsInv
  <2>2. counts'[c] = after
    BY DEF C!Surprise
  <2>3. row.lines \in [C!Place -> CountLine]
    BY <2>1 DEF CountRow
  <2>11. row = [status |-> row.status, lines |-> row.lines, reading |-> row.reading,
                read |-> row.read]
    BY <2>1 DEF CountRow
  <2>12. after = [row EXCEPT !.lines = lines]
    BY <2>3, <2>11
  <2>4. after.lines = lines /\ after = [status |-> row.status, lines |-> lines,
                                        reading |-> row.reading, read |-> row.read]
    <3> HIDE DEF lines, row
    <3> QED
      BY <2>11, <2>12
  <2>5. lines \in [C!Place -> CountLine]
    BY <2>3 DEF CountLine
  <2>6. \A k \in C!Place :
          /\ lines[k].made = row.lines[k].made /\ lines[k].expected = row.lines[k].expected
          /\ lines[k].moved = row.lines[k].moved /\ lines[k].counted = row.lines[k].counted
          /\ lines[k].exact => row.lines[k].exact /\ k # p
    BY <2>3 DEF CountLine
  <2> HIDE DEF lines, after
  <2>7. after \in CountRow
    BY <2>1, <2>4, <2>5 DEF CountRow
  <2>8. ASSUME NEW k \in C!Place PROVE LineAgrees(after.lines[k], C!Booked(books, k), real'[k])
    <3>1. LineAgrees(row.lines[k], C!Booked(books, k), real[k])
      BY <2>1 DEF CountAgrees
    <3> QED
      BY <1>2, <2>4, <2>6, <3>1 DEF LineAgrees
  <2>9. 0 \in C!Place
    BY CountWords
  <2>10. CountAgrees(after, books, real')
    BY <2>1, <2>4, <2>6, <2>8, <2>9 DEF CountAgrees
  <2> QED
    BY <2>2, <2>4, <2>7, <2>10
<1>4. counts' = [c \in Countings |-> counts'[c]]
  BY DEF C!Surprise
<1>5. counts' \in [Countings -> CountRow]
  BY <1>3, <1>4
<1> QED
  BY <1>1, <1>2, <1>3, <1>5 DEF CountsInv, NoneApproved


\* A line that is moved, or counted.
LEMMA LineMoved ==
  ASSUME NEW line \in CountLine, NEW m \in BOOLEAN, NEW after, after = [line EXCEPT !.moved = m]
  PROVE  /\ after \in CountLine /\ after.made = line.made /\ after.expected = line.expected
         /\ after.counted = line.counted /\ after.exact = line.exact /\ after.moved = m
BY DEF CountLine

LEMMA LineCounted ==
  ASSUME NEW line \in CountLine, NEW q \in Nat, NEW after, after = C!Counted(line, q)
  PROVE  /\ after \in CountLine /\ after.made = line.made /\ after.expected = line.expected
         /\ after.counted = q /\ after.moved = line.moved /\ after.exact = ~line.moved
BY DEF CountLine, C!Counted

\* The lines that requests make.
LEMMA LineWords ==
  /\ C!NoLine \in CountLine /\ ~C!NoLine.made /\ ~C!NoLine.moved
  /\ \A e \in Int : /\ C!Made(e) \in CountLine /\ C!Made(e).expected = e
                    /\ ~C!Made(e).exact /\ ~C!Made(e).moved
<1>1. C!NoLine = [made |-> FALSE, expected |-> 0, counted |-> -1, moved |-> FALSE, exact |-> FALSE]
  BY DEF C!NoLine, C!NotCounted
<1>2. ASSUME NEW e \in Int
      PROVE  C!Made(e) = [made |-> TRUE, expected |-> e, counted |-> -1, moved |-> FALSE,
                          exact |-> FALSE]
  <2> DEFINE none == C!NoLine
             line == C!Made(e)
  <2>1. none = [made |-> FALSE, expected |-> 0, counted |-> -1, moved |-> FALSE, exact |-> FALSE]
        /\ line = [none EXCEPT !.made = TRUE, !.expected = e]
    BY <1>1 DEF C!Made
  <2> HIDE DEF none, line
  <2>2. line = [made |-> TRUE, expected |-> e, counted |-> -1, moved |-> FALSE, exact |-> FALSE]
    BY ONLY <2>1
  <2> QED
    BY <2>2 DEF line
<1>4. ASSUME NEW e \in Int
      PROVE  /\ C!Made(e) \in CountLine /\ C!Made(e).expected = e
             /\ ~C!Made(e).exact /\ ~C!Made(e).moved
  <2> DEFINE line == C!Made(e)
  <2>1. line = [made |-> TRUE, expected |-> e, counted |-> -1, moved |-> FALSE, exact |-> FALSE]
    BY <1>2
  <2> HIDE DEF line
  <2>2. line \in CountLine /\ line.expected = e /\ line.moved = FALSE /\ line.exact = FALSE
    BY ONLY <2>1, e \in Int DEF CountLine
  <2> QED
    BY <2>2 DEF line
<1>5. C!NoLine \in CountLine /\ ~C!NoLine.made /\ ~C!NoLine.moved
  <2> DEFINE line == C!NoLine
  <2>1. line = [made |-> FALSE, expected |-> 0, counted |-> -1, moved |-> FALSE, exact |-> FALSE]
    BY <1>1
  <2> HIDE DEF line
  <2>2. line \in CountLine /\ line.made = FALSE /\ line.moved = FALSE
    BY ONLY <2>1 DEF CountLine
  <2> QED
    BY <2>2 DEF line
<1> QED
  BY <1>4, <1>5

\* What is counted while nothing moved makes a line exact.
LEMMA CountedAgrees ==
  ASSUME NEW line \in CountLine, NEW booked \in Int, NEW there \in Nat,
         line.made /\ ~line.moved => booked = line.expected
  PROVE  LineAgrees(C!Counted(line, there), booked, there)
<1> DEFINE after == C!Counted(line, there)
<1>1. line.expected \in Int
  BY DEF CountLine
<1>2. /\ after.made = line.made /\ after.expected = line.expected
      /\ after.counted = there /\ after.moved = line.moved /\ after.exact = ~line.moved
  BY LineCounted
<1> HIDE DEF after
<1>3. after.made /\ ~after.moved => booked = after.expected
  BY Zenon, <1>2
<1>4. ASSUME after.made, after.exact PROVE booked + (after.counted - after.expected) = there
  <2>1. booked = line.expected /\ after.expected = line.expected /\ after.counted = there
    BY Zenon, <1>2, <1>4
  <2> QED
    BY <1>1, <2>1
<1>5. LineAgrees(after, booked, there)
  BY <1>3, <1>4 DEF LineAgrees
<1> QED
  BY <1>5 DEF after

\* A count that becomes another row, while the books and the shelves stay.
LEMMA OneCount ==
  ASSUME CountsInv, NEW c \in Countings, NEW row \in CountRow,
         books' = books, real' = real, surprises' = surprises,
         counts' = [counts EXCEPT ![c] = row], CountAgrees(row, books, real),
         counts[c].status = "submitted" => row.status # "approved"
  PROVE  CountsInv' /\ NoneApproved
<1>1. counts' \in [Countings -> CountRow]
      /\ \A k \in Countings : counts'[k] = IF k = c THEN row ELSE counts[k]
  BY DEF CountsInv
<1>2. \A k \in Countings : CountAgrees(counts'[k], books, real)
  BY <1>1 DEF CountsInv
<1>3. BooksKept(books')
  BY DEF CountsInv
<1>4. /\ books' \in BooksRow /\ real' \in [C!Place -> Nat] /\ surprises' \in 0..SomeSurprises
      /\ \A k \in Countings : CountAgrees(counts'[k], books', real')
  BY <1>2 DEF CountsInv
<1> QED
  BY <1>1, <1>3, <1>4 DEF CountsInv, NoneApproved

\* A count that is made anew.
LEMMA NewCount ==
  ASSUME CountsInv, NEW c \in Countings, NEW s \in {"open", "cancelled"},
         NEW lines \in [C!Place -> CountLine],
         books' = books, real' = real, surprises' = surprises,
         counts' = [counts EXCEPT ![c] = [C!NoCount EXCEPT !.status = s, !.lines = lines]],
         \A p \in C!Place : LineAgrees(lines[p], C!Booked(books, p), real[p])
  PROVE  CountsInv' /\ NoneApproved
<1> DEFINE row == [C!NoCount EXCEPT !.status = s, !.lines = lines]
<1>1. row = [status |-> s, lines |-> lines, reading |-> "nothing", read |-> 0]
  <2> DEFINE none == C!NoCount
             empty == C!NoLines
  <2>1. none = [status |-> "none", lines |-> empty, reading |-> "nothing", read |-> 0]
        /\ row = [none EXCEPT !.status = s, !.lines = lines]
    BY DEF C!NoCount
  <2> HIDE DEF none, empty, row
  <2> QED
    BY ONLY <2>1
<1> HIDE DEF row
<1>2. row \in CountRow /\ row.status = s /\ row.lines = lines /\ row.reading = "nothing"
  BY <1>1 DEF CountRow
<1>3. CountAgrees(row, books, real)
  BY <1>2 DEF CountAgrees
<1>4. counts' = [counts EXCEPT ![c] = row] /\ row.status # "approved"
  BY <1>2 DEF row
<1> QED
  BY ONLY CountsInv, c \in Countings, books' = books, real' = real, surprises' = surprises,
          <1>2, <1>3, <1>4, OneCount

\* What a request reads agrees with the books as long as nothing moved.
LEMMA ReadAgrees ==
  ASSUME CountsInv, Bays \in Nat, NEW c \in Countings, counts[c].reading # "nothing",
         NEW first,
         first = [C!Made(C!ReadUnlocated(c)) EXCEPT !.moved = counts[c].lines[0].moved]
  PROVE  /\ first \in CountLine /\ ~first.exact
         /\ ~first.moved => first.expected = C!Unlocated(books)
<1>1. /\ books \in BooksRow /\ counts[c] \in CountRow /\ CountAgrees(counts[c], books, real)
      /\ 0 \in C!Place
  BY CountWords DEF CountsInv
<1>2. /\ counts[c].read \in Nat /\ counts[c].lines \in [C!Place -> CountLine]
      /\ books.onHand \in Nat /\ books.picked \in Nat
  BY <1>1 DEF CountRow, BooksRow
<1>3. counts[c].lines[0].moved \in BOOLEAN
  BY <1>1, <1>2 DEF CountLine
<1>4. ~counts[c].lines[0].moved => counts[c].read = books.onHand - books.picked
  BY <1>1 DEF CountAgrees
<1>5. C!Unlocated(books) = books.onHand - books.picked - C!LocatedQuantity(books.loc)
      /\ C!ReadUnlocated(c) = counts[c].read - C!LocatedQuantity(books.loc)
  BY DEF C!Unlocated, C!UnlocatedQuantity, C!ReadUnlocated
<1>6. C!LocatedQuantity(books.loc) \in Int
  <2>1. C!LocatedQuantity(books.loc) = Bins!LocatedQuantity(books.loc)
    BY Zenon DEF C!LocatedQuantity, Bins!LocatedQuantity, C!Total, Bins!Total
  <2>2. books.loc \in [1..Bays -> Nat]
    BY <1>1 DEF BooksRow
  <2> QED
    BY <2>1, <2>2, BinsStore, 0 \in Nat
<1>7. C!ReadUnlocated(c) \in Int
  BY <1>2, <1>5, <1>6
<1>8. ~counts[c].lines[0].moved => C!ReadUnlocated(c) = C!Unlocated(books)
  BY <1>4, <1>5
<1> DEFINE line == C!Made(C!ReadUnlocated(c))
           m == counts[c].lines[0].moved
<1>9. /\ line \in CountLine /\ line.expected = C!ReadUnlocated(c) /\ ~line.exact
      /\ m \in BOOLEAN /\ first = [line EXCEPT !.moved = m]
  BY <1>3, <1>7, LineWords
<1> HIDE DEF line, m
<1>10. /\ first \in CountLine /\ first.expected = line.expected /\ first.exact = line.exact
       /\ first.moved = m
  BY ONLY <1>9, LineMoved
<1> QED
  BY <1>8, <1>9, <1>10 DEF m

LEMMA CreateCounts ==
  ASSUME CountsInv, Bays \in Nat, NEW c \in Countings,
         \/ \E chosen \in SUBSET C!Location \ {{}} : C!CreateByLocation(c, chosen)
         \/ C!CreateByProduct(c) \/ C!Cancel(c)
  PROVE  CountsInv' /\ NoneApproved
<1>1. /\ books \in BooksRow /\ real \in [C!Place -> Nat] /\ counts[c] \in CountRow
      /\ CountAgrees(counts[c], books, real)
      /\ books' = books /\ real' = real /\ surprises' = surprises
  BY DEF CountsInv, C!CreateByLocation, C!CreateByProduct, C!Cancel
<1>2. /\ \A p \in C!Place : C!Booked(books, p) \in Int
      /\ \A p \in C!Place : p # 0 => C!Booked(books, p) = books.loc[p]
      /\ C!NoLocation = 0 /\ C!Booked(books, 0) = C!Unlocated(books)
      /\ 0 \in C!Place /\ 0 \notin C!Location
  BY <1>1, BookedInt, CountWords DEF C!Location
<1>3. ASSUME NEW chosen \in SUBSET C!Location, C!CreateByLocation(c, chosen)
      PROVE  CountsInv' /\ NoneApproved
  <2> DEFINE lines == [p \in C!Place |-> IF p \in chosen /\ books.loc[p] > 0 THEN C!Made(books.loc[p])
                                         ELSE C!NoLine]
  <2>1. ASSUME NEW p \in C!Place
        PROVE  lines[p] \in CountLine /\ LineAgrees(lines[p], C!Booked(books, p), real[p])
    <3>1. ASSUME p \in chosen, books.loc[p] > 0
          PROVE  lines[p] \in CountLine /\ LineAgrees(lines[p], C!Booked(books, p), real[p])
      <4>1. lines[p] = C!Made(books.loc[p]) /\ C!Booked(books, p) = books.loc[p]
            /\ books.loc[p] \in Int
        BY <1>2, <3>1
      <4> HIDE DEF lines
      <4> QED
        BY <4>1, LineWords DEF LineAgrees
    <3>2. ASSUME ~(p \in chosen /\ books.loc[p] > 0)
          PROVE  lines[p] \in CountLine /\ LineAgrees(lines[p], C!Booked(books, p), real[p])
      <4>1. lines[p] = C!NoLine
        BY <3>2
      <4> HIDE DEF lines
      <4> QED
        BY <4>1, LineWords DEF LineAgrees
    <3> QED
      BY <3>1, <3>2
  <2>2. counts' = [counts EXCEPT ![c] = [C!NoCount EXCEPT !.status = "open", !.lines = lines]]
    BY <1>3 DEF C!CreateByLocation
  <2>3. lines \in [C!Place -> CountLine]
    BY <2>1
  <2> HIDE DEF lines
  <2> QED
    BY <1>1, <2>1, <2>2, <2>3, NewCount
<1>4. ASSUME C!CreateByProduct(c) PROVE CountsInv' /\ NoneApproved
  <2> DEFINE first == [C!Made(C!ReadUnlocated(c)) EXCEPT !.moved = counts[c].lines[0].moved]
             lines == [p \in C!Place |-> IF p = C!NoLocation THEN first
                                         ELSE IF books.loc[p] > 0 THEN C!Made(books.loc[p])
                                         ELSE C!NoLine]
  <2>1. /\ first \in CountLine /\ ~first.exact
        /\ ~first.moved => first.expected = C!Unlocated(books)
    BY <1>2, <1>4, ReadAgrees DEF C!CreateByProduct
  <2> HIDE DEF first
  <2>3. ASSUME NEW p \in C!Place
        PROVE  lines[p] \in CountLine /\ LineAgrees(lines[p], C!Booked(books, p), real[p])
    <3>1. ASSUME p # 0, books.loc[p] > 0
          PROVE  lines[p] \in CountLine /\ LineAgrees(lines[p], C!Booked(books, p), real[p])
      <4>1. lines[p] = C!Made(books.loc[p]) /\ C!Booked(books, p) = books.loc[p]
            /\ books.loc[p] \in Int
        BY <1>2, <3>1
      <4> HIDE DEF lines
      <4> QED
        BY <4>1, LineWords DEF LineAgrees
    <3>2. ASSUME p # 0, ~(books.loc[p] > 0)
          PROVE  lines[p] \in CountLine /\ LineAgrees(lines[p], C!Booked(books, p), real[p])
      <4>1. lines[p] = C!NoLine
        BY <1>2, <3>2
      <4> HIDE DEF lines
      <4> QED
        BY <4>1, LineWords DEF LineAgrees
    <3>3. ASSUME p = 0
          PROVE  lines[p] \in CountLine /\ LineAgrees(lines[p], C!Booked(books, p), real[p])
      <4>1. lines[p] = first /\ C!Booked(books, p) = C!Unlocated(books)
        BY <1>2, <3>3
      <4> HIDE DEF lines
      <4> QED
        BY <2>1, <4>1 DEF LineAgrees
    <3> QED
      BY <3>1, <3>2, <3>3
  <2>4. counts' = [counts EXCEPT ![c] = [C!NoCount EXCEPT !.status = "open", !.lines = lines]]
    BY <1>2, <1>4 DEF C!CreateByProduct, first
  <2>5. lines \in [C!Place -> CountLine]
    BY <2>3
  <2> HIDE DEF lines
  <2> QED
    BY <1>1, <2>3, <2>4, <2>5, NewCount
<1>5. ASSUME C!Cancel(c) PROVE CountsInv' /\ NoneApproved
  <2>1. /\ [C!NoCount EXCEPT !.status = "cancelled"]
             = [C!NoCount EXCEPT !.status = "cancelled", !.lines = C!NoLines]
        /\ C!NoLines = [p \in C!Place |-> C!NoLine]
    <3> DEFINE none == C!NoCount
               empty == C!NoLines
    <3>1. none = [status |-> "none", lines |-> empty, reading |-> "nothing", read |-> 0]
      BY DEF C!NoCount
    <3> HIDE DEF none, empty
    <3> DEFINE one == [none EXCEPT !.status = "cancelled"]
               other == [none EXCEPT !.status = "cancelled", !.lines = empty]
    <3>2. one = [status |-> "cancelled", lines |-> empty, reading |-> "nothing", read |-> 0]
      BY ONLY <3>1
    <3>3. other = [status |-> "cancelled", lines |-> empty, reading |-> "nothing", read |-> 0]
      <4>1. other = [one EXCEPT !.lines = empty]
        OBVIOUS
      <4> HIDE DEF one, other
      <4> QED
        BY ONLY <3>2, <4>1
    <3>4. one = other
      BY ONLY <3>2, <3>3
    <3>5. C!NoLines = [p \in C!Place |-> C!NoLine]
      BY DEF C!NoLines
    <3>6. [C!NoCount EXCEPT !.status = "cancelled"]
            = [C!NoCount EXCEPT !.status = "cancelled", !.lines = C!NoLines]
      BY ONLY <3>4 DEF none, empty
    <3> QED
      BY Zenon, <3>5, <3>6
  <2>2. C!NoLines \in [C!Place -> CountLine]
        /\ \A p \in C!Place : LineAgrees(C!NoLines[p], C!Booked(books, p), real[p])
    BY <2>1, LineWords DEF LineAgrees
  <2>3. counts' = [counts EXCEPT ![c] = [C!NoCount EXCEPT !.status = "cancelled", !.lines = C!NoLines]]
    BY <1>5, <2>1 DEF C!Cancel
  <2> QED
    BY <1>1, <2>2, <2>3, NewCount
<1> QED
  BY <1>3, <1>4, <1>5


\* A request that reads what is on the shelves, and one that adds a line.
LEMMA ReadCounts ==
  ASSUME CountsInv, Bays \in Nat, NEW c \in Countings,
         NEW request \in {"create", "add"}, C!ReadStock(c, request)
  PROVE  CountsInv' /\ NoneApproved
<1> DEFINE row == counts[c]
           line == row.lines[0]
           newLine == [line EXCEPT !.moved = FALSE]
           lines == [row.lines EXCEPT ![0] = newLine]
           units_ == books.onHand - books.picked
           after == [row EXCEPT !.reading = request, !.read = units_, !.lines = lines]
<1>1. /\ books \in BooksRow /\ BooksKept(books) /\ real \in [C!Place -> Nat] /\ row \in CountRow
      /\ CountAgrees(row, books, real) /\ 0 \in C!Place /\ C!NoLocation = 0
      /\ books' = books /\ real' = real /\ surprises' = surprises
  BY CountWords DEF CountsInv, C!ReadStock
<1>2. /\ row = [status |-> row.status, lines |-> row.lines, reading |-> row.reading,
                read |-> row.read]
      /\ row.lines \in [C!Place -> CountLine] /\ line \in CountLine
  BY <1>1 DEF CountRow
<1>3. counts' = [counts EXCEPT ![c] = after]
  <2>1. counts' = [counts EXCEPT ![c].reading = request, ![c].read = units_, ![c].lines[0].moved = FALSE]
    BY <1>1 DEF C!ReadStock
  <2>2. counts \in [Countings -> CountRow]
    BY DEF CountsInv
  <2>3. counts' = [counts EXCEPT ![c] = [row EXCEPT !.reading = request, !.read = units_,
                                                    !.lines[0].moved = FALSE]]
    <3> HIDE DEF units_
    <3> QED
      BY ONLY <2>1, <2>2, c \in Countings DEF CountRow
  <2>4. [row EXCEPT !.reading = request, !.read = units_, !.lines[0].moved = FALSE] = after
    BY <1>2
  <2> QED
    BY <2>3, <2>4
<1>4. newLine \in CountLine /\ newLine.made = line.made
  BY <1>2 DEF CountLine
<1> HIDE DEF newLine
<1>5. /\ lines \in [C!Place -> CountLine] /\ lines[0] = newLine
      /\ \A p \in C!Place : p # 0 => lines[p] = row.lines[p]
  <2> HIDE DEF row
  <2> QED
    BY ONLY <1>1, <1>2, <1>4
<1>6. after = [status |-> row.status, lines |-> lines, reading |-> request, read |-> units_]
  <2> DEFINE one == [row EXCEPT !.reading = request]
             two == [one EXCEPT !.read = units_]
  <2>1. after = [two EXCEPT !.lines = lines]
    OBVIOUS
  <2> HIDE DEF lines, units_, row, after
  <2>2. one = [status |-> row.status, lines |-> row.lines, reading |-> request, read |-> row.read]
    BY ONLY <1>2
  <2> HIDE DEF one
  <2>3. two = [status |-> row.status, lines |-> row.lines, reading |-> request, read |-> units_]
    BY ONLY <2>2
  <2> HIDE DEF two
  <2> QED
    BY ONLY <2>1, <2>3
<1>7. units_ \in Nat
  BY <1>1 DEF BooksRow, BooksKept
<1>8. ~line.made /\ (request = "add" => row.status = "open")
      /\ row.status # "submitted"
  BY <1>1 DEF C!ReadStock, C!Locked, CountAgrees
<1> HIDE DEF after, lines
<1>9. after \in CountRow
  BY <1>1, <1>5, <1>6, <1>7 DEF CountRow
<1>10. \A p \in C!Place : LineAgrees(after.lines[p], C!Booked(books, p), real[p])
  <2>1. LineAgrees(newLine, C!Booked(books, 0), real[0])
    BY Zenon, <1>4, <1>8 DEF LineAgrees
  <2> QED
    BY <1>1, <1>5, <1>6, <2>1 DEF CountAgrees
<1>11. CountAgrees(after, books, real)
  <2>1. row.status = "none" => \A p \in C!Place : ~after.lines[p].made
    BY <1>1, <1>4, <1>5, <1>6, <1>8 DEF CountAgrees
  <2> QED
    BY <1>6, <1>8, <1>10, <2>1 DEF CountAgrees
<1>12. counts[c].status = "submitted" => after.status # "approved"
  BY <1>8
<1> QED
  BY <1>1, <1>3, <1>9, <1>11, <1>12, OneCount

\* A line of a count that becomes another one, as it was counted.
LEMMA LineCounts ==
  ASSUME CountsInv, NEW c \in Countings, NEW p \in C!Place, NEW line \in CountLine,
         NEW after, after = [status |-> counts[c].status,
                             lines |-> [counts[c].lines EXCEPT ![p] = line],
                             reading |-> "nothing", read |-> after.read],
         after.read \in Nat,
         counts[c].status \notin {"none", "submitted"},
         LineAgrees(line, C!Booked(books, p), real[p]),
         books' = books, real' = real, surprises' = surprises,
         counts' = [counts EXCEPT ![c] = after]
  PROVE  CountsInv' /\ NoneApproved
<1> DEFINE row == counts[c]
           lines == [row.lines EXCEPT ![p] = line]
<1>1. row \in CountRow /\ CountAgrees(row, books, real) /\ row.lines \in [C!Place -> CountLine]
  BY DEF CountsInv, CountRow
<1>2. /\ lines \in [C!Place -> CountLine]
      /\ \A k \in C!Place : LineAgrees(lines[k], C!Booked(books, k), real[k])
  BY <1>1 DEF CountAgrees
<1> HIDE DEF lines
<1>3. after.status = row.status /\ after.lines = lines /\ after.reading = "nothing"
  BY DEF lines
<1>4. after \in CountRow
  BY <1>1, <1>2, <1>3 DEF CountRow
<1>5. CountAgrees(after, books, real)
  BY <1>2, <1>3 DEF CountAgrees
<1> QED
  BY <1>3, <1>4, <1>5, OneCount

LEMMA RecordCounts ==
  ASSUME CountsInv, Bays \in Nat, NEW c \in Countings, NEW p \in C!Place, C!RecordCount(c, p)
  PROVE  CountsInv' /\ NoneApproved
<1> DEFINE row == counts[c]
           line == C!Counted(row.lines[p], real[p])
           after == [row EXCEPT !.lines[p] = line]
<1>1. /\ row \in CountRow /\ row.lines[p] \in CountLine /\ real[p] \in Nat
      /\ CountAgrees(row, books, real) /\ books \in BooksRow
      /\ books' = books /\ real' = real /\ surprises' = surprises
      /\ row.status = "open" /\ row.reading = "nothing"
      /\ counts \in [Countings -> CountRow]
  BY DEF CountsInv, CountRow, C!RecordCount, C!Locked
<1>2. counts' = [counts EXCEPT ![c] = after]
  <2>1. counts' = [counts EXCEPT ![c].lines[p] = C!Counted(@, real[p])]
    BY DEF C!RecordCount
  <2> QED
    BY <1>1, <2>1
<1>3. line \in CountLine /\ C!Booked(books, p) \in Int
  BY <1>1, LineCounted, BookedInt
<1>4. LineAgrees(line, C!Booked(books, p), real[p])
  BY <1>1, <1>3, CountedAgrees DEF CountAgrees, LineAgrees
<1> HIDE DEF line
<1>5. row = [status |-> row.status, lines |-> row.lines, reading |-> row.reading, read |-> row.read]
      /\ row.read \in Nat
  BY <1>1 DEF CountRow
<1>6. after = [status |-> row.status, lines |-> [row.lines EXCEPT ![p] = line],
               reading |-> "nothing", read |-> after.read] /\ after.read \in Nat
  BY <1>1, <1>5
<1> HIDE DEF after
<1> QED
  BY <1>1, <1>2, <1>3, <1>4, <1>6, LineCounts

LEMMA AddCounts ==
  ASSUME CountsInv, Bays \in Nat, NEW c \in Countings, NEW p \in C!Place, C!AddLine(c, p)
  PROVE  CountsInv' /\ NoneApproved
<1> DEFINE row == counts[c]
           made == IF p = C!NoLocation
                   THEN [C!Made(C!ReadUnlocated(c)) EXCEPT !.moved = counts[c].lines[p].moved]
                   ELSE C!Made(books.loc[p])
           line == C!Counted(made, real[p])
           after == [row EXCEPT !.lines[p] = line, !.reading = "nothing", !.read = 0]
<1>1. /\ row \in CountRow /\ row.lines[p] \in CountLine /\ real[p] \in Nat
      /\ CountAgrees(row, books, real) /\ books \in BooksRow
      /\ books' = books /\ real' = real /\ surprises' = surprises
      /\ counts \in [Countings -> CountRow] /\ row.lines \in [C!Place -> CountLine]
      /\ C!NoLocation = 0 /\ 0 \in C!Place
  BY CountWords DEF CountsInv, CountRow, C!AddLine
<1>2. row.status \notin {"none", "submitted"} \/ row.reading = "add"
  BY DEF C!AddLine, C!Locked
<1>3. counts' = [counts EXCEPT ![c] = after]
  <2>1. counts' = [counts EXCEPT ![c].lines[p] = line, ![c].reading = "nothing", ![c].read = 0]
    BY DEF C!AddLine
  <2> HIDE DEF line
  <2> QED
    BY ONLY <1>1, <2>1, c \in Countings DEF CountRow
<1>4. /\ made \in CountLine /\ C!Booked(books, p) \in Int
      /\ ~made.moved => C!Booked(books, p) = made.expected
  <2>1. C!Booked(books, p) \in Int
    BY <1>1, BookedInt
  <2>2. ASSUME p = 0
        PROVE  ~made.moved => C!Booked(books, p) = made.expected
    <3>1. made = [C!Made(C!ReadUnlocated(c)) EXCEPT !.moved = counts[c].lines[0].moved]
          /\ row.reading # "nothing" /\ C!Booked(books, p) = C!Unlocated(books)
      BY <1>1, <2>2, CountWords DEF C!AddLine
    <3> HIDE DEF made
    <3> QED
      BY <3>1, ReadAgrees
  <2>3. ASSUME p # 0
        PROVE  ~made.moved => C!Booked(books, p) = made.expected
    <3>1. made = C!Made(books.loc[p]) /\ C!Booked(books, p) = books.loc[p]
      BY <1>1, <2>3, CountWords
    <3> HIDE DEF made
    <3> QED
      BY <2>1, <3>1, LineWords
  <2>4. ASSUME p = 0 PROVE made \in CountLine
    <3>1. made = [C!Made(C!ReadUnlocated(c)) EXCEPT !.moved = counts[c].lines[0].moved]
          /\ row.reading # "nothing"
      BY <1>1, <2>4 DEF C!AddLine
    <3> HIDE DEF made
    <3> QED
      BY <3>1, ReadAgrees
  <2>5. ASSUME p # 0 PROVE made \in CountLine
    <3>1. made = C!Made(books.loc[p]) /\ C!Booked(books, p) = books.loc[p]
      BY <1>1, <2>5, CountWords
    <3> HIDE DEF made
    <3> QED
      BY <2>1, <3>1, LineWords
  <2> QED
    BY <2>1, <2>2, <2>3, <2>4, <2>5
<1> HIDE DEF made
<1>5. line \in CountLine
  BY <1>1, <1>4, LineCounted
<1>6. LineAgrees(line, C!Booked(books, p), real[p])
  BY <1>1, <1>4, CountedAgrees
<1> HIDE DEF line
<1>7. row = [status |-> row.status, lines |-> row.lines, reading |-> row.reading, read |-> row.read]
  BY <1>1 DEF CountRow
<1>8. after = [status |-> row.status, lines |-> [row.lines EXCEPT ![p] = line],
               reading |-> "nothing", read |-> 0]
  <2> DEFINE lines == [row.lines EXCEPT ![p] = line]
             one == [row EXCEPT !.lines = lines]
             two == [one EXCEPT !.reading = "nothing"]
  <2>1. one = [row EXCEPT !.lines[p] = line]
    OBVIOUS
  <2>2. after = [two EXCEPT !.read = 0]
    BY <2>1
  <2> HIDE DEF lines, row, after
  <2>3. one = [status |-> row.status, lines |-> lines, reading |-> row.reading, read |-> row.read]
    BY ONLY <1>7
  <2> HIDE DEF one
  <2>4. two = [status |-> row.status, lines |-> lines, reading |-> "nothing", read |-> row.read]
    BY ONLY <2>3
  <2> HIDE DEF two
  <2>5. after = [status |-> row.status, lines |-> lines, reading |-> "nothing", read |-> 0]
    BY ONLY <2>2, <2>4
  <2> QED
    BY <2>5 DEF lines
<1> HIDE DEF after
<1>9. after.read = 0
  BY <1>8
<1>10. row.status \notin {"none", "submitted"}
  BY <1>1, <1>2 DEF CountAgrees
<1> QED
  BY <1>1, <1>3, <1>5, <1>6, <1>8, <1>9, <1>10, LineCounts

\* A difference that a count applies to the books.
LEMMA AdjustBooks ==
  ASSUME NEW b \in BooksRow, BooksKept(b), Bays \in Nat, NEW p \in C!Place,
         NEW d \in Int, d # 0, C!CanAdjust(b, p, d), NEW counted
  PROVE  /\ C!Adjust(b, p, d, counted) \in BooksRow /\ BooksKept(C!Adjust(b, p, d, counted))
         /\ \A k \in C!Place : C!Booked(C!Adjust(b, p, d, counted), k)
                                 = C!Booked(b, k) + (IF k = p THEN d ELSE 0)
<1> DEFINE after == C!Adjust(b, p, d, counted)
<1>1. /\ b.onHand \in Nat /\ b.reserved \in Nat /\ b.picked \in Nat
      /\ b.picked <= b.reserved /\ b.reserved <= b.onHand
  BY DEF BooksRow, BooksKept
<1>2. /\ after.onHand = b.onHand + d /\ after.picked = b.picked
      /\ after.loc = IF d > 0 THEN C!PutAway(b.loc, p, d) ELSE C!Taken(b.loc, -d, p)
      /\ after = [onHand |-> after.onHand, reserved |-> b.reserved, picked |-> b.picked,
                  loc |-> after.loc]
  <2> DEFINE loc == IF d > 0 THEN C!PutAway(b.loc, p, d) ELSE C!Taken(b.loc, -d, p)
             now == b.onHand + d
             one == [b EXCEPT !.onHand = now]
  <2>1. after = [one EXCEPT !.loc = loc]
    BY DEF C!Adjust, BooksRow
  <2>2. b = [onHand |-> b.onHand, reserved |-> b.reserved, picked |-> b.picked, loc |-> b.loc]
    BY DEF BooksRow
  <2> HIDE DEF loc, now, after
  <2>3. one = [onHand |-> now, reserved |-> b.reserved, picked |-> b.picked, loc |-> b.loc]
    BY ONLY <2>2
  <2> HIDE DEF one
  <2>4. after = [onHand |-> now, reserved |-> b.reserved, picked |-> b.picked, loc |-> loc]
    BY ONLY <2>1, <2>3
  <2> QED
    BY <2>4 DEF now, loc
<1> HIDE DEF after
<1>3. ASSUME d > 0
      PROVE  /\ after \in BooksRow /\ BooksKept(after)
             /\ \A k \in C!Place : C!Booked(after, k) = C!Booked(b, k) + (IF k = p THEN d ELSE 0)
  BY <1>2, <1>3, StoredBooks
<1>4. ASSUME ~(d > 0)
      PROVE  /\ after \in BooksRow /\ BooksKept(after)
             /\ \A k \in C!Place : C!Booked(after, k) = C!Booked(b, k) + (IF k = p THEN d ELSE 0)
  <2> DEFINE q == -d
  <2>1. q \in Nat /\ d = -q /\ d < 0
    BY <1>4
  <2>2. q <= C!Booked(b, p) /\ b.onHand - b.reserved >= q
    <3>1. C!CanTake(b.onHand, b.picked, b.loc, q, p) /\ b.onHand - b.reserved >= q
      BY <2>1 DEF C!CanAdjust
    <3>2. C!CanTake(b.onHand, b.picked, b.loc, q, p) = (q <= C!Booked(b, p))
      BY Zenon DEF C!CanTake, C!Booked, C!Unlocated
    <3> QED
      BY <3>1, <3>2
  <2>3. after.loc = C!Taken(b.loc, q, p)
    BY <1>2, <1>4
  <2> HIDE DEF q
  <2>4. /\ after.onHand - after.picked = b.onHand - b.picked - q
        /\ after.onHand \in Nat /\ after.picked \in Nat
        /\ after.picked <= b.reserved /\ b.reserved <= after.onHand
        /\ after = [onHand |-> after.onHand, reserved |-> b.reserved, picked |-> after.picked,
                    loc |-> after.loc]
    BY <1>1, <1>2, <2>1, <2>2
  <2>5. /\ after \in BooksRow /\ BooksKept(after)
        /\ \A k \in C!Place : C!Booked(after, k) = C!Booked(b, k) - (IF k = p THEN q ELSE 0)
    BY <2>1, <2>2, <2>3, <2>4, TakenBooks
  <2>6. \A k \in C!Place : C!Booked(b, k) \in Int
    BY BookedInt
  <2> QED
    BY <2>1, <2>5, <2>6
<1> QED
  BY <1>3, <1>4 DEF after

\* An order of the lines of a count names each of them once.
LEMMA OrderOfAll ==
  ASSUME NEW lines, IsFiniteSet(lines), NEW order \in C!SetToSeqs(lines)
  PROVE  /\ Len(order) \in Nat /\ DOMAIN order = 1..Len(order)
         /\ \A i \in 1..Len(order) : order[i] \in lines
         /\ \A i, j \in 1..Len(order) : i # j => order[i] # order[j]
         /\ \A l \in lines : \E i \in 1..Len(order) : order[i] = l
<1> DEFINE n == Cardinality(lines)
<1>1. n \in Nat
  BY FS_CardinalityType
<1>2. /\ order \in [1..n -> lines]
      /\ \A i, j \in 1..n : i # j => order[i] # order[j]
  BY DEF C!SetToSeqs, C!Cardinality, Cardinality
<1> HIDE DEF n
<1>3. Len(order) = n
  BY <1>1, <1>2
<1>4. ASSUME NEW l \in lines, \A i \in 1..n : order[i] # l
      PROVE  FALSE
  <2> DEFINE others == lines \ {l}
  <2>1. IsFiniteSet(others) /\ Cardinality(others) = n - 1
    BY <1>4, FS_RemoveElement DEF n
  <2>2. order \in Injection(1..n, others)
    BY <1>2, <1>4 DEF Injection, IsInjective
  <2>3. Cardinality(1..n) <= Cardinality(others)
    <3> HIDE DEF others
    <3> QED
      BY <2>1, <2>2, FS_Injection
  <2>4. Cardinality(1..n) = n
    BY <1>1, FS_Interval
  <2> QED
    BY <1>1, <2>1, <2>3, <2>4
<1> QED
  BY <1>1, <1>2, <1>3, <1>4


\* The lines of a count with a difference, and what a count applies of it.
Changed(c) == {p \in C!Place : counts[c].lines[p].made /\ C!Difference(counts[c].lines[p]) # 0}

Applied(c, p) == C!Difference(counts[c].lines[p])

IsApplied(f, c, order) ==
  f = [i \in 0..Len(order) |->
         IF i = 0 THEN books
         ELSE C!Adjust(f[i - 1], order[i], C!Difference(counts[c].lines[order[i]]),
                       counts[c].lines[order[i]].counted)]

LooseBooks == [onHand : Int, reserved : Int, picked : Int, loc : [1..Bays -> Int]]

LEMMA AdjustLoose ==
  ASSUME NEW b \in LooseBooks, NEW p \in C!Place, NEW d \in Int, NEW counted
  PROVE  C!Adjust(b, p, d, counted) \in LooseBooks
<1> DEFINE loc == IF d > 0 THEN C!PutAway(b.loc, p, d) ELSE C!Taken(b.loc, -d, p)
           now == b.onHand + d
           one == [b EXCEPT !.onHand = now]
           after == C!Adjust(b, p, d, counted)
<1>1. b = [onHand |-> b.onHand, reserved |-> b.reserved, picked |-> b.picked, loc |-> b.loc]
      /\ b.onHand \in Int /\ b.reserved \in Int /\ b.picked \in Int /\ b.loc \in [1..Bays -> Int]
  BY DEF LooseBooks
<1>2. after = [one EXCEPT !.loc = loc]
  BY <1>1 DEF C!Adjust
<1>3. loc \in [1..Bays -> Int]
  <2> DEFINE l == b.loc
  <2>1. C!NoLocation = 0 /\ p \in 1..Bays \union {0} /\ l \in [1..Bays -> Int]
    BY <1>1, CountWords
  <2> HIDE DEF l
  <2>2. C!PutAway(l, p, d) \in [1..Bays -> Int]
    BY <2>1 DEF C!PutAway
  <2>3. C!Taken(l, -d, p) \in [1..Bays -> Int]
    BY <2>1 DEF C!Taken
  <2> QED
    BY <2>2, <2>3 DEF l
<1>4. now \in Int
  BY <1>1
<1> HIDE DEF loc, now, after
<1>5. one = [onHand |-> now, reserved |-> b.reserved, picked |-> b.picked, loc |-> b.loc]
  BY ONLY <1>1
<1> HIDE DEF one
<1>6. after = [onHand |-> now, reserved |-> b.reserved, picked |-> b.picked, loc |-> loc]
  BY ONLY <1>2, <1>5
<1>7. after \in LooseBooks
  BY <1>1, <1>3, <1>4, <1>6 DEF LooseBooks
<1> QED
  BY <1>7 DEF after

\* The books after each line, in an order of them, are computed.
LEMMA AppliedExists ==
  ASSUME books \in LooseBooks, NEW c \in Countings, counts[c] \in CountRow,
         NEW order, Len(order) \in Nat, \A i \in 1..Len(order) : order[i] \in C!Place
  PROVE  \E f : IsApplied(f, c, order)
<1> DEFINE n == Len(order)
           Step(b, i) == C!Adjust(b, order[i], C!Difference(counts[c].lines[order[i]]),
                                  counts[c].lines[order[i]].counted)
           step == [x \in LooseBooks \X (1..n) |-> Step(x[1], x[2])]
<1>1. ASSUME NEW b \in LooseBooks, NEW i \in 1..n
      PROVE  Step(b, i) \in LooseBooks /\ step[<<b, i>>] = Step(b, i)
  <2>1. counts[c].lines \in [C!Place -> CountLine] /\ order[i] \in C!Place
    BY DEF CountRow
  <2>2. C!Difference(counts[c].lines[order[i]]) \in Int
    <3> DEFINE l == counts[c].lines[order[i]]
    <3>1. l \in CountLine
      BY <2>1
    <3> HIDE DEF l
    <3>2. C!Difference(l) \in Int
      BY ONLY <3>1 DEF CountLine, C!Difference
    <3> QED
      BY <3>2 DEF l
  <2>3. Step(b, i) \in LooseBooks
    BY <2>1, <2>2, AdjustLoose
  <2> HIDE DEF Step
  <2> QED
    BY <2>3
<1> HIDE DEF Step
<1>2. step \in [LooseBooks \X (1..n) -> LooseBooks]
  BY <1>1
<1> HIDE DEF step
<1>3. n \in Nat
  OBVIOUS
<1> HIDE DEF n
<1>4. PICK h : Sums!IsComputed(h, LooseBooks, books, step, n)
  BY ONLY <1>2, <1>3, books \in LooseBooks, Sums!ComputedExists
<1>5. /\ h \in [0..n -> LooseBooks] /\ h[0] = books
      /\ \A i \in 1..n : h[i] = step[<<h[i - 1], i>>]
  BY <1>4 DEF Sums!IsComputed
<1>6. ASSUME NEW i \in 0..n
      PROVE  h[i] = IF i = 0 THEN books ELSE Step(h[i - 1], i)
  <2>1. i # 0 => i \in 1..n /\ i - 1 \in 0..n
    BY <1>3
  <2> QED
    BY <1>1, <1>5, <2>1
<1>7. h = [i \in 0..n |-> IF i = 0 THEN books ELSE Step(h[i - 1], i)]
  BY <1>5, <1>6
<1> QED
  BY <1>7 DEF IsApplied, Step, n

\* What the books are when a count is approved.
LEMMA ApprovedBooks ==
  ASSUME CountsInv, Bays \in Nat, NEW c \in Countings, C!Approve(c)
  PROVE  /\ books' \in BooksRow /\ BooksKept(books')
         /\ \A p \in C!Place : C!Booked(books', p)
                                 = C!Booked(books, p) + (IF p \in Changed(c) THEN Applied(c, p) ELSE 0)
         /\ Changed(c) = {} => books' = books
<1>1. /\ books \in BooksRow /\ BooksKept(books) /\ counts[c] \in CountRow
      /\ counts[c].lines \in [C!Place -> CountLine]
      /\ \A p \in C!Place : Applied(c, p) \in Int
  <2>1. /\ books \in BooksRow /\ BooksKept(books) /\ counts[c] \in CountRow
        /\ counts[c].lines \in [C!Place -> CountLine]
    BY DEF CountsInv, CountRow
  <2>2. ASSUME NEW l \in CountLine PROVE C!Difference(l) \in Int
    BY ONLY <2>2 DEF CountLine, C!Difference
  <2>3. ASSUME NEW p \in C!Place PROVE Applied(c, p) \in Int
    BY <2>1, <2>2 DEF Applied
  <2> QED
    BY <2>1, <2>3
<1>2. IsFiniteSet(Changed(c)) /\ Changed(c) \subseteq C!Place
  <2>1. IsFiniteSet(1..Bays) /\ IsFiniteSet({0})
    <3>1. IsFiniteSet(1..Bays)
      BY ONLY Bays \in Nat, 1 \in Int, FS_Interval
    <3> QED
      BY ONLY <3>1, FS_Singleton
  <2>2. IsFiniteSet(1..Bays \union {0})
    BY <2>1, FS_Union
  <2> QED
    BY <2>2, CountWords, FS_Subset DEF Changed
<1>3. PICK order \in C!SetToSeqs(Changed(c)) :
        LET after[i \in 0..Len(order)] ==
              IF i = 0 THEN books
              ELSE C!Adjust(after[i - 1], order[i], C!Difference(counts[c].lines[order[i]]),
                            counts[c].lines[order[i]].counted)
        IN  /\ \A i \in DOMAIN order :
                 C!CanAdjust(after[i - 1], order[i], C!Difference(counts[c].lines[order[i]]))
            /\ books' = after[Len(order)]
  BY DEF C!Approve, Changed
<1> DEFINE n == Len(order)
           after == CHOOSE f : IsApplied(f, c, order)
<1>4. /\ n \in Nat /\ DOMAIN order = 1..n
      /\ \A i \in 1..n : order[i] \in Changed(c)
      /\ \A i, j \in 1..n : i # j => order[i] # order[j]
      /\ \A l \in Changed(c) : \E i \in 1..n : order[i] = l
  BY <1>2, OrderOfAll
<1>5. /\ \A i \in 1..n : C!CanAdjust(after[i - 1], order[i], C!Difference(counts[c].lines[order[i]]))
      /\ books' = after[n]
  BY <1>3, <1>4 DEF IsApplied
<1>6. IsApplied(after, c, order)
  <2>1. books \in LooseBooks
    BY <1>1 DEF BooksRow, LooseBooks
  <2>2. \A i \in 1..n : order[i] \in C!Place
    BY <1>2, <1>4
  <2>3. \E f : IsApplied(f, c, order)
    BY <1>1, <1>4, <2>1, <2>2, AppliedExists
  <2> QED
    BY <2>3
<1> HIDE DEF after
<1> DEFINE To(i, p) == C!Booked(books, p)
                         + (IF \E j \in 1..i : order[j] = p THEN Applied(c, p) ELSE 0)
           Good == {i \in 0..n : after[i] \in BooksRow /\ BooksKept(after[i])
                                 /\ \A p \in C!Place : C!Booked(after[i], p) = To(i, p)}
<1>7. after[0] = books /\ \A i \in 1..n : after[i] = C!Adjust(after[i - 1], order[i],
                            Applied(c, order[i]), counts[c].lines[order[i]].counted)
  <2>1. \A i \in 0..n : after[i] =
          IF i = 0 THEN books
          ELSE C!Adjust(after[i - 1], order[i], C!Difference(counts[c].lines[order[i]]),
                        counts[c].lines[order[i]].counted)
    BY <1>6 DEF IsApplied
  <2> QED
    BY <1>4, <2>1 DEF Applied
<1>8. \A p \in C!Place : C!Booked(books, p) \in Int
  BY <1>1, BookedInt
<1>9. 0 \in Good
  BY <1>1, <1>4, <1>7, <1>8
<1>10. ASSUME NEW i \in 1..n, i - 1 \in Good
       PROVE  i \in Good
  <2> DEFINE b == after[i - 1]
             p == order[i]
             d == Applied(c, p)
  <2>1. /\ b \in BooksRow /\ BooksKept(b) /\ p \in C!Place /\ p \in Changed(c) /\ d \in Int /\ d # 0
        /\ C!CanAdjust(b, p, d) /\ \A k \in C!Place : C!Booked(b, k) = To(i - 1, k)
    BY <1>1, <1>2, <1>4, <1>5, <1>10 DEF Changed, Applied
  <2>2. after[i] = C!Adjust(b, p, d, counts[c].lines[p].counted)
    BY <1>7
  <2> HIDE DEF b, p, d, To
  <2>3. /\ after[i] \in BooksRow /\ BooksKept(after[i])
        /\ \A k \in C!Place : C!Booked(after[i], k) = C!Booked(b, k) + (IF k = p THEN d ELSE 0)
    BY <2>1, <2>2, AdjustBooks
  <2>4. ASSUME NEW k \in C!Place PROVE C!Booked(after[i], k) = To(i, k)
    <3>1. ASSUME k = p PROVE C!Booked(after[i], k) = To(i, k)
      <4>1. ~ \E j \in 1..(i - 1) : order[j] = k
        BY <1>4, <3>1 DEF p
      <4>2. \E j \in 1..i : order[j] = k
        BY <3>1 DEF p
      <4>3. To(i - 1, k) = C!Booked(books, k) /\ To(i, k) = C!Booked(books, k) + d
        BY <1>8, <3>1, <4>1, <4>2 DEF To, d
      <4> QED
        BY <1>8, <2>1, <2>3, <3>1, <4>3
    <3>2. ASSUME k # p PROVE C!Booked(after[i], k) = To(i, k)
      <4>1. (\E j \in 1..(i - 1) : order[j] = k) <=> (\E j \in 1..i : order[j] = k)
        BY <1>4, <3>2 DEF p
      <4>2. To(i - 1, k) = To(i, k) /\ To(i, k) \in Int
        BY <1>1, <1>8, <4>1 DEF To
      <4> QED
        BY <2>1, <2>3, <3>2, <4>2
    <3> QED
      BY <3>1, <3>2
  <2>5. i \in 0..n
    OBVIOUS
  <2> QED
    BY <2>3, <2>4, <2>5
<1>11. n \in Good
  <2>1. \A i \in 0..n : i \in Good
    <3> HIDE DEF Good, n
    <3> QED
      BY <1>4, <1>9, <1>10, Sums!UpTo
  <2> HIDE DEF Good
  <2> QED
    BY <1>4, <2>1
<1>12. \A p \in C!Place : (\E j \in 1..n : order[j] = p) <=> p \in Changed(c)
  BY <1>4
<1>13. \A p \in C!Place : To(n, p) = C!Booked(books, p) + (IF p \in Changed(c) THEN Applied(c, p) ELSE 0)
  BY <1>12
<1>14. Changed(c) = {} => books' = books
  <2>1. Changed(c) = {} => n = 0
    BY <1>4
  <2> QED
    BY <1>5, <1>7, <2>1
<1> QED
  BY <1>5, <1>11, <1>13, <1>14


\* A count that is submitted, or reopened.
LEMMA StatusCounts ==
  ASSUME CountsInv, NEW c \in Countings, C!Submit(c) \/ C!Reopen(c)
  PROVE  CountsInv' /\ NoneApproved
<1> DEFINE row == counts[c]
<1>1. PICK s \in {"open", "submitted"} : counts' = [counts EXCEPT ![c].status = s]
  BY DEF C!Submit, C!Reopen
<1> DEFINE after == [row EXCEPT !.status = s]
<1>2. /\ counts' = [counts EXCEPT ![c] = after]
      /\ row \in CountRow /\ CountAgrees(row, books, real)
      /\ books' = books /\ real' = real /\ surprises' = surprises /\ row.reading = "nothing"
  BY <1>1 DEF CountsInv, C!Submit, C!Reopen, C!Locked
<1>3. row = [status |-> row.status, lines |-> row.lines, reading |-> row.reading, read |-> row.read]
  BY <1>2 DEF CountRow
<1>4. after = [status |-> s, lines |-> row.lines, reading |-> row.reading, read |-> row.read]
  <2> HIDE DEF row
  <2> QED
    BY ONLY <1>3
<1> HIDE DEF after
<1>5. after \in CountRow
  BY <1>2, <1>4 DEF CountRow
<1>6. CountAgrees(after, books, real)
  BY <1>2, <1>4 DEF CountAgrees
<1>7. after.status # "approved"
  BY <1>4
<1> QED
  BY <1>2, <1>5, <1>6, <1>7, OneCount

LEMMA ApproveCounts ==
  ASSUME CountsInv, Bays \in Nat, NEW c \in Countings, C!Approve(c)
  PROVE  CountsInv' /\ C!Corrects
<1>1. /\ books \in BooksRow /\ BooksKept(books) /\ real \in [C!Place -> Nat]
      /\ counts \in [Countings -> CountRow] /\ surprises \in 0..SomeSurprises
      /\ real' = real /\ surprises' = surprises /\ 0 \in C!Place
  BY CountWords DEF CountsInv, C!Approve
<1>2. /\ books' \in BooksRow /\ BooksKept(books')
      /\ \A p \in C!Place : C!Booked(books', p)
                              = C!Booked(books, p) + (IF p \in Changed(c) THEN Applied(c, p) ELSE 0)
      /\ Changed(c) = {} => books' = books
  BY ApprovedBooks
<1>3. counts' = [k \in Countings |->
        IF k = c THEN [C!NoCount EXCEPT !.status = "approved"]
        ELSE [counts[k] EXCEPT !.lines = [p \in C!Place |->
                IF p \in Changed(c) \/ (Changed(c) # {} /\ counts[k].reading # "nothing")
                THEN [@[p] EXCEPT !.moved = TRUE, !.exact = FALSE] ELSE @[p]]]]
  BY DEF C!Approve, Changed
<1>4. \A p \in C!Place : C!Booked(books, p) \in Int /\ C!Booked(books', p) \in Int
  BY <1>1, <1>2, BookedInt
<1>5. ASSUME NEW k \in Countings, k # c
      PROVE  /\ counts'[k] \in CountRow /\ counts'[k].status = counts[k].status
             /\ CountAgrees(counts'[k], books', real)
  <2> DEFINE row == counts[k]
             touched == {p \in C!Place : p \in Changed(c) \/ (Changed(c) # {} /\ row.reading # "nothing")}
             lines == [p \in C!Place |-> IF p \in touched
                                         THEN [row.lines[p] EXCEPT !.moved = TRUE, !.exact = FALSE]
                                         ELSE row.lines[p]]
             after == [row EXCEPT !.lines = lines]
  <2>1. row \in CountRow /\ CountAgrees(row, books, real) /\ row.lines \in [C!Place -> CountLine]
    BY <1>1 DEF CountsInv, CountRow
  <2>2. counts'[k] = after
    BY <1>3, <1>5
  <2>3. row = [status |-> row.status, lines |-> row.lines, reading |-> row.reading,
               read |-> row.read]
    BY <2>1 DEF CountRow
  <2>4. after = [status |-> row.status, lines |-> lines, reading |-> row.reading, read |-> row.read]
    <3> HIDE DEF lines, row
    <3> QED
      BY <2>3
  <2>5. ASSUME NEW p \in C!Place
        PROVE  /\ lines[p] \in CountLine /\ lines[p].made = row.lines[p].made
               /\ p \notin touched => lines[p] = row.lines[p]
               /\ p \in touched => lines[p].moved = TRUE /\ lines[p].exact = FALSE
    <3> DEFINE l == row.lines[p]
               one == [l EXCEPT !.moved = TRUE, !.exact = FALSE]
    <3>1. l \in CountLine
      BY <2>1
    <3>2. lines[p] = IF p \in touched THEN one ELSE l
      OBVIOUS
    <3> HIDE DEF lines, l, touched
    <3>3. one \in CountLine /\ one.made = l.made /\ one.moved = TRUE /\ one.exact = FALSE
      BY ONLY <3>1 DEF CountLine
    <3> HIDE DEF one
    <3> QED
      BY <3>1, <3>2, <3>3 DEF l
  <2>6. lines \in [C!Place -> CountLine]
    <3> HIDE DEF touched, row
    <3>1. DOMAIN lines = C!Place /\ \A p \in C!Place : lines[p] \in CountLine
      BY <2>5
    <3> QED
      BY <3>1
  <2>7. /\ \A p \in C!Place \ touched : C!Booked(books', p) = C!Booked(books, p)
        /\ row.reading # "nothing" /\ 0 \notin touched =>
             books' = books
    BY <1>1, <1>2, <1>4
  <2> HIDE DEF lines, touched, after
  <2>8. after \in CountRow
    BY <2>1, <2>4, <2>6 DEF CountRow
  <2>9. ASSUME NEW p \in C!Place
        PROVE  LineAgrees(lines[p], C!Booked(books', p), real[p])
    <3>1. LineAgrees(row.lines[p], C!Booked(books, p), real[p])
      BY <2>1 DEF CountAgrees
    <3>2. ASSUME p \in touched PROVE LineAgrees(lines[p], C!Booked(books', p), real[p])
      BY <2>5, <3>2 DEF LineAgrees
    <3>3. ASSUME p \notin touched PROVE LineAgrees(lines[p], C!Booked(books', p), real[p])
      BY <2>5, <2>7, <3>1, <3>3
    <3> QED
      BY <3>2, <3>3
  <2>10. row.reading # "nothing" /\ ~lines[0].moved => row.read = books'.onHand - books'.picked
    <3>1. ASSUME row.reading # "nothing", ~lines[0].moved
          PROVE  row.read = books'.onHand - books'.picked
      <4>1. 0 \notin touched /\ lines[0] = row.lines[0]
        BY <1>1, <2>5, <3>1
      <4> QED
        BY <2>1, <2>7, <3>1, <4>1 DEF CountAgrees
    <3> QED
      BY <3>1
  <2>11. CountAgrees(after, books', real)
    <3>1. row.status = "none" => \A p \in C!Place : ~lines[p].made
      BY <2>1, <2>5 DEF CountAgrees
    <3>2. row.reading = "add" => row.status = "open"
      BY <2>1 DEF CountAgrees
    <3> QED
      BY <2>4, <2>9, <2>10, <3>1, <3>2 DEF CountAgrees
  <2> QED
    BY <2>2, <2>4, <2>8, <2>11
<1>6. counts'[c] \in CountRow /\ CountAgrees(counts'[c], books', real)
  <2> DEFINE none == C!NoCount
             empty == C!NoLines
             after == [none EXCEPT !.status = "approved"]
  <2>1. none = [status |-> "none", lines |-> empty, reading |-> "nothing", read |-> 0]
        /\ counts'[c] = after
    BY <1>3 DEF C!NoCount
  <2>2. empty \in [C!Place -> CountLine] /\ \A p \in C!Place : ~empty[p].made
    BY LineWords DEF C!NoLines
  <2> HIDE DEF none, empty
  <2>3. after = [status |-> "approved", lines |-> empty, reading |-> "nothing", read |-> 0]
    BY ONLY <2>1
  <2> HIDE DEF after
  <2>4. after \in CountRow
    BY <2>2, <2>3 DEF CountRow
  <2>5. CountAgrees(after, books', real)
    BY <2>2, <2>3 DEF CountAgrees, LineAgrees
  <2> QED
    BY <2>1, <2>4, <2>5
<1>7. counts' \in [Countings -> CountRow] /\ \A k \in Countings : CountAgrees(counts'[k], books', real)
  <2>1. counts' = [k \in Countings |-> counts'[k]]
    BY <1>3
  <2> QED
    BY <1>5, <1>6, <2>1
<1>8. CountsInv'
  BY <1>1, <1>2, <1>7 DEF CountsInv
<1>9. ASSUME NEW k \in Countings, counts[k].status = "submitted", counts'[k].status = "approved",
             NEW p \in C!Place, counts[k].lines[p].made, counts[k].lines[p].exact
      PROVE  C!Booked(books', p) = real'[p]
  <2>1. k = c
    BY <1>5, <1>9
  <2> DEFINE l == counts[c].lines[p]
  <2>2. LineAgrees(l, C!Booked(books, p), real[p]) /\ l.made /\ l.exact
    BY <1>9, <2>1 DEF CountsInv, CountAgrees
  <2>3. C!Booked(books, p) + (l.counted - l.expected) = real[p]
    BY <2>2 DEF LineAgrees
  <2>4. Applied(c, p) = l.counted - l.expected /\ (p \in Changed(c) <=> Applied(c, p) # 0)
    BY <2>2 DEF Applied, Changed, C!Difference
  <2> HIDE DEF l
  <2> QED
    BY <1>1, <1>2, <1>4, <2>3, <2>4
<1>10. C!Corrects
  BY <1>9 DEF C!Corrects
<1> QED
  BY <1>8, <1>10

\* Cycle counts, from one state to the next.
LEMMA CountsInitially ==
  ASSUME C!Init, Bays \in Nat, SomeSurprises \in Nat
  PROVE  CountsInv
<1> DEFINE none == C!NoCount
           empty == C!NoLines
<1>1. /\ books = [onHand |-> 0, reserved |-> 0, picked |-> 0, loc |-> C!NoUnits]
      /\ real = [p \in C!Place |-> 0] /\ surprises = 0 /\ counts = [c \in Countings |-> none]
      /\ none = [status |-> "none", lines |-> empty, reading |-> "nothing", read |-> 0]
  BY DEF C!Init, C!NoCount
<1>2. C!NoUnits \in [1..Bays -> Nat] /\ Bins!LocatedQuantity(C!NoUnits) = 0
  <2> DEFINE loc == C!NoUnits
  <2>1. loc = [l \in 1..Bays |-> 0]
    BY DEF C!NoUnits, C!Location
  <2>2. \A i \in 1..Bays : loc[i] = 0
    BY <2>1
  <2> HIDE DEF loc
  <2>3. Bins!Total(loc, Bays) = 0
    BY ONLY Bays \in Nat, <2>2, Bins!TotalAllZero
  <2>4. Bins!LocatedQuantity(loc) = 0
    BY <2>3 DEF Bins!LocatedQuantity
  <2>5. loc \in [1..Bays -> Nat]
    BY <2>1
  <2> QED
    BY <2>4, <2>5 DEF loc
<1>3. empty \in [C!Place -> CountLine] /\ \A p \in C!Place : ~empty[p].made
  BY LineWords DEF C!NoLines
<1> HIDE DEF none, empty
<1>4. none \in CountRow
  BY <1>1, <1>3 DEF CountRow
<1>5. CountAgrees(none, books, real)
  BY <1>1, <1>3 DEF CountAgrees, LineAgrees
<1>6. books \in BooksRow
  BY <1>1, <1>2 DEF BooksRow
<1>7. C!Unlocated(books) = 0
  BY <1>1, <1>2, CountWords
<1>8. BooksKept(books)
  BY <1>1, <1>7 DEF BooksKept
<1> QED
  BY <1>1, <1>4, <1>5, <1>6, <1>8 DEF CountsInv

LEMMA CountsStep ==
  ASSUME CountsInv, Bays \in Nat, SomeSurprises \in Nat, C!Next
  PROVE  CountsInv' /\ C!Corrects
<1>1. NoneApproved => C!Corrects
  BY DEF NoneApproved, C!Corrects
<1>2. ASSUME NEW p \in C!Place,
             C!Receive(p) \/ C!Withdraw(p) \/ C!Pick(p)
               \/ (\E q \in C!Place : C!Relocate(p, q)) \/ (\E d \in {-1, 1} : C!Surprise(p, d))
      PROVE  CountsInv' /\ C!Corrects
  BY <1>1, <1>2, ReceiveCounts, LeaveCounts, RelocateCounts, SurpriseCounts
<1>3. ASSUME C!Reserve PROVE CountsInv' /\ C!Corrects
  BY <1>1, <1>3, ReserveCounts
<1>4. ASSUME NEW c \in Countings,
             (\E chosen \in SUBSET C!Location \ {{}} : C!CreateByLocation(c, chosen))
               \/ C!CreateByProduct(c) \/ C!Cancel(c)
      PROVE  CountsInv' /\ C!Corrects
  BY <1>1, <1>4, CreateCounts
<1>5. ASSUME NEW c \in Countings, NEW request \in {"create", "add"}, C!ReadStock(c, request)
      PROVE  CountsInv' /\ C!Corrects
  BY <1>1, <1>5, ReadCounts
<1>6. ASSUME NEW c \in Countings, NEW p \in C!Place, C!AddLine(c, p) \/ C!RecordCount(c, p)
      PROVE  CountsInv' /\ C!Corrects
  BY <1>1, <1>6, AddCounts, RecordCounts
<1>7. ASSUME NEW c \in Countings, C!Submit(c) \/ C!Reopen(c) PROVE CountsInv' /\ C!Corrects
  BY <1>1, <1>7, StatusCounts
<1>8. ASSUME NEW c \in Countings, C!Approve(c) PROVE CountsInv' /\ C!Corrects
  BY <1>8, ApproveCounts
<1> QED
  BY Zenon, <1>2, <1>3, <1>4, <1>5, <1>6, <1>7, <1>8 DEF C!Next

LEMMA CountsGive ==
  CountsInv => C!CountsTypeOK /\ C!CountsKeepStock
<1>1. C!Location = 1..Bays /\ C!NotCounted = -1
  BY DEF C!Location, C!NotCounted
<1> QED
  BY <1>1 DEF CountsInv, BooksRow, CountRow, CountLine, BooksKept, C!CountsTypeOK, C!CountsKeepStock

\* What a count promises, whatever happens.
CountsRight == part = "counts" => C!Corrects

LEMMA CountsPart ==
  Spec => [](part = "counts" => CountsInv) /\ [][CountsRight]_vars
<1> DEFINE Inv == part = "counts" => CountsInv
<1>1. Bays \in Nat /\ SomeSurprises \in Nat
  BY CountsAssumption DEF CountsAssumption, C!CountsAssumption
<1>2. Init => Inv
  BY <1>1, CountsInitially DEF Init
<1>3. Inv /\ [Next]_vars => Inv' /\ CountsRight
  <2> SUFFICES ASSUME Inv, [Next]_vars, part = "counts" PROVE CountsInv' /\ C!Corrects
    BY DEF Next, vars, CountsRight
  <2>1. CountsInv /\ (C!Next \/ UNCHANGED countVars)
    BY DEF Next, CountsNext, vars
  <2>2. ASSUME UNCHANGED countVars PROVE CountsInv' /\ C!Corrects
    <3>1. books' = books /\ real' = real /\ surprises' = surprises /\ counts' = counts
      BY <2>2 DEF countVars
    <3>2. CountsInv'
      BY <2>1, <3>1 DEF CountsInv, BooksRow, CountRow, CountLine, BooksKept, CountAgrees, LineAgrees
    <3> QED
      BY <3>1, <3>2 DEF C!Corrects
  <2> QED
    BY <1>1, <2>1, <2>2, CountsStep
<1> QED
  BY <1>2, <1>3, PTL DEF Spec

-----------------------------------------------------------------------------
(* Locks.  Every transaction that locks in order asks for rows of growing  *)
(* rank, so of some that wait for each other the one that asks for the row *)
(* of the greatest rank cannot wait.                                       *)

\* The order in which transactions lock what they share.
Rank(row) ==
  IF row = K!Stock(1) THEN 2
  ELSE IF row = K!Stock(2) THEN 3
  ELSE IF row = K!SaleItem("s1", 2) THEN 4
  ELSE IF row = K!SaleItem("s1", 1) THEN 5
  ELSE IF row = K!SaleRow("s1") THEN 6
  ELSE 1

Row ==
  {K!Stock(1), K!Stock(2), K!SaleItem("s1", 1), K!SaleItem("s1", 2), K!SaleRow("s1"),
   K!PickingRow("p1"), K!PickingRow("p2"), K!PackingRow("k2"), K!ReceiptRow("r1"),
   K!SequenceRow("picking"), K!SequenceRow("transfer")}

\* Rows whose ranks grow from `low` to `high`.
Growing(rows, low, high) ==
  /\ rows \in Seq(Row)
  /\ \A i \in 1..Len(rows) : Rank(rows[i]) \in low..high
  /\ \A i, j \in 1..Len(rows) : i < j => Rank(rows[i]) < Rank(rows[j])

\* The ranks of the rows, one by one.
LEMMA RanksOfRows ==
  /\ Rank(K!Stock(1)) = 2 /\ Rank(K!Stock(2)) = 3
  /\ Rank(K!SaleItem("s1", 2)) = 4 /\ Rank(K!SaleItem("s1", 1)) = 5
  /\ Rank(K!SaleRow("s1")) = 6
  /\ \A o : /\ Rank(K!PickingRow(o)) = 1 /\ Rank(K!PackingRow(o)) = 1
            /\ Rank(K!SequenceRow(o)) = 1 /\ Rank(K!ReceiptRow(o)) = 1
BY DEF Rank, K!Stock, K!SaleItem, K!SaleRow, K!PickingRow, K!PackingRow, K!SequenceRow, K!ReceiptRow

\* Rows of two products are locked in the order of the products, however listed.
LEMMA StocksInOrder ==
  ASSUME NEW products, products \in {K!Forth, K!Back}
  PROVE  K!Stocks(products) = <<K!Stock(1), K!Stock(2)>>
<1> DEFINE nth(i) == CHOOSE p \in {1, 2} : Cardinality({q \in {1, 2} : q < p}) = i - 1
<1>1. K!Range(products) = {1, 2}
  <2>1. DOMAIN products = 1..2 /\ {products[1], products[2]} = {1, 2}
    BY DEF K!Forth, K!Back
  <2>2. K!Range(products) = {products[1], products[2]}
    BY <2>1 DEF K!Range
  <2> QED
    BY <2>1, <2>2
<1>2. Cardinality({1, 2}) = 2
  <2>1. {1, 2} = {1} \union {2} /\ 2 \notin {1}
    OBVIOUS
  <2>2. IsFiniteSet({1}) /\ Cardinality({1}) = 1
    BY FS_Singleton
  <2> QED
    BY <2>1, <2>2, FS_AddElement
<1>3. {q \in {1, 2} : q < 1} = {} /\ {q \in {1, 2} : q < 2} = {1}
  OBVIOUS
<1>4. Cardinality({}) = 0 /\ Cardinality({1}) = 1
  BY FS_EmptySet, FS_Singleton
<1>5. nth(1) = 1 /\ nth(2) = 2
  BY <1>3, <1>4
<1>6. K!Stocks(products) = [i \in 1..2 |-> K!Stock(nth(i))]
  <2>1. \A s : K!Cardinality(s) = Cardinality(s)
    BY Zenon DEF K!Cardinality, Cardinality
  <2>2. K!Stocks(products) =
          [i \in 1..K!Cardinality({1, 2}) |->
             K!Stock(CHOOSE p \in {1, 2} : K!Cardinality({q \in {1, 2} : q < p}) = i - 1)]
    BY <1>1 DEF K!Stocks
  <2> QED
    BY <1>2, <2>1, <2>2
<1> HIDE DEF nth
<1>7. [i \in 1..2 |-> K!Stock(nth(i))] = <<K!Stock(1), K!Stock(2)>>
  BY <1>5
<1> QED
  BY <1>6, <1>7

\* Rows of growing rank followed by rows of greater rank.
LEMMA JoinedGrow ==
  ASSUME NEW rows, NEW more, NEW low \in Int, NEW mid \in Int, NEW next \in Int, NEW high \in Int,
         Growing(rows, low, mid), Growing(more, next, high), mid < next, low <= next, mid <= high
  PROVE  Growing(rows \o more, low, high)
<1> DEFINE n == Len(rows)
           m == Len(more)
           all == rows \o more
<1>1. rows \in Seq(Row) /\ more \in Seq(Row)
  BY DEF Growing
<1>2. /\ all \in Seq(Row) /\ Len(all) = n + m /\ n \in Nat /\ m \in Nat
      /\ \A i \in 1..Len(all) : all[i] = IF i <= n THEN rows[i] ELSE more[i - n]
  BY <1>1, ConcatProperties, LenProperties
<1> HIDE DEF n, m, all
<1>3. \A i \in 1..Len(all) : /\ i <= n => i \in 1..n /\ all[i] = rows[i]
                             /\ i > n => i - n \in 1..m /\ all[i] = more[i - n]
  BY <1>2
<1>4. /\ \A i \in 1..n : Rank(rows[i]) \in low..mid
      /\ \A i \in 1..m : Rank(more[i]) \in next..high
      /\ \A i, j \in 1..n : i < j => Rank(rows[i]) < Rank(rows[j])
      /\ \A i, j \in 1..m : i < j => Rank(more[i]) < Rank(more[j])
  BY DEF Growing, n, m
<1>5. ASSUME NEW i \in 1..Len(all)
      PROVE  Rank(all[i]) \in low..high
  <2>1. CASE i <= n
    <3>1. Rank(all[i]) \in low..mid
      BY <1>3, <1>4, <2>1
    <3> QED
      BY <3>1
  <2>2. CASE i > n
    <3>1. Rank(all[i]) \in next..high
      BY <1>3, <1>4, <2>2
    <3> QED
      BY <3>1
  <2> QED
    BY <1>2, <2>1, <2>2
<1>6. ASSUME NEW i \in 1..Len(all), NEW j \in 1..Len(all), i < j
      PROVE  Rank(all[i]) < Rank(all[j])
  <2>1. CASE j <= n
    <3>1. i <= n
      BY <1>2, <1>6, <2>1
    <3> QED
      BY <1>3, <1>4, <1>6, <2>1, <3>1
  <2>2. CASE i > n
    <3>1. j > n /\ i - n < j - n
      BY <1>2, <1>6, <2>2
    <3>2. /\ i - n \in 1..m /\ all[i] = more[i - n]
          /\ j - n \in 1..m /\ all[j] = more[j - n]
      BY <1>3, <2>2, <3>1
    <3>3. Rank(more[i - n]) < Rank(more[j - n])
      BY <1>4, <3>1, <3>2
    <3> QED
      BY <3>2, <3>3
  <2>3. CASE i <= n /\ j > n
    <3>1. Rank(all[i]) \in low..mid
      BY <1>3, <1>4, <2>3
    <3>2. Rank(all[j]) \in next..high
      BY <1>3, <1>4, <2>3
    <3> QED
      BY <3>1, <3>2
  <2> QED
    BY <1>2, <1>6, <2>1, <2>2, <2>3
<1> QED
  BY <1>2, <1>5, <1>6 DEF Growing, all

\* The pieces that the transactions are made of.
LEMMA PiecesGrow ==
  /\ \A row \in Row : Growing(<<row>>, Rank(row), Rank(row))
  /\ Growing(K!Stocks(K!Forth), 2, 3) /\ Growing(K!Stocks(K!Back), 2, 3)
  /\ Growing(K!Progress("s1", K!Back), 4, 6)
<1>1. ASSUME NEW row \in Row
      PROVE  Growing(<<row>>, Rank(row), Rank(row))
  <2>1. Rank(row) \in Int
    BY DEF Rank
  <2> QED
    BY <2>1 DEF Growing
<1>2. Growing(<<K!Stock(1), K!Stock(2)>>, 2, 3)
  BY RanksOfRows DEF Growing, Row
<1>3. Growing([i \in DOMAIN K!Back |-> K!SaleItem("s1", K!Back[i])], 4, 5)
  <2>1. [i \in DOMAIN K!Back |-> K!SaleItem("s1", K!Back[i])]
          = <<K!SaleItem("s1", 2), K!SaleItem("s1", 1)>>
    BY DEF K!Back
  <2>2. Growing(<<K!SaleItem("s1", 2), K!SaleItem("s1", 1)>>, 4, 5)
    BY RanksOfRows DEF Growing, Row
  <2> QED
    BY <2>1, <2>2
<1>4. Growing(<<K!SaleRow("s1")>>, 6, 6)
  BY <1>1, RanksOfRows DEF Row
<1>5. Growing(K!Progress("s1", K!Back), 4, 6)
  BY <1>3, <1>4, JoinedGrow DEF K!Progress
<1>6. Growing(K!Stocks(K!Forth), 2, 3) /\ Growing(K!Stocks(K!Back), 2, 3)
  BY <1>2, StocksInOrder
<1> QED
  BY <1>1, <1>5, <1>6

\* Every transaction that locks rows in order does.
LEMMA LockedInOrder == \A rows \in K!InOrder : Growing(rows, 1, 6)
<1>1. ASSUME NEW row \in Row, Rank(row) = 1, NEW products \in {K!Forth, K!Back}
      PROVE  /\ Growing(<<row>> \o K!Stocks(products), 1, 3)
             /\ Growing(<<row>> \o K!Stocks(products), 1, 6)
  <2>1. Growing(<<row>>, 1, 1) /\ Growing(K!Stocks(products), 2, 3)
    BY <1>1, PiecesGrow
  <2>2. Growing(<<row>> \o K!Stocks(products), 1, 3)
    BY <2>1, JoinedGrow
  <2>3. ASSUME NEW rows, Growing(rows, 1, 3)
        PROVE  Growing(rows, 1, 6)
    BY <2>3 DEF Growing
  <2> QED
    BY <2>2, <2>3
<1>2. ASSUME NEW row \in Row, Rank(row) = 1
      PROVE  Growing(<<row>> \o K!Stocks(K!Back) \o K!Progress("s1", K!Back), 1, 6)
  BY <1>1, <1>2, PiecesGrow, JoinedGrow
<1>3. ASSUME NEW row \in Row, Rank(row) = 1, NEW p \in {1, 2}
      PROVE  Growing(<<row, K!Stock(p)>>, 1, 6)
  <2>1. Rank(K!Stock(p)) \in 2..3 /\ K!Stock(p) \in Row
    BY RanksOfRows DEF Row
  <2> QED
    BY <1>3, <2>1 DEF Growing
<1>4. \A row \in {K!PickingRow("p1"), K!PickingRow("p2"), K!PackingRow("k2"), K!ReceiptRow("r1"),
                  K!SequenceRow("picking"), K!SequenceRow("transfer")} :
        row \in Row /\ Rank(row) = 1
  BY RanksOfRows DEF Row
<1>5. /\ Growing(K!CreatePicking(K!Forth), 1, 6) /\ Growing(K!CreatePicking(K!Back), 1, 6)
      /\ Growing(K!CompletePicking("p1", K!Back), 1, 6)
      /\ Growing(K!CompletePicking("p2", K!Forth), 1, 6)
      /\ Growing(K!Send(K!Back), 1, 6) /\ Growing(K!CompleteReceipt("r1", K!Back), 1, 6)
  BY <1>1, <1>4 DEF K!CreatePicking, K!CompletePicking, K!Send, K!CompleteReceipt
<1>6. /\ Growing(K!CancelPicking("p1", K!Back, "s1"), 1, 6)
      /\ Growing(K!EndPacking("k2", K!Back, "s1"), 1, 6)
  BY <1>2, <1>4 DEF K!CancelPicking, K!EndPacking
<1>7. Growing(K!PickItem("p1", 1), 1, 6) /\ Growing(K!PickItem("p2", 2), 1, 6)
  BY <1>3, <1>4 DEF K!PickItem
<1> QED
  BY <1>5, <1>6, <1>7 DEF K!InOrder

\* Also a transaction that locks rows in no order locks a sequence of them.
LEMMA RowsOfOperations == \A rows \in K!Operation : Len(rows) \in Nat
<1> DEFINE Rows == Row \union {K!WaveRow("w1")}
<1>1. \A rows \in K!InOrder : rows \in Seq(Row)
  BY LockedInOrder DEF Growing
<1>2. /\ <<K!SaleRow("s1")>> \in Seq(Row) /\ K!Stocks(K!Forth) \in Seq(Row)
      /\ K!CreatePicking(K!Forth) \in Seq(Row)
  <2>1. K!CreatePicking(K!Forth) \in Seq(Row)
    BY <1>1 DEF K!InOrder
  <2>2. K!Stocks(K!Forth) \in Seq(Row)
    BY PiecesGrow DEF Growing
  <2>3. K!SaleRow("s1") \in Row
    BY DEF Row
  <2> QED
    BY <2>1, <2>2, <2>3
<1>3. [i \in DOMAIN K!Forth |-> K!SaleItem("s1", K!Forth[i])] \in Seq(Row)
  <2>1. [i \in DOMAIN K!Forth |-> K!SaleItem("s1", K!Forth[i])]
          = <<K!SaleItem("s1", 1), K!SaleItem("s1", 2)>>
    BY DEF K!Forth
  <2>2. K!SaleItem("s1", 1) \in Row /\ K!SaleItem("s1", 2) \in Row
    BY DEF Row
  <2> QED
    BY <2>1, <2>2
<1>4. K!Release("s1", K!Forth) \in Seq(Row)
  <2> DEFINE a == <<K!SaleRow("s1")>>
             b == K!Stocks(K!Forth)
             c == K!CreatePicking(K!Forth)
             d == [i \in DOMAIN K!Forth |-> K!SaleItem("s1", K!Forth[i])]
  <2>1. K!Release("s1", K!Forth) = a \o b \o c \o d
    BY DEF K!Release
  <2>2. a \in Seq(Row) /\ b \in Seq(Row) /\ c \in Seq(Row) /\ d \in Seq(Row)
    BY <1>2, <1>3
  <2> HIDE DEF a, b, c, d
  <2>3. a \o b \in Seq(Row)
    BY <2>2, ConcatProperties
  <2>4. a \o b \o c \in Seq(Row)
    BY <2>2, <2>3, ConcatProperties
  <2>5. a \o b \o c \o d \in Seq(Row)
    BY <2>2, <2>4, ConcatProperties
  <2> QED
    BY <2>1, <2>5
<1>5. K!WavePick("w1", <<"p1", "p2">>, 1) \in Seq(Rows)
  <2> DEFINE a == K!PickItem("p1", 1)
             b == K!PickItem("p2", 1)
             seqs == [i \in DOMAIN <<"p1", "p2">> |-> K!PickItem(<<"p1", "p2">>[i], 1)]
             top == <<K!WaveRow("w1")>>
             Step(f) == [i \in 1..Len(seqs) |-> IF i = 1 THEN seqs[i] ELSE f[i - 1] \o seqs[i]]
             flat == CHOOSE f : f = Step(f)
  <2>1. a \in Seq(Rows) /\ b \in Seq(Rows) /\ top \in Seq(Rows)
    BY DEF K!PickItem, Row
  <2>2. seqs = <<a, b>>
    OBVIOUS
  <2>3. K!FlattenSeq(seqs) = flat[2]
    BY <2>2 DEF K!FlattenSeq
  <2>4. K!WavePick("w1", <<"p1", "p2">>, 1) = top \o K!FlattenSeq(seqs)
    BY DEF K!WavePick
  <2> HIDE DEF a, b, seqs, top
  <2>5. flat = Step(flat)
    <3> DEFINE two == <<a, a \o b>>
    <3>1. Len(seqs) = 2 /\ seqs[1] = a /\ seqs[2] = b
      BY <2>2
    <3>2. two = Step(two)
      BY <3>1
    <3> HIDE DEF two, Step
    <3> QED
      BY <3>2
  <2> HIDE DEF flat
  <2>6. flat[2] = a \o b
    <3>1. Len(seqs) = 2 /\ seqs[1] = a /\ seqs[2] = b
      BY <2>2
    <3>2. flat[1] = a
      BY <2>5, <3>1
    <3> QED
      BY <2>5, <3>1, <3>2
  <2> HIDE DEF Rows
  <2>7. a \o b \in Seq(Rows)
    BY <2>1, ConcatProperties
  <2>8. top \o (a \o b) \in Seq(Rows)
    BY <2>1, <2>7, ConcatProperties
  <2> QED
    BY <2>3, <2>4, <2>6, <2>8
<1>6. K!ImportStock(K!Back) \in Seq(Row)
  <2>1. K!ImportStock(K!Back) = <<K!Stock(2), K!Stock(1)>>
    BY DEF K!ImportStock, K!Back
  <2>2. K!Stock(1) \in Row /\ K!Stock(2) \in Row
    BY DEF Row
  <2> QED
    BY <2>1, <2>2
<1> HIDE DEF Rows
<1>7. \A rows \in K!Operation : rows \in Seq(Row) \/ rows \in Seq(Rows)
  BY <1>1, <1>4, <1>5, <1>6 DEF K!Operation, K!OutOfOrder
<1>8. (\A rows \in Seq(Row) : Len(rows) \in Nat) /\ (\A rows \in Seq(Rows) : Len(rows) \in Nat)
  BY LenProperties
<1> QED
  BY <1>7, <1>8

\* A transaction has locked rows only while it runs, and no more than it asks for.
HeldOfOwn ==
  /\ locking = [t \in Transactions |-> locking[t]] /\ held = [t \in Transactions |-> held[t]]
  /\ K!LocksTypeOK

\* HeldOfOwn is an invariant of the locks.
LEMMA LocksPart == Spec => [](part = "row locks" => HeldOfOwn)
<1> DEFINE Inv == part = "row locks" => HeldOfOwn
           Lengths == \A rows \in K!Operation : Len(rows) \in Nat
<1>1. Lengths
  BY RowsOfOperations
<1>2. Len(K!Idle) = 0
  BY DEF K!Idle
<1>3. Init => Inv
  <2> SUFFICES ASSUME K!Init PROVE HeldOfOwn
    BY DEF Init
  <2>1. \A t \in Transactions : locking[t] = K!Idle /\ held[t] = 0 /\ Len(locking[t]) = 0
    BY <1>2 DEF K!Init
  <2> QED
    BY <2>1 DEF K!Init, HeldOfOwn, K!LocksTypeOK
<1>4. Inv /\ [Next]_vars => Inv'
  <2> SUFFICES ASSUME HeldOfOwn, K!Next \/ UNCHANGED <<locking, held>>
               PROVE  HeldOfOwn'
    BY DEF Next, LocksNext, vars
  <2>1. CASE UNCHANGED <<locking, held>>
    BY <2>1 DEF HeldOfOwn, K!LocksTypeOK
  <2>2. ASSUME NEW t \in Transactions, NEW op \in K!Operation, K!Begin(t, op)
        PROVE  HeldOfOwn'
    BY <1>1, <1>2, <2>2 DEF K!Begin, HeldOfOwn, K!LocksTypeOK
  <2>3. ASSUME NEW t \in Transactions, K!Lock(t)
        PROVE  HeldOfOwn'
    BY <1>1, <1>2, <2>3 DEF K!Lock, K!Pending, HeldOfOwn, K!LocksTypeOK
  <2>4. ASSUME NEW t \in Transactions, K!End(t)
        PROVE  HeldOfOwn'
    <3>1. /\ locking' = [locking EXCEPT ![t] = K!Idle] /\ held' = [held EXCEPT ![t] = 0]
          /\ K!Idle \in K!Operation \union {K!Idle}
      BY <2>4 DEF K!End
    <3> HIDE DEF K!Idle
    <3>2. locking'[t] = K!Idle /\ held'[t] = 0
      BY <3>1 DEF HeldOfOwn
    <3>3. locking'[t] \in K!Operation \union {K!Idle} /\ held'[t] \in 0..Len(locking'[t])
      BY <1>2, <3>1, <3>2
    <3>4. \A u \in Transactions : u # t => locking'[u] = locking[u] /\ held'[u] = held[u]
      BY <3>1 DEF HeldOfOwn
    <3>5. K!LocksTypeOK'
      BY <3>3, <3>4 DEF HeldOfOwn, K!LocksTypeOK
    <3>6. locking' = [u \in Transactions |-> locking'[u]] /\ held' = [u \in Transactions |-> held'[u]]
      BY <3>1 DEF HeldOfOwn
    <3> QED
      BY <3>5, <3>6 DEF HeldOfOwn
  <2> QED
    BY <2>1, <2>2, <2>3, <2>4 DEF K!Next, K!Commit, K!Refuse
<1> QED
  BY <1>3, <1>4, PTL DEF Spec

\* Of transactions that lock in order, one that asks for the last row in that
\* order waits for none of the others: what they hold comes before what they
\* ask for.
LEMMA LastWaitsForNone == HeldOfOwn => K!OrderedNeverDeadlock
<1> SUFFICES ASSUME HeldOfOwn,
                    NEW waiting \in (SUBSET {t \in Transactions : locking[t] \in K!InOrder}) \ {{}}
             PROVE  \E t \in waiting : \A u \in waiting : ~K!WaitsFor(t, u)
  BY DEF K!OrderedNeverDeadlock
<1> DEFINE Asked(t) == Rank(K!Wanted(t))
<1>1. \A t \in waiting : /\ Growing(locking[t], 1, 6) /\ Len(locking[t]) \in Nat
                          /\ held[t] \in 0..Len(locking[t])
  <2> TAKE t \in waiting
  <2>1. t \in Transactions /\ locking[t] \in K!InOrder
    OBVIOUS
  <2>2. Growing(locking[t], 1, 6)
    BY <2>1, LockedInOrder
  <2>3. locking[t] \in Seq(Row)
    BY <2>2 DEF Growing
  <2>4. Len(locking[t]) \in Nat
    BY <2>3
  <2> QED
    BY <2>1, <2>2, <2>4 DEF HeldOfOwn, K!LocksTypeOK
<1>2. CASE \E t \in waiting : ~K!Pending(t)
  BY <1>2 DEF K!WaitsFor
<1>3. CASE \A t \in waiting : K!Pending(t)
  <2>1. ASSUME NEW t \in waiting
        PROVE  /\ held[t] + 1 \in 1..Len(locking[t]) /\ Asked(t) \in 1..6
               /\ \A row \in K!Held(t) : Rank(row) < Asked(t)
    <3>1. held[t] + 1 \in 1..Len(locking[t]) /\ 1..held[t] \subseteq 1..Len(locking[t])
      BY <1>1, <1>3 DEF K!Pending
    <3>2. \A i \in 1..held[t] : Rank(locking[t][i]) < Rank(locking[t][held[t] + 1])
      BY <1>1, <3>1 DEF Growing
    <3> QED
      BY <1>1, <3>1, <3>2 DEF Growing, K!Held, K!Wanted
  <2>2. PICK t \in waiting : \A u \in waiting : Asked(u) <= Asked(t)
    <3> DEFINE At(n) == \E t \in waiting : Asked(t) = n
    <3>1. \E n \in 1..6 : At(n) /\ \A k \in 1..6 : At(k) => k <= n
      <4>1. \E n \in 1..6 : At(n)
        <5>1. PICK t \in waiting : TRUE
          OBVIOUS
        <5>2. Asked(t) \in 1..6 /\ At(Asked(t))
          BY <2>1
        <5> QED
          BY <5>2
      <4> HIDE DEF At
      <4> QED
        BY <4>1
    <3> HIDE DEF Asked
    <3> QED
      BY <2>1, <3>1
  <2>3. ASSUME NEW u \in waiting
        PROVE  ~K!WaitsFor(t, u)
    <3>1. K!Wanted(t) \in K!Held(u) => Asked(t) < Asked(u)
      BY <2>1
    <3> QED
      BY <2>1, <2>2, <3>1 DEF K!WaitsFor
  <2> QED
    BY <2>3
<1> QED
  BY <1>2, <1>3

-----------------------------------------------------------------------------
(* The status of a sales order.  A transaction decides it from the items it *)
(* sees, and the rows it has locked keep them as it saw them.              *)

OrderedOf(p) == IF p \in FewGoods THEN FewUnits ELSE SomeUnits

Status == {"open", "partially_released", "released", "partially_shipped", "shipped"}

Reporting ==
  [stage : {"releasing", "changed", "read", "kept", "written"}, product : Goods,
   released : Int, shipped : Nat, order : BOOLEAN, status : Status]

\* The items are within what was ordered, and stay so with what a transaction
\* adds: a report takes of what is under way, a release of what is not released.
ItemsFit ==
  /\ items \in [Goods -> [released : Nat, shipped : Nat]]
  /\ \A p \in Goods : items[p].shipped <= items[p].released /\ items[p].released <= OrderedOf(p)

Fits(d) ==
  LET item == items[d.product]
  IN  \/ /\ d.order /\ d.shipped = 0
         /\ d.released \in 1..(OrderedOf(d.product) - item.released)
      \/ /\ d.stage # "releasing"
         /\ d.shipped - d.released \in 1..(item.released - item.shipped)
         /\ d.released <= 0

\* One transaction has the row of an item, and one that of the order.
RowsLocked ==
  \A t, u \in Transactions :
    t # u /\ reporting[t] # S!Nothing /\ reporting[u] # S!Nothing =>
      /\ ~ (reporting[t].order /\ reporting[u].order)
      /\ reporting[t].product = reporting[u].product =>
           reporting[t].stage = "releasing" \/ reporting[u].stage = "releasing"

\* A transaction that is to write that everything was shipped has seen so.
SawShipped(t) ==
  reporting[t].stage \in {"read", "written"} /\ reporting[t].status = "shipped" =>
    \A p \in Goods :
      items[p].shipped + (IF p = reporting[t].product THEN reporting[t].shipped ELSE 0)
        >= OrderedOf(p)

ProgressInv ==
  /\ status \in Status \union {"cancelled"} /\ ItemsFit
  /\ reporting = [t \in Transactions |-> reporting[t]]
  /\ \A t \in Transactions :
       reporting[t] # S!Nothing =>
         reporting[t] \in Reporting /\ Fits(reporting[t]) /\ SawShipped(t)
  /\ RowsLocked
  /\ status = "shipped" => \A p \in Goods : items[p].shipped >= OrderedOf(p)
  /\ status = "cancelled" =>
       /\ \A t \in Transactions : reporting[t] = S!Nothing
       /\ \A p \in Goods : items[p].released <= items[p].shipped

\* Orders are for quantities.
LEMMA OrderedTyped ==
  \A p \in Goods : OrderedOf(p) \in Nat
BY SalesProgressAssumption DEF S!SalesProgressAssumption, OrderedOf

\* A transaction that reports nothing is none of those under way.
LEMMA NothingIsNoReport == S!Nothing \notin Reporting /\ S!Nothing.stage = "none"
BY DEF S!Nothing, Reporting

\* What a transaction leaves of the items when it commits.
LEMMA SeenItems ==
  ASSUME ProgressInv, NEW t \in Transactions, reporting[t] # S!Nothing
  PROVE  LET d == reporting[t]
         IN  /\ S!Seen(t) \in [Goods -> [released : Int, shipped : Nat]]
             /\ \A p \in Goods : p # d.product => S!Seen(t)[p] = items[p]
             /\ S!Seen(t)[d.product].released = items[d.product].released + d.released
             /\ S!Seen(t)[d.product].shipped = items[d.product].shipped + d.shipped
             /\ d \in Reporting /\ Fits(d)
<1> DEFINE d == reporting[t]
           row == [released |-> items[d.product].released + d.released,
                   shipped |-> items[d.product].shipped + d.shipped]
<1>1. d \in Reporting /\ Fits(d)
  BY DEF ProgressInv
<1>2. d.product \in Goods /\ d.released \in Int /\ d.shipped \in Nat
  BY <1>1 DEF Reporting
<1>3. items \in [Goods -> [released : Nat, shipped : Nat]]
  BY DEF ProgressInv, ItemsFit
<1>4. S!Seen(t) = [items EXCEPT ![d.product] = row]
  BY DEF S!Seen
<1>5. row \in [released : Int, shipped : Nat]
  BY <1>2, <1>3
<1>6. row.released = items[d.product].released + d.released
      /\ row.shipped = items[d.product].shipped + d.shipped
  OBVIOUS
<1> HIDE DEF row
<1> QED
  BY <1>1, <1>2, <1>3, <1>4, <1>5, <1>6

\* A transaction goes on, and nothing is committed.
LEMMA ReportGoesOn ==
  ASSUME ProgressInv, status # "cancelled", NEW t \in Transactions, NEW e \in Reporting,
         items' = items, status' = status, reporting' = [reporting EXCEPT ![t] = e],
         Fits(e),
         e.stage \in {"read", "written"} /\ e.status = "shipped" =>
           \A p \in Goods :
             items[p].shipped + (IF p = e.product THEN e.shipped ELSE 0) >= OrderedOf(p),
         \A u \in Transactions : u # t /\ reporting[u] # S!Nothing =>
           /\ ~ (e.order /\ reporting[u].order)
           /\ e.product = reporting[u].product =>
                e.stage = "releasing" \/ reporting[u].stage = "releasing"
  PROVE  ProgressInv'
<1>1. /\ reporting' = [u \in Transactions |-> reporting'[u]] /\ reporting'[t] = e
      /\ \A u \in Transactions : u # t => reporting'[u] = reporting[u]
  BY DEF ProgressInv
<1>2. ItemsFit'
  BY DEF ProgressInv, ItemsFit
<1>3. ASSUME NEW u \in Transactions, reporting'[u] # S!Nothing
      PROVE  reporting'[u] \in Reporting /\ Fits(reporting[u])' /\ SawShipped(u)'
  <2>1. CASE u = t
    BY <1>1, <2>1 DEF Fits, SawShipped
  <2>2. CASE u # t
    <3>1. reporting[u] \in Reporting /\ Fits(reporting[u]) /\ SawShipped(u)
      BY <1>1, <1>3, <2>2 DEF ProgressInv
    <3> QED
      BY <1>1, <2>2, <3>1 DEF Fits, SawShipped
  <2> QED
    BY <2>1, <2>2
<1>4. RowsLocked'
  BY <1>1 DEF ProgressInv, RowsLocked
<1>5. status = "shipped" => \A p \in Goods : items'[p].shipped >= OrderedOf(p)
  BY DEF ProgressInv
<1>6. status' \in Status \union {"cancelled"}
  BY DEF ProgressInv
<1> QED
  BY <1>1, <1>2, <1>3, <1>4, <1>5, <1>6 DEF ProgressInv

\* A report begins with the row of its item locked.
LEMMA BeginReport ==
  ASSUME ProgressInv, NEW t \in Transactions, NEW p \in Goods, NEW n \in 1..OrderedOf(p),
         NEW shipped \in 0..n, S!Report(t, p, n, shipped)
  PROVE  ProgressInv' /\ S!KeepsCancelled
<1> DEFINE e == [stage |-> "changed", product |-> p, released |-> shipped - n,
                 shipped |-> shipped, order |-> FALSE, status |-> "open"]
<1>1. /\ n \in 1..(items[p].released - items[p].shipped)
      /\ items' = items /\ status' = status /\ reporting' = [reporting EXCEPT ![t] = e]
  BY DEF S!Report, S!Begin, S!Transaction
<1>2. \A u \in Transactions :
        u # t /\ reporting[u] # S!Nothing /\ reporting[u].product = p => reporting[u].stage = "releasing"
  BY DEF S!Report, S!ItemFree, S!Active
<1>3. /\ e.stage = "changed" /\ e.product = p /\ e.order = FALSE
      /\ e.shipped = shipped /\ e.released = shipped - n
  OBVIOUS
<1>4. n \in Int /\ shipped \in Nat /\ shipped <= n
  BY OrderedTyped
<1>5. e \in Reporting
  BY <1>4 DEF Reporting, Status
<1>6. status # "cancelled"
  BY <1>1, <1>4 DEF ProgressInv, ItemsFit
<1> HIDE DEF e
<1>7. Fits(e)
  BY <1>1, <1>3, <1>4 DEF Fits
<1>8. ProgressInv'
  BY <1>1, <1>2, <1>3, <1>5, <1>6, <1>7, ReportGoesOn
<1> QED
  BY <1>8, <1>6 DEF S!KeepsCancelled

\* A release begins with the row of its item locked.
LEMMA BeginRelease ==
  ASSUME ProgressInv, NEW t \in Transactions, NEW p \in Goods, NEW n \in 1..OrderedOf(p),
         S!LockToRelease(t, p, n)
  PROVE  ProgressInv' /\ S!KeepsCancelled
<1> DEFINE e == [stage |-> "releasing", product |-> p, released |-> n,
                 shipped |-> 0, order |-> TRUE, status |-> "open"]
<1>1. /\ n \in 1..(OrderedOf(p) - items[p].released) /\ status # "cancelled"
      /\ items' = items /\ status' = status /\ reporting' = [reporting EXCEPT ![t] = e]
  BY DEF S!LockToRelease, S!Begin, S!Transaction, S!Closed, OrderedOf
<1>2. \A u \in Transactions : u # t /\ reporting[u] # S!Nothing => ~reporting[u].order
  BY DEF S!LockToRelease, S!OrderFree, S!Active
<1>3. /\ e.stage = "releasing" /\ e.product = p /\ e.order = TRUE
      /\ e.shipped = 0 /\ e.released = n
  OBVIOUS
<1>4. n \in Int
  BY OrderedTyped
<1>5. e \in Reporting
  BY <1>4 DEF Reporting, Status
<1> HIDE DEF e
<1>6. Fits(e)
  BY <1>1, <1>3 DEF Fits
<1>7. ProgressInv'
  BY <1>1, <1>2, <1>3, <1>5, <1>6, ReportGoesOn
<1> QED
  BY <1>7, <1>1 DEF S!KeepsCancelled

\* A transaction that is under way goes on.
LEMMA ReportContinues ==
  ASSUME ProgressInv, NEW t \in Transactions,
         S!ReleaseItems(t) \/ S!ReadItems(t) \/ S!WriteStatus(t)
  PROVE  ProgressInv' /\ S!KeepsCancelled
<1> DEFINE d == reporting[t]
<1>1. d # S!Nothing /\ items' = items /\ status' = status
  BY NothingIsNoReport DEF S!ReleaseItems, S!ReadItems, S!WriteStatus
<1>2. d \in Reporting /\ Fits(d) /\ SawShipped(t) /\ status # "cancelled"
  BY <1>1 DEF ProgressInv
<1>3. \A u \in Transactions : u # t /\ reporting[u] # S!Nothing =>
        /\ ~ (d.order /\ reporting[u].order)
        /\ d.product = reporting[u].product =>
             d.stage = "releasing" \/ reporting[u].stage = "releasing"
  BY <1>1 DEF ProgressInv, RowsLocked
<1>4. CASE S!ReleaseItems(t)
  <2> DEFINE e == [d EXCEPT !.stage = "changed"]
  <2>1. /\ e.stage = "changed" /\ e.product = d.product /\ e.order = d.order
        /\ e.shipped = d.shipped /\ e.released = d.released /\ e \in Reporting
    BY <1>2 DEF Reporting
  <2>2. reporting' = [reporting EXCEPT ![t] = e] /\ d.stage = "releasing"
    BY <1>4 DEF S!ReleaseItems
  <2>3. \A u \in Transactions : u # t /\ reporting[u] # S!Nothing /\ reporting[u].product = d.product
          => reporting[u].stage = "releasing"
    BY <1>4 DEF S!ReleaseItems, S!ItemFree, S!Active
  <2> HIDE DEF e, d
  <2>4. Fits(e)
    BY <1>2, <2>1, <2>2 DEF Fits
  <2>5. \A u \in Transactions : u # t /\ reporting[u] # S!Nothing =>
          /\ ~ (e.order /\ reporting[u].order)
          /\ e.product = reporting[u].product =>
               e.stage = "releasing" \/ reporting[u].stage = "releasing"
    BY <1>3, <2>1, <2>3
  <2>6. ProgressInv'
    BY <1>1, <1>2, <2>1, <2>2, <2>4, <2>5, ReportGoesOn
  <2> QED
    BY <1>1, <1>2, <2>6 DEF S!KeepsCancelled
<1>5. CASE S!ReadItems(t)
  <2> DEFINE e == [d EXCEPT !.stage = IF S!StillOpen THEN "read" ELSE "kept",
                            !.status = S!StatusOf(S!Seen(t))]
  <2>1. S!StatusOf(S!Seen(t)) \in Status
    BY DEF S!StatusOf, Status
  <2>2. /\ e.stage \in {"read", "kept"} /\ e.product = d.product /\ e.order = d.order
        /\ e.shipped = d.shipped /\ e.released = d.released /\ e \in Reporting
        /\ e.status = S!StatusOf(S!Seen(t))
    BY <1>2, <2>1 DEF Reporting
  <2>3. reporting' = [reporting EXCEPT ![t] = e] /\ d.stage = "changed"
    BY <1>5 DEF S!ReadItems
  <2> HIDE DEF e
  <2>4. Fits(e)
    BY <1>2, <2>2, <2>3 DEF Fits
  <2>5. e.status = "shipped" => \A p \in Goods : S!Seen(t)[p].shipped >= OrderedOf(p)
    BY <2>2 DEF S!StatusOf, OrderedOf
  <2>6. e.status = "shipped" =>
          \A p \in Goods :
            items[p].shipped + (IF p = e.product THEN e.shipped ELSE 0) >= OrderedOf(p)
    BY <1>1, <2>2, <2>5, SeenItems DEF ProgressInv, ItemsFit
  <2>7. \A u \in Transactions : u # t /\ reporting[u] # S!Nothing =>
          /\ ~ (e.order /\ reporting[u].order)
          /\ e.product = reporting[u].product =>
               e.stage = "releasing" \/ reporting[u].stage = "releasing"
    BY <1>3, <2>2, <2>3
  <2>8. ProgressInv'
    BY <1>1, <1>2, <2>2, <2>3, <2>4, <2>6, <2>7, ReportGoesOn
  <2> QED
    BY <1>1, <1>2, <2>8 DEF S!KeepsCancelled
<1>6. CASE S!WriteStatus(t)
  <2> DEFINE e == [d EXCEPT !.stage = "written", !.order = TRUE]
  <2>1. /\ e.stage = "written" /\ e.product = d.product /\ e.order = TRUE
        /\ e.shipped = d.shipped /\ e.released = d.released /\ e.status = d.status
        /\ e \in Reporting
    BY <1>2 DEF Reporting
  <2>2. reporting' = [reporting EXCEPT ![t] = e] /\ d.stage = "read"
    BY <1>6 DEF S!WriteStatus
  <2>3. \A u \in Transactions : u # t /\ reporting[u] # S!Nothing => ~reporting[u].order
    BY <1>6 DEF S!WriteStatus, S!OrderFree, S!Active
  <2> HIDE DEF e
  <2>4. Fits(e)
    BY <1>2, <2>1, <2>2 DEF Fits
  <2>5. e.status = "shipped" =>
          \A p \in Goods :
            items[p].shipped + (IF p = e.product THEN e.shipped ELSE 0) >= OrderedOf(p)
    BY <1>2, <2>1, <2>2 DEF SawShipped
  <2>6. \A u \in Transactions : u # t /\ reporting[u] # S!Nothing =>
          /\ ~ (e.order /\ reporting[u].order)
          /\ e.product = reporting[u].product =>
               e.stage = "releasing" \/ reporting[u].stage = "releasing"
    BY <1>3, <2>1, <2>2, <2>3
  <2>7. ProgressInv'
    BY <1>1, <1>2, <2>1, <2>2, <2>4, <2>5, <2>6, ReportGoesOn
  <2> QED
    BY <1>1, <1>2, <2>7 DEF S!KeepsCancelled
<1> QED
  BY <1>4, <1>5, <1>6

\* A transaction that commits writes the items and the status it decided.
LEMMA CommitReport ==
  ASSUME ProgressInv, NEW t \in Transactions, S!Commit(t)
  PROVE  ProgressInv' /\ S!KeepsCancelled
<1> DEFINE d == reporting[t]
<1>1. /\ d # S!Nothing /\ d.stage \in {"written", "kept"} /\ items' = S!Seen(t)
      /\ status' = IF d.stage = "written" THEN d.status ELSE status
      /\ reporting' = [reporting EXCEPT ![t] = S!Nothing]
  BY NothingIsNoReport DEF S!Commit
<1>2. /\ items' \in [Goods -> [released : Int, shipped : Nat]]
      /\ \A p \in Goods : p # d.product => items'[p] = items[p]
      /\ items'[d.product].released = items[d.product].released + d.released
      /\ items'[d.product].shipped = items[d.product].shipped + d.shipped
      /\ d \in Reporting /\ Fits(d)
  BY <1>1, SeenItems
<1>3. /\ reporting' = [u \in Transactions |-> reporting'[u]] /\ reporting'[t] = S!Nothing
      /\ \A u \in Transactions : u # t => reporting'[u] = reporting[u]
  BY <1>1 DEF ProgressInv
<1>4. /\ items \in [Goods -> [released : Nat, shipped : Nat]]
      /\ \A p \in Goods : items[p].shipped <= items[p].released /\ items[p].released <= OrderedOf(p)
  BY DEF ProgressInv, ItemsFit
<1>5. status # "cancelled" /\ SawShipped(t)
  BY <1>1 DEF ProgressInv
<1>6. \A u \in Transactions : u # t /\ reporting[u] # S!Nothing =>
        /\ ~ (d.order /\ reporting[u].order)
        /\ d.product = reporting[u].product =>
             d.stage = "releasing" \/ reporting[u].stage = "releasing"
  BY <1>1 DEF ProgressInv, RowsLocked
<1>7. d.product \in Goods /\ d.released \in Int /\ d.shipped \in Nat /\ d.status \in Status
  BY <1>2 DEF Reporting
<1> HIDE DEF d
<1>8. ItemsFit'
  <2>1. /\ items'[d.product].shipped <= items'[d.product].released
        /\ items'[d.product].released <= OrderedOf(d.product)
    BY <1>2, <1>4, <1>7, OrderedTyped DEF Fits
  <2>2. \A p \in Goods : items'[p].shipped <= items'[p].released /\ items'[p].released <= OrderedOf(p)
    BY <1>2, <1>4, <2>1
  <2>3. items' \in [Goods -> [released : Nat, shipped : Nat]]
    BY <1>2, <2>2
  <2> QED
    BY <2>2, <2>3 DEF ItemsFit, OrderedOf
<1>9. \A p \in Goods :
        /\ items[p].shipped <= items'[p].shipped
        /\ items[p].shipped \in Nat /\ items'[p].shipped \in Nat
        /\ items[p].released \in Nat /\ items'[p].released \in Nat
  BY <1>2, <1>4, <1>7, <1>8 DEF ItemsFit
<1>10. ASSUME NEW u \in Transactions, reporting'[u] # S!Nothing
       PROVE  reporting'[u] \in Reporting /\ Fits(reporting[u])' /\ SawShipped(u)'
  <2>1. u # t /\ reporting'[u] = reporting[u] /\ reporting[u] # S!Nothing
    BY <1>3, <1>10
  <2>2. reporting[u] \in Reporting /\ Fits(reporting[u]) /\ SawShipped(u)
    BY <2>1 DEF ProgressInv
  <2> DEFINE e == reporting[u]
  <2>3. e.product \in Goods /\ e.released \in Int /\ e.shipped \in Nat
    BY <2>2 DEF Reporting
  <2>4. CASE e.product # d.product
    <3>1. Fits(reporting[u])'
      BY <1>2, <2>1, <2>2, <2>3, <2>4 DEF Fits, OrderedOf
    <3>2. SawShipped(u)'
      BY <1>9, <2>1, <2>2, <2>3, OrderedTyped DEF SawShipped, OrderedOf
    <3> QED
      BY <2>1, <2>2, <3>1, <3>2
  <2>5. CASE e.product = d.product
    <3>1. e.stage = "releasing"
      BY <1>1, <1>6, <2>1, <2>5
    <3>2. e.order /\ e.shipped = 0 /\ e.released \in 1..(OrderedOf(e.product) - items[e.product].released)
      BY <2>2, <3>1 DEF Fits
    <3>3. d.released <= 0
      BY <1>2, <1>6, <2>1, <3>2 DEF Fits
    <3>4. items'[e.product].released <= items[e.product].released
      BY <1>2, <1>4, <1>7, <2>5, <3>3
    <3>5. e.released \in 1..(OrderedOf(e.product) - items'[e.product].released)
      BY <1>9, <2>3, <3>2, <3>4, OrderedTyped
    <3>6. Fits(reporting[u])'
      BY <2>1, <3>2, <3>5 DEF Fits, OrderedOf
    <3> QED
      BY <2>1, <2>2, <3>1, <3>6 DEF SawShipped
  <2> QED
    BY <2>4, <2>5
<1>11. RowsLocked'
  BY <1>3 DEF ProgressInv, RowsLocked
<1>12. status' = "shipped" => \A p \in Goods : items'[p].shipped >= OrderedOf(p)
  <2>1. CASE d.stage = "written" /\ d.status = "shipped"
    <3>1. \A p \in Goods :
            items[p].shipped + (IF p = d.product THEN d.shipped ELSE 0) >= OrderedOf(p)
      BY <1>5, <2>1 DEF SawShipped, d
    <3> QED
      BY <3>1, <1>2, <1>9
  <2>2. CASE status = "shipped"
    <3>1. \A p \in Goods : items[p].shipped >= OrderedOf(p)
      BY <2>2 DEF ProgressInv
    <3> QED
      BY <3>1, <1>9, OrderedTyped
  <2> QED
    BY <1>1, <2>1, <2>2
<1>13. status' \in Status \union {"cancelled"} /\ status' # "cancelled"
  BY <1>1, <1>5, <1>7 DEF ProgressInv, Status
<1>14. ProgressInv'
  BY <1>3, <1>8, <1>10, <1>11, <1>12, <1>13 DEF ProgressInv, OrderedOf
<1> QED
  BY <1>5, <1>14 DEF S!KeepsCancelled

\* An order is cancelled when no transaction is under way for it.
LEMMA CancelSale ==
  ASSUME ProgressInv, NEW t \in Transactions, S!Cancel(t)
  PROVE  ProgressInv' /\ S!KeepsCancelled
<1>1. /\ reporting[t] = S!Nothing /\ status # "cancelled" /\ status' = "cancelled"
      /\ items' = items /\ reporting' = reporting
      /\ \A p \in Goods : items[p].released <= items[p].shipped
  BY DEF S!Cancel, S!Closed, S!AllSettled
<1>2. ASSUME NEW u \in Transactions, reporting[u] # S!Nothing
      PROVE  FALSE
  <2>1. ~reporting[u].order
    BY <1>1, <1>2 DEF S!Cancel, S!OrderFree, S!Active
  <2>2. reporting[u] \in Reporting /\ Fits(reporting[u])
    BY <1>2 DEF ProgressInv
  <2>3. reporting[u].product \in Goods
    BY <2>2 DEF Reporting
  <2> QED
    BY <1>1, <2>1, <2>2, <2>3 DEF Fits, ProgressInv, ItemsFit
<1>3. ItemsFit' /\ RowsLocked'
  BY <1>1, <1>2 DEF ProgressInv, ItemsFit, RowsLocked
<1>4. ProgressInv'
  BY <1>1, <1>2, <1>3 DEF ProgressInv
<1> QED
  BY <1>1, <1>4 DEF S!KeepsCancelled

\* No step disturbs what transactions rely on.
LEMMA ProgressStep ==
  ASSUME ProgressInv, [S!Next]_progressVars
  PROVE  ProgressInv' /\ S!KeepsCancelled
<1>1. CASE UNCHANGED progressVars
  BY <1>1 DEF progressVars, ProgressInv, ItemsFit, RowsLocked, Fits, SawShipped, OrderedOf,
              S!KeepsCancelled
<1>2. CASE S!Next
  BY <1>2, BeginReport, BeginRelease, ReportContinues, CommitReport, CancelSale
     DEF S!Next, OrderedOf
<1> QED
  BY <1>1, <1>2

\* A cancelled order stays cancelled.
CancelledStay == part = "sales progress" => S!KeepsCancelled

\* The invariant of the status of sales orders.
LEMMA ProgressPart ==
  Spec => [](part = "sales progress" => ProgressInv) /\ [][CancelledStay]_vars
<1> DEFINE Inv == part = "sales progress" => ProgressInv
<1>1. Init => Inv
  <2> SUFFICES ASSUME S!Init PROVE ProgressInv
    BY DEF Init
  <2>1. \A t \in Transactions : reporting[t] = S!Nothing
    BY DEF S!Init
  <2>2. ItemsFit
    BY OrderedTyped DEF S!Init, ItemsFit
  <2> QED
    BY <2>1, <2>2 DEF S!Init, ProgressInv, RowsLocked, Status
<1>2. Inv /\ [Next]_vars => Inv' /\ CancelledStay
  BY ProgressStep DEF Next, ProgressNext, vars, progressVars, CancelledStay
<1> QED
  BY <1>1, <1>2, PTL DEF Spec

\* An order that is shipped has shipped all it asked for.
LEMMA ProgressInvGivesAll == ProgressInv => S!ShippedWasAll /\ S!ProgressTypeOK
<1> SUFFICES ASSUME ProgressInv PROVE S!ShippedWasAll /\ S!ProgressTypeOK
  OBVIOUS
<1>1. \A p \in Goods :
        /\ items[p].shipped \in Nat /\ items[p].released \in Nat /\ OrderedOf(p) \in Nat
        /\ items[p].shipped <= items[p].released /\ items[p].released <= OrderedOf(p)
  BY OrderedTyped DEF ProgressInv, ItemsFit
<1>2. S!ShippedWasAll
  BY <1>1 DEF S!ShippedWasAll, ProgressInv, OrderedOf
<1>3. S!ProgressTypeOK
  BY <1>1 DEF S!ProgressTypeOK, ProgressInv, Status, OrderedOf
<1> QED
  BY <1>2, <1>3

-----------------------------------------------------------------------------
(* Shipping.  A shipment is created under the lock of its packing; that a  *)
(* delivered one keeps its receiver needs one request at a time.           *)

\* Rows have the columns of the table, and a packing has one of them.
ShippingInv ==
  /\ \A s \in shipments :
       s = [packing |-> s.packing, number |-> s.number, carrier |-> s.carrier,
            receivedBy |-> s.receivedBy]
  /\ D!LeavesOnce

\* A delivery replaces the receiver and leaves the rest of a shipment.
LEMMA DeliveryInv ==
  ASSUME ShippingInv, NEW q \in Handlers, D!WriteDelivery(q)
  PROVE  ShippingInv'
<1> DEFINE d == despatching[q]
           After(s) == IF s.packing = d.packing /\ s.number = d.number
                       THEN [s EXCEPT !.receivedBy = d.receiver] ELSE s
<1>1. shipments' = {After(s) : s \in shipments}
  BY DEF D!WriteDelivery
<1>2. ASSUME NEW s \in shipments
      PROVE  /\ After(s).packing = s.packing
             /\ After(s) = [packing |-> After(s).packing, number |-> After(s).number,
                            carrier |-> After(s).carrier, receivedBy |-> After(s).receivedBy]
  <2>1. s = [packing |-> s.packing, number |-> s.number, carrier |-> s.carrier,
             receivedBy |-> s.receivedBy]
    BY DEF ShippingInv
  <2> QED
    BY <2>1
<1> HIDE DEF After
<1> QED
  BY <1>1, <1>2 DEF ShippingInv, D!LeavesOnce

\* A packing has at most one shipment, whatever requests do at a time.
LEMMA ShippingStep ==
  ASSUME ShippingInv, [D!Next]_shippingVars
  PROVE  ShippingInv'
<1>1. CASE shipments' = shipments
  BY <1>1 DEF ShippingInv, D!LeavesOnce
<1>2. ASSUME NEW q \in Handlers, D!CreateShipment(q)
      PROVE  ShippingInv'
  BY <1>2 DEF D!CreateShipment, D!Unshipped, ShippingInv, D!LeavesOnce
<1> QED
  BY <1>1, <1>2, DeliveryInv
     DEF D!Next, D!Complete, D!SetActive, D!CheckShip, D!FindCarrier, D!CheckDeliver, shippingVars

\* One request at a time: the shipment that is being delivered is on its way.
ShippingAlone ==
  /\ despatching = [q \in Handlers |-> despatching[q]]
  /\ \A p, q \in Handlers : despatching[p] # D!Idle /\ despatching[q] # D!Idle => p = q
  /\ \A q \in Handlers, s \in shipments :
       LET d == despatching[q]
       IN  d.stage = "delivering" /\ s.packing = d.packing /\ s.number = d.number =>
             s.receivedBy = D!Nobody

\* Of a finite set with at most one member, all members are the same.
LEMMA AtMostOne ==
  ASSUME NEW S1, IsFiniteSet(S1), NEW T1 \in SUBSET S1, Cardinality(T1) <= 1
  PROVE  \A p, q \in T1 : p = q
<1>1. IsFiniteSet(T1) /\ Cardinality(T1) \in Nat
  BY FS_Subset, FS_CardinalityType
<1>2. CASE Cardinality(T1) = 0
  BY <1>1, <1>2, FS_EmptySet
<1>3. CASE Cardinality(T1) = 1
  BY <1>1, <1>3, FS_Singleton
<1> QED
  BY <1>1, <1>2, <1>3

\* One request at a time, no receiver is replaced.
LEMMA ShippingStepAlone ==
  ASSUME ShippingInv, ShippingAlone, [D!AloneNext]_shippingVars
  PROVE  ShippingAlone' /\ D!KeepsReceiver
<1>1. CASE UNCHANGED shippingVars
  BY <1>1 DEF shippingVars, ShippingAlone, D!KeepsReceiver
<1>2. CASE D!AloneNext
  <2> DEFINE Undelivered(q) ==
               \A s \in shipments : despatching[q].stage = "delivering"
                 /\ s.packing = despatching[q].packing /\ s.number = despatching[q].number =>
                   s.receivedBy = D!Nobody
  <2>1. \A p, q \in Handlers : despatching'[p] # D!Idle /\ despatching'[q] # D!Idle => p = q
    <3> DEFINE T1 == {q \in Handlers : despatching'[q] # D!Idle}
    <3>1. Cardinality(T1) <= 1
      BY <1>2 DEF D!AloneNext, D!Cardinality, Cardinality
    <3> QED
      BY <3>1, AtMostOne, ShippingAssumption
  <2>2. D!Idle.stage = "idle"
    BY DEF D!Idle
  <2>3. ASSUME despatching' = despatching, shipments' = shipments
        PROVE  ShippingAlone' /\ D!KeepsReceiver
    BY <2>3 DEF ShippingAlone, D!KeepsReceiver
  <2>4. ASSUME NEW q \in Handlers, NEW e, despatching' = [despatching EXCEPT ![q] = e],
               shipments' = shipments, e.stage # "delivering"
        PROVE  ShippingAlone' /\ D!KeepsReceiver
    BY <2>1, <2>4 DEF ShippingAlone, D!KeepsReceiver
  <2>5. ASSUME NEW q \in Handlers, NEW p, NEW c, D!CheckShip(q, p, c)
        PROVE  ShippingAlone' /\ D!KeepsReceiver
    <3> DEFINE e == [stage |-> "shipping", packing |-> p, carrier |-> c]
    <3>1. e.stage # "delivering"
      OBVIOUS
    <3> HIDE DEF e
    <3> QED
      BY <2>4, <2>5, <3>1 DEF D!CheckShip, e
  <2>6. ASSUME NEW q \in Handlers, D!FindCarrier(q)
        PROVE  ShippingAlone' /\ D!KeepsReceiver
    <3> DEFINE e == [despatching[q] EXCEPT !.stage = "creating"]
    <3>1. CASE despatching' = [despatching EXCEPT ![q] = e]
      <4>1. e.stage # "delivering"
        BY <2>6 DEF D!FindCarrier
      <4> HIDE DEF e
      <4> QED
        BY <2>4, <2>6, <3>1, <4>1 DEF D!FindCarrier
    <3>2. CASE D!End(q)
      BY <2>2, <2>4, <2>6, <3>2 DEF D!FindCarrier, D!End
    <3> QED
      BY <2>6, <3>1, <3>2 DEF D!FindCarrier
  <2>7. ASSUME NEW q \in Handlers, D!CreateShipment(q)
        PROVE  ShippingAlone' /\ D!KeepsReceiver
    <3>1. despatching[q] # D!Idle /\ despatching' = [despatching EXCEPT ![q] = D!Idle]
      BY <2>2, <2>7 DEF D!CreateShipment, D!End
    <3>2. \A p \in Handlers : despatching'[p] = D!Idle
      BY <3>1 DEF ShippingAlone
    <3>3. shipments \subseteq shipments'
      BY <2>7 DEF D!CreateShipment
    <3> QED
      BY <2>1, <2>2, <3>1, <3>2, <3>3 DEF ShippingAlone, D!KeepsReceiver
  <2>8. ASSUME NEW q \in Handlers, NEW s \in shipments, NEW r, D!CheckDeliver(q, s, r)
        PROVE  ShippingAlone' /\ D!KeepsReceiver
    <3>1. /\ despatching' = [despatching EXCEPT ![q] =
               [stage |-> "delivering", packing |-> s.packing, number |-> s.number,
                receiver |-> r]]
          /\ shipments' = shipments /\ s.receivedBy = D!Nobody
      BY <2>8 DEF D!CheckDeliver, D!OnTheWay
    <3>2. \A t \in shipments : t.packing = s.packing => t = s
      BY DEF ShippingInv, D!LeavesOnce
    <3> QED
      BY <2>1, <3>1, <3>2 DEF ShippingAlone, D!KeepsReceiver
  <2>9. ASSUME NEW q \in Handlers, D!WriteDelivery(q)
        PROVE  ShippingAlone' /\ D!KeepsReceiver
    <3>1. /\ despatching[q].stage = "delivering"
          /\ despatching' = [despatching EXCEPT ![q] = D!Idle]
      BY <2>9 DEF D!WriteDelivery, D!End
    <3>2. \A p \in Handlers : despatching'[p] = D!Idle
      BY <2>2, <3>1 DEF ShippingAlone
    <3>3. D!KeepsReceiver
      <4> SUFFICES ASSUME NEW s \in shipments, s.receivedBy # D!Nobody
                   PROVE  s \in shipments'
        BY DEF D!KeepsReceiver
      <4>1. ~(s.packing = despatching[q].packing /\ s.number = despatching[q].number)
        BY <3>1 DEF ShippingAlone
      <4> QED
        BY <2>9, <4>1 DEF D!WriteDelivery
    <3> QED
      BY <2>1, <2>2, <3>1, <3>2, <3>3 DEF ShippingAlone
  <2> QED
    BY <1>2, <2>3, <2>5, <2>6, <2>7, <2>8, <2>9
       DEF D!AloneNext, D!Next, D!Complete, D!SetActive
<1> QED
  BY <1>1, <1>2

\* A delivered shipment keeps its receiver.
DeliveredStay == part = "shipping alone" => D!KeepsReceiver

\* The invariants of shipping, and what delivered shipments keep.
LEMMA ShippingPart ==
  Spec => /\ []( /\ part \in {"shipping", "shipping alone"} => ShippingInv
                 /\ part = "shipping alone" => ShippingAlone )
          /\ [][DeliveredStay]_vars
<1> DEFINE Inv == /\ part \in {"shipping", "shipping alone"} => ShippingInv
                  /\ part = "shipping alone" => ShippingAlone
<1>1. Init => Inv
  <2> SUFFICES ASSUME D!Init PROVE ShippingInv /\ ShippingAlone
    BY DEF Init
  <2>1. \A q \in Handlers : despatching[q] = D!Idle
    BY DEF D!Init
  <2> QED
    BY <2>1 DEF D!Init, ShippingInv, ShippingAlone, D!LeavesOnce
<1>2. Inv /\ [Next]_vars => Inv' /\ DeliveredStay
  <2> SUFFICES ASSUME Inv, [Next]_vars PROVE Inv' /\ DeliveredStay
    OBVIOUS
  <2>1. /\ part' = part
        /\ part = "shipping" => [D!Next]_shippingVars
        /\ part = "shipping alone" => [D!AloneNext]_shippingVars
    BY DEF Next, ShippingNext, vars
  <2>2. [D!AloneNext]_shippingVars => [D!Next]_shippingVars
    BY DEF D!AloneNext
  <2> QED
    BY <2>1, <2>2, ShippingStep, ShippingStepAlone DEF DeliveredStay
<1> QED
  BY <1>1, <1>2, PTL DEF Spec

\* What a request is about, while it runs.
Despatch == [stage : {"shipping", "creating"}, packing : Packings, carrier : Carriers \union {None}]
Delivery == [stage : {"delivering"}, packing : Packings, number : Handlers, receiver : Receivers]

ShippingRows ==
  /\ D!ShippingTypeOK
  /\ despatching \in [Handlers -> {D!Idle} \union Despatch \union Delivery]

\* Every request keeps the types of the rows, and despatches what is completed.
LEMMA ShippingRowsStep ==
  ASSUME ShippingRows, D!Next
  PROVE  ShippingRows'
<1> DEFINE Doing == {D!Idle} \union Despatch \union Delivery
           Busy == {"shipping", "creating", "delivering"}
<1>1. /\ completed \subseteq Packings /\ active \subseteq Carriers /\ shipments \subseteq D!Shipment
      /\ \A s \in shipments : s.packing \in completed
      /\ \A q \in Handlers : despatching[q].stage \in Busy => despatching[q].packing \in completed
      /\ despatching \in [Handlers -> Doing]
  BY DEF ShippingRows, D!ShippingTypeOK
<1>2. D!Idle \in Doing /\ D!Idle.stage \notin Busy
  BY DEF D!Idle
<1>3. D!Shipment = [packing : Packings, number : Handlers, carrier : Carriers \union {None},
                    receivedBy : Receivers \union {D!Nobody}]
  BY DEF D!Shipment
<1>4. \A q \in Handlers :
        /\ despatching[q].stage \in {"shipping", "creating"} => despatching[q] \in Despatch
        /\ despatching[q].stage = "delivering" => despatching[q] \in Delivery
  BY <1>1, <1>2 DEF Despatch, Delivery
<1> HIDE DEF Doing
\* What happens to the requests, beside packings and shipments that only grow.
<1>5. ASSUME NEW q \in Handlers, NEW e \in Doing, despatching' = [despatching EXCEPT ![q] = e],
             e.stage \in Busy => e.packing \in completed,
             completed' = completed, active' = active,
             shipments' \subseteq D!Shipment, \A s \in shipments' : s.packing \in completed
      PROVE  ShippingRows'
  <2>1. despatching' \in [Handlers -> Doing]
    BY <1>1, <1>5
  <2>2. \A p \in Handlers : despatching'[p].stage \in Busy => despatching'[p].packing \in completed
    BY <1>1, <1>5
  <2> QED
    BY <1>1, <1>5, <2>1, <2>2 DEF ShippingRows, D!ShippingTypeOK, Doing
<1>6. ASSUME NEW p \in Packings, D!Complete(p) PROVE ShippingRows'
  BY <1>1, <1>6 DEF D!Complete, ShippingRows, D!ShippingTypeOK
<1>7. ASSUME NEW c \in Carriers, NEW a \in BOOLEAN, D!SetActive(c, a) PROVE ShippingRows'
  BY <1>1, <1>7 DEF D!SetActive, ShippingRows, D!ShippingTypeOK
<1>8. ASSUME NEW q \in Handlers, NEW p \in Packings, NEW c \in Carriers \union {None},
             D!CheckShip(q, p, c)
      PROVE  ShippingRows'
  <2> DEFINE e == [stage |-> "shipping", packing |-> p, carrier |-> c]
  <2>1. e \in Doing /\ e.packing \in completed
    BY <1>8 DEF Despatch, Doing, D!CheckShip, D!Shippable
  <2>2. /\ despatching' = [despatching EXCEPT ![q] = e] /\ completed' = completed
        /\ active' = active /\ shipments' = shipments
    BY <1>8 DEF D!CheckShip
  <2> HIDE DEF e
  <2> QED
    BY <1>1, <1>5, <2>1, <2>2
<1>9. ASSUME NEW q \in Handlers, D!FindCarrier(q) PROVE ShippingRows'
  <2> DEFINE e == [despatching[q] EXCEPT !.stage = "creating"]
  <2>1. /\ despatching[q] \in Despatch /\ completed' = completed /\ active' = active
        /\ shipments' = shipments /\ despatching[q].packing \in completed
    BY <1>1, <1>4, <1>9 DEF D!FindCarrier
  <2>2. ASSUME despatching' = [despatching EXCEPT ![q].stage = "creating"] PROVE ShippingRows'
    <3>1. e \in Despatch /\ e.packing = despatching[q].packing
      BY <2>1 DEF Despatch
    <3>2. despatching' = [despatching EXCEPT ![q] = e]
      BY <2>2
    <3> HIDE DEF e
    <3>3. e \in Doing
      BY <3>1 DEF Doing
    <3> QED
      BY <1>1, <1>5, <2>1, <3>1, <3>2, <3>3
  <2>3. ASSUME D!End(q) PROVE ShippingRows'
    BY <1>1, <1>2, <1>5, <2>1, <2>3 DEF D!End
  <2> QED
    BY <1>9, <2>2, <2>3 DEF D!FindCarrier
<1>10. ASSUME NEW q \in Handlers, D!CreateShipment(q) PROVE ShippingRows'
  <2> DEFINE s == [packing |-> despatching[q].packing, number |-> q,
                   carrier |-> despatching[q].carrier, receivedBy |-> D!Nobody]
  <2>1. /\ despatching[q] \in Despatch /\ completed' = completed /\ active' = active
        /\ despatching[q].packing \in completed /\ D!End(q)
        /\ shipments' \subseteq shipments \union {s}
    BY <1>1, <1>4, <1>10 DEF D!CreateShipment
  <2>2. s \in D!Shipment /\ s.packing \in completed
    BY <1>3, <2>1 DEF Despatch
  <2> HIDE DEF s
  <2> QED
    BY <1>1, <1>2, <1>5, <2>1, <2>2 DEF D!End
<1>11. ASSUME NEW q \in Handlers, NEW s \in shipments, NEW r \in Receivers, D!CheckDeliver(q, s, r)
       PROVE  ShippingRows'
  <2> DEFINE e == [stage |-> "delivering", packing |-> s.packing, number |-> s.number, receiver |-> r]
  <2>1. /\ s.packing \in Packings /\ s.number \in Handlers /\ s.packing \in completed
    BY <1>1, <1>3
  <2>2. e \in Doing /\ e.packing \in completed
    BY <2>1 DEF Delivery, Doing
  <2>3. /\ despatching' = [despatching EXCEPT ![q] = e] /\ completed' = completed
        /\ active' = active /\ shipments' = shipments
    BY <1>11 DEF D!CheckDeliver
  <2> HIDE DEF e
  <2> QED
    BY <1>1, <1>5, <2>2, <2>3
<1>12. ASSUME NEW q \in Handlers, D!WriteDelivery(q) PROVE ShippingRows'
  <2> DEFINE d == despatching[q]
             After(s) == IF s.packing = d.packing /\ s.number = d.number
                         THEN [s EXCEPT !.receivedBy = d.receiver] ELSE s
  <2>1. /\ d \in Delivery /\ completed' = completed /\ active' = active /\ D!End(q)
        /\ shipments' = {After(s) : s \in shipments}
    BY <1>4, <1>12 DEF D!WriteDelivery
  <2>2. \A s \in shipments : After(s) \in D!Shipment /\ After(s).packing \in completed
    <3>1. d.receiver \in Receivers
      BY <2>1 DEF Delivery
    <3> QED
      BY <1>1, <1>3, <3>1
  <2> HIDE DEF After
  <2> QED
    BY <1>2, <1>5, <2>1, <2>2 DEF D!End
<1> QED
  BY Zenon, <1>6, <1>7, <1>8, <1>9, <1>10, <1>11, <1>12 DEF D!Next

LEMMA ShippingRowsInit == D!Init => ShippingRows
<1> SUFFICES ASSUME D!Init PROVE ShippingRows
  OBVIOUS
<1>1. \A q \in Handlers : despatching[q] = D!Idle /\ despatching[q].stage = "idle"
  BY DEF D!Init, D!Idle
<1> QED
  BY <1>1 DEF D!Init, ShippingRows, D!ShippingTypeOK

LEMMA ShippingTyped ==
  Spec => [](part \in {"shipping", "shipping alone"} => ShippingRows)
<1> DEFINE Inv == part \in {"shipping", "shipping alone"} => ShippingRows
<1>1. Init => Inv
  BY ShippingRowsInit DEF Init
<1>2. Inv /\ [Next]_vars => Inv'
  <2> SUFFICES ASSUME Inv, [Next]_vars, part' \in {"shipping", "shipping alone"}
               PROVE  ShippingRows'
    OBVIOUS
  <2>1. ShippingRows /\ (D!Next \/ UNCHANGED shippingVars)
    BY DEF Next, ShippingNext, vars, D!AloneNext
  <2>2. ASSUME UNCHANGED shippingVars PROVE ShippingRows'
    BY <2>1, <2>2 DEF shippingVars, ShippingRows, D!ShippingTypeOK
  <2> QED
    BY <2>1, <2>2, ShippingRowsStep
<1> QED
  BY <1>1, <1>2, PTL DEF Spec

-----------------------------------------------------------------------------
(* Receipts: what DocumentProofs shows, for the orders, products and      *)
(* bounds of the three parts.                                              *)

\* The proofs of both parts of waves are instantiated with them.
PP == INSTANCE DocumentProofs WITH
        Product <- Goods, Order <- Purchases, Dispatch <- {},
        NumReceipts <- SomeReceipts, NumLines <- FewLines, MaxQuantity <- FewUnits,
        Shipped <- <<>>, orders <- purchases, onHand <- received,
        NumOrders <- FewOrders, Wave <- PickWaves,
        Asked <- [o \in 1..FewOrders |-> FewUnits], MaxPick <- SomeUnits

RP == INSTANCE DocumentProofs WITH
        Product <- FewGoods, Order <- Purchases, Dispatch <- Dispatches,
        NumReceipts <- SomeReceipts, NumLines <- FewLines, MaxQuantity <- SomeUnits,
        Shipped <- ShippedEach(FewUnits), orders <- purchases, onHand <- received,
        NumOrders <- FewOrders, Wave <- PickWaves,
        Asked <- [o \in 1..FewOrders |-> FewUnits], MaxPick <- SomeUnits

OneReturnP == INSTANCE DocumentProofs WITH
                Product <- FewGoods, Order <- {}, Dispatch <- Dispatches,
                NumReceipts <- FewReceipts, NumLines <- SomeLines, MaxQuantity <- SomeUnits,
                Shipped <- ShippedEach(SomeUnits), orders <- purchases, onHand <- received,
                NumOrders <- SomeOrders, Wave <- {LoneWave},
                Asked <- [o \in 1..SomeOrders |-> IF o = 1 THEN SomeUnits ELSE FewUnits],
                MaxPick <- MostUnits

\* The instances of Receiving and of its proofs say the same.
LEMMA PSame ==
  /\ P!Init = PP!Init
  /\ P!Next = PP!Next
  /\ P!ReceivingAssumption = PP!ReceivingAssumption
  /\ P!StockWasReceived = PP!StockWasReceived
  /\ P!ItemsCountReceipts = PP!ItemsCountReceipts
  /\ P!ExcessConfirmed = PP!ExcessConfirmed
  /\ P!OrderStatusFollows = PP!OrderStatusFollows
  /\ P!KeepsEnded = PP!KeepsEnded
<1>1. P!Init = PP!Init
  BY DEF P!Init, PP!Init, P!Receipt, PP!Receipt, P!Line, PP!Line, P!NoItem, PP!NoItem,
         P!NoReceipt, PP!NoReceipt
<1>2. P!Next = PP!Next
  BY DEF P!Next, PP!Next, P!Receipt, PP!Receipt, P!Line, PP!Line, P!Items, PP!Items, P!Ordered,
         PP!Ordered, P!NoItem, PP!NoItem, P!NoReceipt, PP!NoReceipt, P!Quantity, PP!Quantity,
         P!Disposition, PP!Disposition, P!LineRow, PP!LineRow, P!Receivable, PP!Receivable,
         P!CreateOrder, PP!CreateOrder, P!ReplaceItems, PP!ReplaceItems, P!ItemsReplaceable,
         PP!ItemsReplaceable, P!CancelOrder, PP!CancelOrder, P!CloseOrder, PP!CloseOrder,
         P!EndOrder, PP!EndOrder, P!OpenReceipt, PP!OpenReceipt, P!CheckLine, PP!CheckLine,
         P!CheckCorrection, PP!CheckCorrection, P!Locked, PP!Locked, P!DispositionAllowed,
         PP!DispositionAllowed, P!CanReturn, PP!CanReturn, P!Returned, PP!Returned,
         P!OverReceipts, PP!OverReceipts, P!OnLines, PP!OnLines, P!Total, PP!Total, P!Writes,
         PP!Writes, P!GrowthReturnable, PP!GrowthReturnable, P!WriteLine, PP!WriteLine,
         P!RemoveLine, PP!RemoveLine, P!CancelReceipt, PP!CancelReceipt, P!CompleteReceipt,
         PP!CompleteReceipt, P!Posted, PP!Posted, P!ItemsAfter, PP!ItemsAfter, P!Excess,
         PP!Excess, P!StatusAfter, PP!StatusAfter
<1>3. P!ReceivingAssumption = PP!ReceivingAssumption
  BY DEF P!ReceivingAssumption, PP!ReceivingAssumption
<1>4. P!StockWasReceived = PP!StockWasReceived
  BY DEF P!StockWasReceived, PP!StockWasReceived, P!Receipt, PP!Receipt, P!Line, PP!Line,
         P!OverReceipts, PP!OverReceipts, P!OnLines, PP!OnLines, P!Total, PP!Total
<1>5. P!ItemsCountReceipts = PP!ItemsCountReceipts
  BY DEF P!ItemsCountReceipts, PP!ItemsCountReceipts, P!Receipt, PP!Receipt, P!Line, PP!Line,
         P!OverReceipts, PP!OverReceipts, P!OnLines, PP!OnLines, P!Total, PP!Total,
         P!CompletedFor, PP!CompletedFor, P!Disposition, PP!Disposition
<1>6. P!ExcessConfirmed = PP!ExcessConfirmed
  BY DEF P!ExcessConfirmed, PP!ExcessConfirmed
<1>7. P!OrderStatusFollows = PP!OrderStatusFollows
  BY DEF P!OrderStatusFollows, PP!OrderStatusFollows, P!CompletedFor, PP!CompletedFor, P!Receipt,
         PP!Receipt
<1>8. P!KeepsEnded = PP!KeepsEnded
  BY DEF P!KeepsEnded, PP!KeepsEnded, P!OrderEnded, PP!OrderEnded, P!Receipt, PP!Receipt
<1> QED
  BY <1>1, <1>2, <1>3, <1>4, <1>5, <1>6, <1>7, <1>8

\* The same of the part with returns.
LEMMA RSame ==
  /\ R!Init = RP!Init
  /\ R!Next = RP!Next
  /\ R!ReceivingAssumption = RP!ReceivingAssumption
  /\ R!StockWasReceived = RP!StockWasReceived
  /\ R!ItemsCountReceipts = RP!ItemsCountReceipts
  /\ R!ExcessConfirmed = RP!ExcessConfirmed
  /\ R!OrderStatusFollows = RP!OrderStatusFollows
  /\ R!KeepsEnded = RP!KeepsEnded
<1>1. R!Init = RP!Init
  BY DEF R!Init, RP!Init, R!Receipt, RP!Receipt, R!Line, RP!Line, R!NoItem, RP!NoItem,
         R!NoReceipt, RP!NoReceipt
<1>2. R!Next = RP!Next
  BY DEF R!Next, RP!Next, R!Receipt, RP!Receipt, R!Line, RP!Line, R!Items, RP!Items, R!Ordered,
         RP!Ordered, R!NoItem, RP!NoItem, R!NoReceipt, RP!NoReceipt, R!Quantity, RP!Quantity,
         R!Disposition, RP!Disposition, R!LineRow, RP!LineRow, R!Receivable, RP!Receivable,
         R!CreateOrder, RP!CreateOrder, R!ReplaceItems, RP!ReplaceItems, R!ItemsReplaceable,
         RP!ItemsReplaceable, R!CancelOrder, RP!CancelOrder, R!CloseOrder, RP!CloseOrder,
         R!EndOrder, RP!EndOrder, R!OpenReceipt, RP!OpenReceipt, R!CheckLine, RP!CheckLine,
         R!CheckCorrection, RP!CheckCorrection, R!Locked, RP!Locked, R!DispositionAllowed,
         RP!DispositionAllowed, R!CanReturn, RP!CanReturn, R!Returned, RP!Returned,
         R!OverReceipts, RP!OverReceipts, R!OnLines, RP!OnLines, R!Total, RP!Total, R!Writes,
         RP!Writes, R!GrowthReturnable, RP!GrowthReturnable, R!WriteLine, RP!WriteLine,
         R!RemoveLine, RP!RemoveLine, R!CancelReceipt, RP!CancelReceipt, R!CompleteReceipt,
         RP!CompleteReceipt, R!Posted, RP!Posted, R!ItemsAfter, RP!ItemsAfter, R!Excess,
         RP!Excess, R!StatusAfter, RP!StatusAfter
<1>3. R!ReceivingAssumption = RP!ReceivingAssumption
  BY DEF R!ReceivingAssumption, RP!ReceivingAssumption
<1>4. R!StockWasReceived = RP!StockWasReceived
  BY DEF R!StockWasReceived, RP!StockWasReceived, R!Receipt, RP!Receipt, R!Line, RP!Line,
         R!OverReceipts, RP!OverReceipts, R!OnLines, RP!OnLines, R!Total, RP!Total
<1>5. R!ItemsCountReceipts = RP!ItemsCountReceipts
  BY DEF R!ItemsCountReceipts, RP!ItemsCountReceipts, R!Receipt, RP!Receipt, R!Line, RP!Line,
         R!OverReceipts, RP!OverReceipts, R!OnLines, RP!OnLines, R!Total, RP!Total,
         R!CompletedFor, RP!CompletedFor, R!Disposition, RP!Disposition
<1>6. R!ExcessConfirmed = RP!ExcessConfirmed
  BY DEF R!ExcessConfirmed, RP!ExcessConfirmed
<1>7. R!OrderStatusFollows = RP!OrderStatusFollows
  BY DEF R!OrderStatusFollows, RP!OrderStatusFollows, R!CompletedFor, RP!CompletedFor, R!Receipt,
         RP!Receipt
<1>8. R!KeepsEnded = RP!KeepsEnded
  BY DEF R!KeepsEnded, RP!KeepsEnded, R!OrderEnded, RP!OrderEnded, R!Receipt, RP!Receipt
<1> QED
  BY <1>1, <1>2, <1>3, <1>4, <1>5, <1>6, <1>7, <1>8

\* The same of the part with one return.
LEMMA OneReturnSame ==
  /\ OneReturn!Init = OneReturnP!Init
  /\ OneReturn!Next = OneReturnP!Next
  /\ OneReturn!ReceivingAssumption = OneReturnP!ReceivingAssumption
  /\ OneReturn!StockWasReceived = OneReturnP!StockWasReceived
  /\ OneReturn!OneReturnWithinShipped = OneReturnP!OneReturnWithinShipped
<1>1. OneReturn!Init = OneReturnP!Init
  BY DEF OneReturn!Init, OneReturnP!Init, OneReturn!Receipt, OneReturnP!Receipt, OneReturn!Line,
         OneReturnP!Line, OneReturn!NoItem, OneReturnP!NoItem, OneReturn!NoReceipt,
         OneReturnP!NoReceipt
<1>2. OneReturn!Next = OneReturnP!Next
  BY DEF OneReturn!Next, OneReturnP!Next, OneReturn!Receipt, OneReturnP!Receipt, OneReturn!Line,
         OneReturnP!Line, OneReturn!Items, OneReturnP!Items, OneReturn!Ordered,
         OneReturnP!Ordered, OneReturn!NoItem, OneReturnP!NoItem, OneReturn!NoReceipt,
         OneReturnP!NoReceipt, OneReturn!Quantity, OneReturnP!Quantity, OneReturn!Disposition,
         OneReturnP!Disposition, OneReturn!LineRow, OneReturnP!LineRow, OneReturn!Receivable,
         OneReturnP!Receivable, OneReturn!CreateOrder, OneReturnP!CreateOrder,
         OneReturn!ReplaceItems, OneReturnP!ReplaceItems, OneReturn!ItemsReplaceable,
         OneReturnP!ItemsReplaceable, OneReturn!CancelOrder, OneReturnP!CancelOrder,
         OneReturn!CloseOrder, OneReturnP!CloseOrder, OneReturn!EndOrder, OneReturnP!EndOrder,
         OneReturn!OpenReceipt, OneReturnP!OpenReceipt, OneReturn!CheckLine, OneReturnP!CheckLine,
         OneReturn!CheckCorrection, OneReturnP!CheckCorrection, OneReturn!Locked,
         OneReturnP!Locked, OneReturn!DispositionAllowed, OneReturnP!DispositionAllowed,
         OneReturn!CanReturn, OneReturnP!CanReturn, OneReturn!Returned, OneReturnP!Returned,
         OneReturn!OverReceipts, OneReturnP!OverReceipts, OneReturn!OnLines, OneReturnP!OnLines,
         OneReturn!Total, OneReturnP!Total, OneReturn!Writes, OneReturnP!Writes,
         OneReturn!GrowthReturnable, OneReturnP!GrowthReturnable, OneReturn!WriteLine,
         OneReturnP!WriteLine, OneReturn!RemoveLine, OneReturnP!RemoveLine,
         OneReturn!CancelReceipt, OneReturnP!CancelReceipt, OneReturn!CompleteReceipt,
         OneReturnP!CompleteReceipt, OneReturn!Posted, OneReturnP!Posted, OneReturn!ItemsAfter,
         OneReturnP!ItemsAfter, OneReturn!Excess, OneReturnP!Excess, OneReturn!StatusAfter,
         OneReturnP!StatusAfter
<1>3. OneReturn!ReceivingAssumption = OneReturnP!ReceivingAssumption
  BY DEF OneReturn!ReceivingAssumption, OneReturnP!ReceivingAssumption
<1>4. OneReturn!StockWasReceived = OneReturnP!StockWasReceived
  BY DEF OneReturn!StockWasReceived, OneReturnP!StockWasReceived, OneReturn!Receipt,
         OneReturnP!Receipt, OneReturn!Line, OneReturnP!Line, OneReturn!OverReceipts,
         OneReturnP!OverReceipts, OneReturn!OnLines, OneReturnP!OnLines, OneReturn!Total,
         OneReturnP!Total
<1>5. OneReturn!OneReturnWithinShipped = OneReturnP!OneReturnWithinShipped
  BY DEF OneReturn!OneReturnWithinShipped, OneReturnP!OneReturnWithinShipped, OneReturn!Receipt,
         OneReturnP!Receipt, OneReturn!Line, OneReturnP!Line, OneReturn!OnLines,
         OneReturnP!OnLines, OneReturn!Total, OneReturnP!Total, OneReturn!Disposition,
         OneReturnP!Disposition
<1> QED
  BY <1>1, <1>2, <1>3, <1>4, <1>5

\* The types of the rows are the same, too.
LEMMA RowsSame ==
  /\ P!ReceivingTypeOK = PP!ReceivingTypeOK
  /\ R!ReceivingTypeOK = RP!ReceivingTypeOK
  /\ OneReturn!ReceivingTypeOK = OneReturnP!ReceivingTypeOK
<1>1. P!ReceivingTypeOK = PP!ReceivingTypeOK
  BY DEF P!ReceivingTypeOK, PP!ReceivingTypeOK, P!Receipt, PP!Receipt, P!Line, PP!Line, P!LineRow,
         PP!LineRow, P!Receivable, PP!Receivable, P!OrderEnded, PP!OrderEnded, P!Quantity,
         PP!Quantity, P!Disposition, PP!Disposition
<1>2. R!ReceivingTypeOK = RP!ReceivingTypeOK
  BY DEF R!ReceivingTypeOK, RP!ReceivingTypeOK, R!Receipt, RP!Receipt, R!Line, RP!Line, R!LineRow,
         RP!LineRow, R!Receivable, RP!Receivable, R!OrderEnded, RP!OrderEnded, R!Quantity,
         RP!Quantity, R!Disposition, RP!Disposition
<1>3. OneReturn!ReceivingTypeOK = OneReturnP!ReceivingTypeOK
  BY DEF OneReturn!ReceivingTypeOK, OneReturnP!ReceivingTypeOK, OneReturn!Receipt,
         OneReturnP!Receipt, OneReturn!Line, OneReturnP!Line, OneReturn!LineRow,
         OneReturnP!LineRow, OneReturn!Receivable, OneReturnP!Receivable, OneReturn!OrderEnded,
         OneReturnP!OrderEnded, OneReturn!Quantity, OneReturnP!Quantity, OneReturn!Disposition,
         OneReturnP!Disposition
<1> QED
  BY <1>1, <1>2, <1>3

Accounted ==
  /\ part = "purchases" => PP!ReceivingInv
  /\ part = "returns" => RP!ReceivingInv
  /\ part = "one return" => OneReturnP!ReceivingInv /\ OneReturnP!ReturnsFit

\* What ended stays so, in the parts with receipts.
ReceiptsStay ==
  /\ part = "purchases" => P!KeepsEnded
  /\ part = "returns" => R!KeepsEnded

\* Of the parts with receipts, each step keeps what the parts promise.
LEMMA ReceiptsPart == Spec => []Accounted /\ [][ReceiptsStay]_vars
<1>1. PP!ReceivingAssumption /\ RP!ReceivingAssumption /\ OneReturnP!ReceivingAssumption
  BY ReceivingAssumption, PSame, RSame, OneReturnSame
<1>2. Init => Accounted
  BY <1>1, PSame, RSame, OneReturnSame, PP!InitInv, RP!InitInv, OneReturnP!InitInv,
     OneReturnP!ReturnsInit DEF Init, ReceivingInit, Accounted
<1>3. Accounted /\ [Next]_vars => Accounted' /\ ReceiptsStay
  <2> SUFFICES ASSUME Accounted, [Next]_vars PROVE Accounted' /\ ReceiptsStay
    OBVIOUS
  <2>1. part' = part /\ (ReceivingNext \/ UNCHANGED receivingVars)
    BY DEF Next, vars
  <2>2. CASE part = "purchases"
    <3>1. [PP!Next]_(PP!vars)
      BY <2>1, <2>2, PSame DEF ReceivingNext, receivingVars, PP!vars
    <3>2. PP!ReceivingInv' /\ PP!KeepsEnded
      BY <1>1, <2>2, <3>1, PP!StepInv DEF Accounted
    <3> QED
      BY <2>1, <2>2, <3>2, PSame DEF Accounted, ReceiptsStay
  <2>3. CASE part = "returns"
    <3>1. [RP!Next]_(RP!vars)
      BY <2>1, <2>3, RSame DEF ReceivingNext, receivingVars, RP!vars
    <3>2. RP!ReceivingInv' /\ RP!KeepsEnded
      BY <1>1, <2>3, <3>1, RP!StepInv DEF Accounted
    <3> QED
      BY <2>1, <2>3, <3>2, RSame DEF Accounted, ReceiptsStay
  <2>4. CASE part = "one return"
    <3>1. [OneReturnP!Next]_(OneReturnP!vars)
      BY <2>1, <2>4, OneReturnSame DEF ReceivingNext, receivingVars, OneReturnP!vars
    <3>2. OneReturnP!ReceivingInv' /\ OneReturnP!ReturnsFit'
      BY <1>1, <2>4, <3>1, OneReturnP!StepInv, OneReturnP!ReturnStep DEF Accounted
    <3> QED
      BY <2>1, <2>4, <3>2 DEF Accounted, ReceiptsStay
  <2> QED
    BY <2>1, <2>2, <2>3, <2>4 DEF Accounted, ReceiptsStay
<1> QED
  BY <1>2, <1>3, PTL DEF Spec

\* The invariant gives the promises of receipts.
LEMMA AccountedGivesIt == Accounted => ReceiptsAccounted
BY PSame, RSame, OneReturnSame, OneReturnP!ReturnsFitGivesIt
   DEF Accounted, ReceiptsAccounted, PP!ReceivingInv, RP!ReceivingInv, OneReturnP!ReceivingInv

-----------------------------------------------------------------------------
(* Waves: what DocumentProofs shows, for the orders of the two parts.      *)

\* The instances of Waves and of its proofs say the same.
LEMMA TwoSame ==
  /\ Two!Init = PP!W!Init
  /\ Two!Next = PP!W!Next
  /\ Two!WavesAssumption = PP!W!WavesAssumption
  /\ Two!CompletedWaveSettled = PP!W!CompletedWaveSettled
  /\ Two!KeepsEnded = PP!W!KeepsEnded
<1>1. Two!Init = PP!W!Init
  BY DEF Two!Init, PP!W!Init, Two!Order, PP!W!Order
<1>2. Two!Next = PP!W!Next
  BY DEF Two!Next, PP!W!Next, Two!Order, PP!W!Order, Two!WaveStep, PP!W!WaveStep, Two!OrderStep,
         PP!W!OrderStep, Two!CheckOrders, PP!W!CheckOrders, Two!Free, PP!W!Free, Two!CreateWave,
         PP!W!CreateWave, Two!SplitPick, PP!W!SplitPick, Two!LockedOpen, PP!W!LockedOpen,
         Two!Remaining, PP!W!Remaining, Two!Needs, PP!W!Needs, Two!Take, PP!W!Take, Two!Least,
         PP!W!Least, Two!Greatest, PP!W!Greatest, Two!Total, PP!W!Total, Two!Waveable,
         PP!W!Waveable, Two!OrderEnded, PP!W!OrderEnded, Two!CommitPick, PP!W!CommitPick,
         Two!AbortPick, PP!W!AbortPick, Two!Editable, PP!W!Editable, Two!WithPicked,
         PP!W!WithPicked, Two!ReadWave, PP!W!ReadWave, Two!Decision, PP!W!Decision,
         Two!AbortCompletion, PP!W!AbortCompletion, Two!CompleteWave, PP!W!CompleteWave,
         Two!LeaveWave, PP!W!LeaveWave, Two!CompleteOrder, PP!W!CompleteOrder, Two!IsNext,
         PP!W!IsNext, Two!CanComplete, PP!W!CanComplete, Two!CancelWave, PP!W!CancelWave,
         Two!UpdateItem, PP!W!UpdateItem, Two!UpdateStatus, PP!W!UpdateStatus
<1>3. Two!WavesAssumption = PP!W!WavesAssumption
  BY DEF Two!WavesAssumption, PP!W!WavesAssumption
<1>4. Two!CompletedWaveSettled = PP!W!CompletedWaveSettled
  BY DEF Two!CompletedWaveSettled, PP!W!CompletedWaveSettled, Two!Order, PP!W!Order,
         Two!OrderEnded, PP!W!OrderEnded
<1>5. Two!KeepsEnded = PP!W!KeepsEnded
  BY DEF Two!KeepsEnded, PP!W!KeepsEnded, Two!Order, PP!W!Order, Two!OrderEnded, PP!W!OrderEnded
<1> QED
  BY <1>1, <1>2, <1>3, <1>4, <1>5

\* The same of the part with one wave.
LEMMA AloneSame ==
  /\ Alone!Init = OneReturnP!W!Init
  /\ Alone!WaveOnlyNext = OneReturnP!W!WaveOnlyNext
  /\ Alone!WavesAssumption = OneReturnP!W!WavesAssumption
  /\ Alone!CompletedWaveSettled = OneReturnP!W!CompletedWaveSettled
<1>1. Alone!Init = OneReturnP!W!Init
  BY DEF Alone!Init, OneReturnP!W!Init, Alone!Order, OneReturnP!W!Order
<1>2. Alone!WaveOnlyNext = OneReturnP!W!WaveOnlyNext
  BY DEF Alone!WaveOnlyNext, OneReturnP!W!WaveOnlyNext, Alone!Order, OneReturnP!W!Order,
         Alone!WaveStep, OneReturnP!W!WaveStep, Alone!CheckOrders, OneReturnP!W!CheckOrders,
         Alone!Free, OneReturnP!W!Free, Alone!CreateWave, OneReturnP!W!CreateWave,
         Alone!SplitPick, OneReturnP!W!SplitPick, Alone!LockedOpen, OneReturnP!W!LockedOpen,
         Alone!Remaining, OneReturnP!W!Remaining, Alone!Needs, OneReturnP!W!Needs, Alone!Take,
         OneReturnP!W!Take, Alone!Least, OneReturnP!W!Least, Alone!Greatest,
         OneReturnP!W!Greatest, Alone!Total, OneReturnP!W!Total, Alone!Waveable,
         OneReturnP!W!Waveable, Alone!OrderEnded, OneReturnP!W!OrderEnded, Alone!CommitPick,
         OneReturnP!W!CommitPick, Alone!AbortPick, OneReturnP!W!AbortPick, Alone!Editable,
         OneReturnP!W!Editable, Alone!WithPicked, OneReturnP!W!WithPicked, Alone!ReadWave,
         OneReturnP!W!ReadWave, Alone!Decision, OneReturnP!W!Decision, Alone!AbortCompletion,
         OneReturnP!W!AbortCompletion, Alone!CompleteWave, OneReturnP!W!CompleteWave,
         Alone!LeaveWave, OneReturnP!W!LeaveWave, Alone!CompleteOrder, OneReturnP!W!CompleteOrder,
         Alone!IsNext, OneReturnP!W!IsNext, Alone!CanComplete, OneReturnP!W!CanComplete,
         Alone!CancelWave, OneReturnP!W!CancelWave
<1>3. Alone!WavesAssumption = OneReturnP!W!WavesAssumption
  BY DEF Alone!WavesAssumption, OneReturnP!W!WavesAssumption
<1>4. Alone!CompletedWaveSettled = OneReturnP!W!CompletedWaveSettled
  BY DEF Alone!CompletedWaveSettled, OneReturnP!W!CompletedWaveSettled, Alone!Order,
         OneReturnP!W!Order, Alone!OrderEnded, OneReturnP!W!OrderEnded
<1> QED
  BY <1>1, <1>2, <1>3, <1>4

\* The types of the rows are the same, and what a pick adds.
LEMMA WaveRowsSame ==
  /\ Two!WavesTypeOK = PP!W!WavesTypeOK
  /\ Alone!WavesTypeOK = OneReturnP!W!WavesTypeOK
  /\ Alone!PickAdds = OneReturnP!W!PickAdds
<1>1. Two!WavesTypeOK = PP!W!WavesTypeOK
  BY DEF Two!WavesTypeOK, PP!W!WavesTypeOK, Two!Order, PP!W!Order, Two!Waveable, PP!W!Waveable,
         Two!OrderEnded, PP!W!OrderEnded
<1>2. Alone!WavesTypeOK = OneReturnP!W!WavesTypeOK
  BY DEF Alone!WavesTypeOK, OneReturnP!W!WavesTypeOK, Alone!Order, OneReturnP!W!Order,
         Alone!Waveable, OneReturnP!W!Waveable, Alone!OrderEnded, OneReturnP!W!OrderEnded
<1>3. Alone!PickAdds = OneReturnP!W!PickAdds
  BY DEF Alone!PickAdds, OneReturnP!W!PickAdds, Alone!Picked, OneReturnP!W!Picked, Alone!Order,
         OneReturnP!W!Order, Alone!Total, OneReturnP!W!Total
<1> QED
  BY <1>1, <1>2, <1>3

WavesPartInv ==
  /\ part = "waves" => PP!WavesInv
  /\ part = "wave alone" => OneReturnP!WavesInv

\* What ended stays so, in the part with waves beside others.
WavesStay == part = "waves" => Two!KeepsEnded

\* The invariant of waves, and that orders which ended stay so.
LEMMA WavesPart == Spec => []WavesPartInv /\ [][WavesStay]_vars
<1>1. PP!W!WavesAssumption /\ OneReturnP!W!WavesAssumption
  BY WavesAssumption, TwoSame, AloneSame
<1>2. Init => WavesPartInv
  BY <1>1, TwoSame, AloneSame, PP!WavesInit, OneReturnP!WavesInit DEF Init, WavesInit, WavesPartInv
<1>3. WavesPartInv /\ [Next]_vars => WavesPartInv' /\ WavesStay
  <2> SUFFICES ASSUME WavesPartInv, [Next]_vars PROVE WavesPartInv' /\ WavesStay
    OBVIOUS
  <2>1. part' = part /\ (WavesNext \/ UNCHANGED waveVars)
    BY DEF Next, vars
  <2>2. CASE part = "waves"
    <3>1. [PP!W!Next]_(PP!W!vars)
      BY <2>1, <2>2, TwoSame DEF WavesNext, waveVars, PP!W!vars
    <3>2. PP!WavesInv' /\ PP!W!KeepsEnded
      BY <1>1, <2>2, <3>1, PP!WavesStep DEF WavesPartInv
    <3> QED
      BY <2>1, <2>2, <3>2, TwoSame DEF WavesPartInv, WavesStay
  <2>3. CASE part = "wave alone"
    <3>1. [OneReturnP!W!Next]_(OneReturnP!W!vars)
      BY <2>1, <2>3, AloneSame
         DEF WavesNext, waveVars, OneReturnP!W!vars, OneReturnP!W!WaveOnlyNext, OneReturnP!W!Next
    <3>2. OneReturnP!WavesInv'
      BY <1>1, <2>3, <3>1, OneReturnP!WavesStep DEF WavesPartInv
    <3> QED
      BY <2>1, <2>3, <3>2 DEF WavesPartInv, WavesStay
  <2> QED
    BY <2>1, <2>2, <2>3 DEF WavesPartInv, WavesStay
<1> QED
  BY <1>2, <1>3, PTL DEF Spec

\* The invariant gives the promise of waves.
LEMMA WavesSettled ==
  WavesPartInv => /\ part = "waves" => Two!CompletedWaveSettled
                  /\ part = "wave alone" => Alone!CompletedWaveSettled
BY TwoSame, AloneSame DEF WavesPartInv, PP!WavesInv, OneReturnP!WavesInv

\* What the one wave promises: its picks add their units.
WaveGains == part = "wave alone" => OneReturnP!GainsAll
WaveAdds == part = "wave alone" => Alone!PickAdds

LEMMA GainsPart == Spec => [][WaveAdds]_vars
<1>1. OneReturnP!W!WavesAssumption
  BY WavesAssumption, AloneSame
<1>2. Init => WaveGains
  BY AloneSame, OneReturnP!GainsStart DEF Init, WavesInit, WaveGains
<1>3. WavesPartInv /\ WaveGains /\ [Next]_vars => WaveGains' /\ WaveAdds
  <2> SUFFICES ASSUME WavesPartInv, WaveGains, [Next]_vars, part = "wave alone"
               PROVE  OneReturnP!GainsAll' /\ Alone!PickAdds
    BY DEF Next, vars, WaveGains, WaveAdds
  <2>1. WavesNext \/ UNCHANGED waveVars
    BY DEF Next, vars
  <2>2. OneReturnP!W!WaveOnlyNext \/ UNCHANGED OneReturnP!W!vars
    BY <2>1, AloneSame DEF WavesNext, waveVars, OneReturnP!W!vars
  <2>3. OneReturnP!WavesInv /\ OneReturnP!GainsAll
    BY DEF WavesPartInv, WaveGains
  <2>4. \A v, w \in {LoneWave} : v = w
    OBVIOUS
  <2> QED
    BY <1>1, <2>2, <2>3, <2>4, OneReturnP!PicksAddUp, WaveRowsSame
<1>4. Spec => []WavesPartInv
  BY WavesPart, PTL
<1> QED
  BY <1>2, <1>3, <1>4, PTL DEF Spec

-----------------------------------------------------------------------------
(* Lots and transfers: the invariant of their proofs, of both parts.       *)

SwP == INSTANCE LotProofs WITH
         NumLots <- SomeLots, Strategy <- LotStrategy, NumWarehouses <- FewWarehouses,
         NumOrders <- Pickings, Expiries <- LotExpiries, NamedLots <- {0},
         MaxReceived <- MoreUnits, NumTransfers <- SomeTransfers,
         MaxTransferred <- MoreUnits, orders <- lotOrders

TP == INSTANCE LotProofs WITH
        NumLots <- SomeLots, Strategy <- LotStrategy, NumWarehouses <- SomeWarehouses,
        NumOrders <- Pickings, Expiries <- LotExpiries, NamedLots <- 0..SomeLots,
        MaxReceived <- SomeUnits, NumTransfers <- SomeTransfers,
        MaxTransferred <- SomeUnits, orders <- lotOrders

\* The instances of Transfers and of its proofs say the same of rows, ...
LEMMA SwRowsSame ==
  /\ \A e : Sw!LeavingOrder(e) = SwP!LeavingOrder(e)
  /\ \A s, z : Sw!Sorted(s, z) = SwP!Sorted(s, z)
  /\ \A x, l, z : Sw!Rows(x, l, z) = SwP!Rows(x, l, z)
  /\ \A z, q : Sw!Allocation(z, q) = SwP!Allocation(z, q)
  /\ \A w, q, l : Sw!LotsTaken(w, q, l) = SwP!LotsTaken(w, q, l)
  /\ \A o, q, l : Sw!LotsReturned(o, q, l) = SwP!LotsReturned(o, q, l)
  /\ \A c, q, l : Sw!Served(c, q, l) = SwP!Served(c, q, l)
  /\ \A x, y : /\ Sw!AddToLots(x, y) = SwP!AddToLots(x, y)
               /\ Sw!TakenFrom(x, y) = SwP!TakenFrom(x, y)
  /\ \A c, q : Sw!ReceivedLots(c, q) = SwP!ReceivedLots(c, q)
  /\ \A w : Sw!Available(w) = SwP!Available(w)
  /\ Sw!NoTransfer = SwP!NoTransfer
<1>1. \A e : Sw!LeavingOrder(e) = SwP!LeavingOrder(e)
  BY DEF Sw!LeavingOrder, SwP!LeavingOrder, Sw!Leaves, SwP!Leaves, Sw!ExpiresFirst,
         SwP!ExpiresFirst, Sw!Lot, SwP!Lot, Sw!NoExpiry, SwP!NoExpiry
<1>2. \A s, z : Sw!Sorted(s, z) = SwP!Sorted(s, z)
  BY DEF Sw!Sorted, SwP!Sorted, Sw!Cardinality, SwP!Cardinality
<1>3. \A x, l, z : Sw!Rows(x, l, z) = SwP!Rows(x, l, z)
  BY <1>2 DEF Sw!Rows, SwP!Rows, Sw!Lot, SwP!Lot, Sw!NoLot, SwP!NoLot
<1>4. \A z, q : Sw!Allocation(z, q) = SwP!Allocation(z, q)
  BY DEF Sw!Allocation, SwP!Allocation, Sw!Total, SwP!Total, Sw!Least, SwP!Least
<1>5. \A w, q, l : Sw!LotsTaken(w, q, l) = SwP!LotsTaken(w, q, l)
  BY <1>1, <1>3, <1>4 DEF Sw!LotsTaken, SwP!LotsTaken, Sw!TakeFromLots, SwP!TakeFromLots
<1>6. \A o, q, l : Sw!LotsReturned(o, q, l) = SwP!LotsReturned(o, q, l)
  BY <1>1, <1>3, <1>4 DEF Sw!LotsReturned, SwP!LotsReturned, Sw!ReturnPickedLots,
                          SwP!ReturnPickedLots, Sw!Reversed, SwP!Reversed, Sw!Lot, SwP!Lot
<1>7. \A c, q, l : Sw!Served(c, q, l) = SwP!Served(c, q, l)
  BY DEF Sw!Served, SwP!Served, Sw!Allocated, SwP!Allocated, Sw!Total, SwP!Total, Sw!NoLot,
         SwP!NoLot
<1>8. \A x, y : /\ Sw!AddToLots(x, y) = SwP!AddToLots(x, y)
                /\ Sw!TakenFrom(x, y) = SwP!TakenFrom(x, y)
  BY DEF Sw!AddToLots, SwP!AddToLots, Sw!TakenFrom, SwP!TakenFrom, Sw!UnitsOf, SwP!UnitsOf,
         Sw!Total, SwP!Total, Sw!Lot, SwP!Lot
<1>9. \A c, q : Sw!ReceivedLots(c, q) = SwP!ReceivedLots(c, q)
  BY <1>4 DEF Sw!ReceivedLots, SwP!ReceivedLots
<1>10. \A w : Sw!Available(w) = SwP!Available(w)
  BY DEF Sw!Available, SwP!Available
<1>11. Sw!NoTransfer = SwP!NoTransfer
  BY DEF Sw!NoTransfer, SwP!NoTransfer, Sw!NoWarehouse, SwP!NoWarehouse
<1> QED
  BY <1>1, <1>2, <1>3, <1>4, <1>5, <1>6, <1>7, <1>8, <1>9, <1>10, <1>11

\* ... of steps, ...
LEMMA SwStockSame == Sw!StockStep => SwP!StockStep
<1>1. \A w, q, l, e : Sw!IncreaseStock(w, q, l, e) <=> SwP!IncreaseStock(w, q, l, e)
  BY SwRowsSame DEF Sw!IncreaseStock, SwP!IncreaseStock, Sw!Receivable, SwP!Receivable,
                    Sw!Resolvable, SwP!Resolvable, Sw!Resolve, SwP!Resolve, Sw!Greatest,
                    SwP!Greatest, Sw!Moved, SwP!Moved, Sw!NoLot, SwP!NoLot, Sw!NoExpiry,
                    SwP!NoExpiry, Sw!Lot, SwP!Lot
<1>2. \A w, q, l : Sw!DecreaseStock(w, q, l) <=> SwP!DecreaseStock(w, q, l)
  BY SwRowsSame DEF Sw!DecreaseStock, SwP!DecreaseStock, Sw!Moved, SwP!Moved
<1>3. \A o, w, q : Sw!Reserve(o, w, q) <=> SwP!Reserve(o, w, q)
  BY SwRowsSame DEF Sw!Reserve, SwP!Reserve, Sw!NoOrder, SwP!NoOrder, Sw!NoWarehouse,
                    SwP!NoWarehouse, Sw!NoLotUnits, SwP!NoLotUnits, Sw!Lot, SwP!Lot
<1>4. \A o, q, l : Sw!Pick(o, q, l) <=> SwP!Pick(o, q, l)
  BY SwRowsSame DEF Sw!Pick, SwP!Pick, Sw!Open, SwP!Open
<1>5. \A o, q, l : Sw!Unpick(o, q, l) <=> SwP!Unpick(o, q, l)
  BY SwRowsSame DEF Sw!Unpick, SwP!Unpick, Sw!Open, SwP!Open
<1>6. \A o, q : (Sw!Ship(o, q) <=> SwP!Ship(o, q)) /\ (Sw!Release(o) <=> SwP!Release(o))
  BY SwRowsSame DEF Sw!Ship, SwP!Ship, Sw!Release, SwP!Release, Sw!End, SwP!End, Sw!Open,
                    SwP!Open, Sw!Greatest, SwP!Greatest, Sw!Moved, SwP!Moved, Sw!NoLot, SwP!NoLot
<1> QED
  BY <1>1, <1>2, <1>3, <1>4, <1>5, <1>6 DEF Sw!StockStep, SwP!StockStep, Sw!Warehouse,
                                            SwP!Warehouse, Sw!Order, SwP!Order, Sw!Units,
                                            SwP!Units, Sw!Lot, SwP!Lot, Sw!NoLot, SwP!NoLot

\* ... and of what they promise.
LEMMA SwSame ==
  /\ Sw!Init = SwP!Init
  /\ Sw!SwitchNext => SwP!SwitchNext
  /\ (Sw!LotsAssumption /\ Sw!LotStockAssumption /\ Sw!TransfersAssumption) => SwP!Given
  /\ Sw!UnitsConserved = SwP!UnitsConserved
  /\ Sw!LotsTraceableAcross = SwP!LotsTraceableAcross
<1>1. Sw!Init = SwP!Init
  BY DEF Sw!Init, SwP!Init, Sw!LotInit, SwP!LotInit, Sw!Lot, SwP!Lot, Sw!NoExpiry, SwP!NoExpiry,
         Sw!NoLotUnits, SwP!NoLotUnits, Sw!Warehouse, SwP!Warehouse, Sw!NoWarehouse,
         SwP!NoWarehouse, Sw!Order, SwP!Order, Sw!NoOrder, SwP!NoOrder, Sw!MovementType,
         SwP!MovementType, Sw!Transfer, SwP!Transfer, Sw!NoTransfer, SwP!NoTransfer
<1>2. Sw!SwitchNext => SwP!SwitchNext
  BY SwStockSame DEF Sw!SwitchNext, SwP!SwitchNext, Sw!Switch, SwP!Switch, Sw!CheckSwitch,
                     SwP!CheckSwitch, Sw!WriteSwitch, SwP!WriteSwitch, Sw!WithoutStock,
                     SwP!WithoutStock, Sw!Warehouse, SwP!Warehouse
<1>3. (Sw!LotsAssumption /\ Sw!LotStockAssumption /\ Sw!TransfersAssumption) => SwP!Given
  BY DEF SwP!Given, Sw!LotsAssumption, SwP!LotsAssumption, Sw!LotStockAssumption,
         SwP!LotStockAssumption, Sw!TransfersAssumption, SwP!TransfersAssumption, Sw!Lot, SwP!Lot,
         Sw!NoLot, SwP!NoLot, Sw!NoExpiry, SwP!NoExpiry
<1>4. Sw!UnitsConserved = SwP!UnitsConserved
  BY DEF Sw!UnitsConserved, SwP!UnitsConserved, Sw!Total, SwP!Total, Sw!Warehouse, SwP!Warehouse,
         Sw!Transfer, SwP!Transfer, Sw!UnitsOutside, SwP!UnitsOutside
<1>5. Sw!LotsTraceableAcross = SwP!LotsTraceableAcross
  BY DEF Sw!LotsTraceableAcross, SwP!LotsTraceableAcross, Sw!Lot, SwP!Lot, Sw!LotUnitsOnShelves,
         SwP!LotUnitsOnShelves, Sw!LotUnitsInOrders, SwP!LotUnitsInOrders, Sw!LotUnitsOutside,
         SwP!LotUnitsOutside, Sw!Total, SwP!Total, Sw!Warehouse, SwP!Warehouse, Sw!Order,
         SwP!Order, Sw!Transfer, SwP!Transfer, Sw!UnitsOf, SwP!UnitsOf, Sw!ReceivedLots,
         SwP!ReceivedLots, Sw!Allocation, SwP!Allocation, Sw!Least, SwP!Least
<1> QED
  BY <1>1, <1>2, <1>3, <1>4, <1>5

\* The same of the part with two warehouses, ...
LEMMA TRowsSame ==
  /\ \A e : T!LeavingOrder(e) = TP!LeavingOrder(e)
  /\ \A s, z : T!Sorted(s, z) = TP!Sorted(s, z)
  /\ \A x, l, z : T!Rows(x, l, z) = TP!Rows(x, l, z)
  /\ \A z, q : T!Allocation(z, q) = TP!Allocation(z, q)
  /\ \A w, q, l : T!LotsTaken(w, q, l) = TP!LotsTaken(w, q, l)
  /\ \A o, q, l : T!LotsReturned(o, q, l) = TP!LotsReturned(o, q, l)
  /\ \A c, q, l : T!Served(c, q, l) = TP!Served(c, q, l)
  /\ \A x, y : /\ T!AddToLots(x, y) = TP!AddToLots(x, y)
               /\ T!TakenFrom(x, y) = TP!TakenFrom(x, y)
  /\ \A c, q : T!ReceivedLots(c, q) = TP!ReceivedLots(c, q)
  /\ \A w : T!Available(w) = TP!Available(w)
  /\ T!NoTransfer = TP!NoTransfer
<1>1. \A e : T!LeavingOrder(e) = TP!LeavingOrder(e)
  BY DEF T!LeavingOrder, TP!LeavingOrder, T!Leaves, TP!Leaves, T!ExpiresFirst, TP!ExpiresFirst,
         T!Lot, TP!Lot, T!NoExpiry, TP!NoExpiry
<1>2. \A s, z : T!Sorted(s, z) = TP!Sorted(s, z)
  BY DEF T!Sorted, TP!Sorted, T!Cardinality, TP!Cardinality
<1>3. \A x, l, z : T!Rows(x, l, z) = TP!Rows(x, l, z)
  BY <1>2 DEF T!Rows, TP!Rows, T!Lot, TP!Lot, T!NoLot, TP!NoLot
<1>4. \A z, q : T!Allocation(z, q) = TP!Allocation(z, q)
  BY DEF T!Allocation, TP!Allocation, T!Total, TP!Total, T!Least, TP!Least
<1>5. \A w, q, l : T!LotsTaken(w, q, l) = TP!LotsTaken(w, q, l)
  BY <1>1, <1>3, <1>4 DEF T!LotsTaken, TP!LotsTaken, T!TakeFromLots, TP!TakeFromLots
<1>6. \A o, q, l : T!LotsReturned(o, q, l) = TP!LotsReturned(o, q, l)
  BY <1>1, <1>3, <1>4 DEF T!LotsReturned, TP!LotsReturned, T!ReturnPickedLots,
                          TP!ReturnPickedLots, T!Reversed, TP!Reversed, T!Lot, TP!Lot
<1>7. \A c, q, l : T!Served(c, q, l) = TP!Served(c, q, l)
  BY DEF T!Served, TP!Served, T!Allocated, TP!Allocated, T!Total, TP!Total, T!NoLot, TP!NoLot
<1>8. \A x, y : /\ T!AddToLots(x, y) = TP!AddToLots(x, y)
                /\ T!TakenFrom(x, y) = TP!TakenFrom(x, y)
  BY DEF T!AddToLots, TP!AddToLots, T!TakenFrom, TP!TakenFrom, T!UnitsOf, TP!UnitsOf, T!Total,
         TP!Total, T!Lot, TP!Lot
<1>9. \A c, q : T!ReceivedLots(c, q) = TP!ReceivedLots(c, q)
  BY <1>4 DEF T!ReceivedLots, TP!ReceivedLots
<1>10. \A w : T!Available(w) = TP!Available(w)
  BY DEF T!Available, TP!Available
<1>11. T!NoTransfer = TP!NoTransfer
  BY DEF T!NoTransfer, TP!NoTransfer, T!NoWarehouse, TP!NoWarehouse
<1> QED
  BY <1>1, <1>2, <1>3, <1>4, <1>5, <1>6, <1>7, <1>8, <1>9, <1>10, <1>11

\* ... of its steps ...
LEMMA TStockSame == T!StockStep => TP!StockStep
<1>1. \A w, q, l, e : T!IncreaseStock(w, q, l, e) <=> TP!IncreaseStock(w, q, l, e)
  BY TRowsSame DEF T!IncreaseStock, TP!IncreaseStock, T!Receivable, TP!Receivable, T!Resolvable,
                   TP!Resolvable, T!Resolve, TP!Resolve, T!Greatest, TP!Greatest, T!Moved,
                   TP!Moved, T!NoLot, TP!NoLot, T!NoExpiry, TP!NoExpiry, T!Lot, TP!Lot
<1>2. \A w, q, l : T!DecreaseStock(w, q, l) <=> TP!DecreaseStock(w, q, l)
  BY TRowsSame DEF T!DecreaseStock, TP!DecreaseStock, T!Moved, TP!Moved
<1>3. \A o, w, q : T!Reserve(o, w, q) <=> TP!Reserve(o, w, q)
  BY TRowsSame DEF T!Reserve, TP!Reserve, T!NoOrder, TP!NoOrder, T!NoWarehouse, TP!NoWarehouse,
                   T!NoLotUnits, TP!NoLotUnits, T!Lot, TP!Lot
<1>4. \A o, q, l : T!Pick(o, q, l) <=> TP!Pick(o, q, l)
  BY TRowsSame DEF T!Pick, TP!Pick, T!Open, TP!Open
<1>5. \A o, q, l : T!Unpick(o, q, l) <=> TP!Unpick(o, q, l)
  BY TRowsSame DEF T!Unpick, TP!Unpick, T!Open, TP!Open
<1>6. \A o, q : (T!Ship(o, q) <=> TP!Ship(o, q)) /\ (T!Release(o) <=> TP!Release(o))
  BY TRowsSame DEF T!Ship, TP!Ship, T!Release, TP!Release, T!End, TP!End, T!Open, TP!Open,
                   T!Greatest, TP!Greatest, T!Moved, TP!Moved, T!NoLot, TP!NoLot
<1> QED
  BY <1>1, <1>2, <1>3, <1>4, <1>5, <1>6 DEF T!StockStep, TP!StockStep, T!Warehouse, TP!Warehouse,
                                            T!Order, TP!Order, T!Units, TP!Units, T!Lot, TP!Lot,
                                            T!NoLot, TP!NoLot

\* ... between warehouses, ...
LEMMA TTransferSame == T!TransferStep => TP!TransferStep
<1>1. \A v, w, q, l : T!TransferDirect(v, w, q, l) <=> TP!TransferDirect(v, w, q, l)
  <2> TAKE v, w, q, l
  <2> DEFINE Between(lots) ==
               [stock EXCEPT ![v].onHand = @ - q, ![v].lots = lots, ![w].onHand = @ + q]
             Step(served, lots, entered, available) ==
               /\ v # w /\ moved["transfer_out"] + q <= SomeUnits /\ q <= available
               /\ served
               /\ stock' = [Between(lots) EXCEPT ![w].lots = entered]
               /\ moved' = [moved EXCEPT !["transfer_out"] = @ + q, !["transfer_in"] = @ + q]
               /\ UNCHANGED <<product, known, expires, lotOrders, lotUnits, transfers>>
             left == T!TakenFrom(stock[v].lots, T!LotsTaken(v, q, l))
             leftP == TP!TakenFrom(stock[v].lots, TP!LotsTaken(v, q, l))
  <2>1. T!TransferDirect(v, w, q, l) <=>
          Step(T!Served(T!LotsTaken(v, q, l), q, l), left,
               T!AddToLots(stock[w].lots, T!LotsTaken(v, q, l)), T!Available(v))
    BY Zenon DEF T!TransferDirect, T!CanLeave
  <2>2. TP!TransferDirect(v, w, q, l) <=>
          Step(TP!Served(TP!LotsTaken(v, q, l), q, l), leftP,
               TP!AddToLots(stock[w].lots, TP!LotsTaken(v, q, l)), TP!Available(v))
    BY Zenon DEF TP!TransferDirect, TP!CanLeave
  <2>3. left = leftP
    BY TRowsSame
  <2> HIDE DEF Step, Between, left, leftP
  <2> QED
    BY <2>1, <2>2, <2>3, TRowsSame
<1>2. \A t, v, w, q, l : T!Send(t, v, w, q, l) <=> TP!Send(t, v, w, q, l)
  <2> TAKE t, v, w, q, l
  <2> DEFINE Sent(row, taken) == [row EXCEPT !.from = v, !.to = w, !.quantity = q,
                                            !.allocations = taken, !.status = "in_transit"]
             Step(taken, served, lots, none, available) ==
               /\ transfers[t].status = "none" /\ v # w
               /\ moved["transfer_out"] + q <= SomeUnits /\ q <= available
               /\ served
               /\ stock' = [stock EXCEPT ![v].onHand = @ - q, ![v].lots = lots]
               /\ transfers' = [transfers EXCEPT ![t] = Sent(none, taken)]
               /\ moved' = [moved EXCEPT !["transfer_out"] = @ + q]
               /\ UNCHANGED <<product, known, expires, lotOrders, lotUnits>>
  <2>1. T!Send(t, v, w, q, l) <=>
          Step(T!LotsTaken(v, q, l), T!Served(T!LotsTaken(v, q, l), q, l),
               T!TakenFrom(stock[v].lots, T!LotsTaken(v, q, l)), T!NoTransfer, T!Available(v))
    BY Zenon DEF T!Send, T!CanLeave, T!Moved
  <2>2. TP!Send(t, v, w, q, l) <=>
          Step(TP!LotsTaken(v, q, l), TP!Served(TP!LotsTaken(v, q, l), q, l),
               TP!TakenFrom(stock[v].lots, TP!LotsTaken(v, q, l)), TP!NoTransfer, TP!Available(v))
    BY Zenon DEF TP!Send, TP!CanLeave, TP!Moved
  <2> HIDE DEF Step
  <2> QED
    BY <2>1, <2>2, TRowsSame
<1>3. \A t, q : T!Receive(t, q) <=> TP!Receive(t, q)
  BY TRowsSame DEF T!Receive, TP!Receive, T!InTransit, TP!InTransit, T!Moved, TP!Moved
<1> QED
  BY <1>1, <1>2, <1>3 DEF T!TransferStep, TP!TransferStep, T!Warehouse, TP!Warehouse, T!Transfer,
                          TP!Transfer, T!Units, TP!Units

\* ... and of what it promises.
LEMMA TSame ==
  /\ T!Init = TP!Init
  /\ T!Next => TP!Next
  /\ (T!LotsAssumption /\ T!LotStockAssumption /\ T!TransfersAssumption) => TP!Given
  /\ T!UnitsConserved = TP!UnitsConserved
  /\ T!LotsTraceableAcross = TP!LotsTraceableAcross
  /\ T!LotsOnShelves = TP!LotsOnShelves
  /\ T!OrdersHoldTheirLots = TP!OrdersHoldTheirLots
<1>1. T!Init = TP!Init
  BY DEF T!Init, TP!Init, T!LotInit, TP!LotInit, T!Lot, TP!Lot, T!NoExpiry, TP!NoExpiry,
         T!NoLotUnits, TP!NoLotUnits, T!Warehouse, TP!Warehouse, T!NoWarehouse, TP!NoWarehouse,
         T!Order, TP!Order, T!NoOrder, TP!NoOrder, T!MovementType, TP!MovementType, T!Transfer,
         TP!Transfer, T!NoTransfer, TP!NoTransfer
<1>2. T!Next => TP!Next
  BY TStockSame, TTransferSame DEF T!Next, TP!Next
<1>3. (T!LotsAssumption /\ T!LotStockAssumption /\ T!TransfersAssumption) => TP!Given
  BY DEF TP!Given, T!LotsAssumption, TP!LotsAssumption, T!LotStockAssumption,
         TP!LotStockAssumption, T!TransfersAssumption, TP!TransfersAssumption, T!Lot, TP!Lot,
         T!NoLot, TP!NoLot, T!NoExpiry, TP!NoExpiry
<1>4. T!UnitsConserved = TP!UnitsConserved
  BY DEF T!UnitsConserved, TP!UnitsConserved, T!Total, TP!Total, T!Warehouse, TP!Warehouse,
         T!Transfer, TP!Transfer, T!UnitsOutside, TP!UnitsOutside
<1>5. T!LotsTraceableAcross = TP!LotsTraceableAcross
  BY DEF T!LotsTraceableAcross, TP!LotsTraceableAcross, T!Lot, TP!Lot, T!LotUnitsOnShelves,
         TP!LotUnitsOnShelves, T!LotUnitsInOrders, TP!LotUnitsInOrders, T!LotUnitsOutside,
         TP!LotUnitsOutside, T!Total, TP!Total, T!Warehouse, TP!Warehouse, T!Order, TP!Order,
         T!Transfer, TP!Transfer, T!UnitsOf, TP!UnitsOf, T!ReceivedLots, TP!ReceivedLots,
         T!Allocation, TP!Allocation, T!Least, TP!Least
<1>6. T!LotsOnShelves = TP!LotsOnShelves
  BY DEF T!LotsOnShelves, TP!LotsOnShelves, T!Warehouse, TP!Warehouse, T!Total, TP!Total
<1>7. T!OrdersHoldTheirLots = TP!OrdersHoldTheirLots
  BY DEF T!OrdersHoldTheirLots, TP!OrdersHoldTheirLots, T!Order, TP!Order, T!Open, TP!Open,
         T!Total, TP!Total
<1> QED
  BY <1>1, <1>2, <1>3, <1>4, <1>5, <1>6, <1>7

\* The types of the rows are the same, and the order of lots.
LEMMA LotRowsSame ==
  /\ Sw!TransfersTypeOK = SwP!TransfersTypeOK
  /\ T!TransfersTypeOK = TP!TransfersTypeOK
  /\ Sw!LeavesInOrder = SwP!LeavesInOrder
  /\ Sw!KeepsEarliest = SwP!KeepsEarliest
<1>1. Sw!TransfersTypeOK = SwP!TransfersTypeOK
  BY DEF Sw!TransfersTypeOK, SwP!TransfersTypeOK, Sw!LotStockTypeOK, SwP!LotStockTypeOK,
         Sw!LotRow, SwP!LotRow, Sw!Lot, SwP!Lot, Sw!Warehouse, SwP!Warehouse, Sw!Order, SwP!Order,
         Sw!Units, SwP!Units, Sw!Transfer, SwP!Transfer, Sw!NoWarehouse, SwP!NoWarehouse,
         Sw!MovementType, SwP!MovementType
<1>2. T!TransfersTypeOK = TP!TransfersTypeOK
  BY DEF T!TransfersTypeOK, TP!TransfersTypeOK, T!LotStockTypeOK, TP!LotStockTypeOK, T!LotRow,
         TP!LotRow, T!Lot, TP!Lot, T!Warehouse, TP!Warehouse, T!Order, TP!Order, T!Units,
         TP!Units, T!Transfer, TP!Transfer, T!NoWarehouse, TP!NoWarehouse, T!MovementType,
         TP!MovementType
<1>3. \A a, b : Sw!Leaves(expires, a, b) = SwP!Leaves(expires, a, b)
  BY DEF Sw!Leaves, SwP!Leaves, Sw!ExpiresFirst, SwP!ExpiresFirst, Sw!NoExpiry, SwP!NoExpiry
<1>4. Sw!LeavesInOrder = SwP!LeavesInOrder /\ Sw!KeepsEarliest = SwP!KeepsEarliest
  BY <1>3 DEF Sw!LeavesInOrder, SwP!LeavesInOrder, Sw!KeepsEarliest, SwP!KeepsEarliest,
              Sw!Warehouse, SwP!Warehouse, Sw!Order, SwP!Order, Sw!Lot, SwP!Lot
<1> QED
  BY <1>1, <1>2, <1>4

\* Only while the tracking is settled do all units have lots.
LotsPartInv ==
  /\ part = "lots" => SwP!LotInv
  /\ part = "transfers" => TP!LotInv /\ TP!HoldsLots

\* The invariant of both parts.
LEMMA LotsPart == Spec => []LotsPartInv
<1>1. SwP!Given /\ TP!Given
  BY TransfersAssumption, SwSame, TSame
<1>2. Init => LotsPartInv
  <2> SUFFICES ASSUME Init PROVE LotsPartInv
    OBVIOUS
  <2>1. IF part = "lots" THEN SwP!Init ELSE TP!Init
    BY SwSame, TSame DEF Init, LotsInit
  <2>2. CASE part = "lots"
    BY <1>1, <2>1, <2>2, SwP!LotStart DEF LotsPartInv
  <2>3. CASE part # "lots"
    BY <1>1, <2>1, <2>3, TP!LotStart DEF LotsPartInv
  <2> QED
    BY <2>2, <2>3
<1>3. LotsPartInv /\ [Next]_vars => LotsPartInv'
  <2> SUFFICES ASSUME LotsPartInv, [Next]_vars PROVE LotsPartInv'
    OBVIOUS
  <2>1. part' = part /\ (LotsNext \/ UNCHANGED lotVars)
    BY DEF Next, vars
  <2>2. CASE part = "lots"
    <3>1. (SwP!SwitchNext /\ UNCHANGED transfers) \/ UNCHANGED SwP!vars
      BY <2>1, <2>2, SwSame DEF LotsNext, lotVars, SwP!vars, SwP!lotVars
    <3>2. SwP!LotInv'
      BY <1>1, <2>2, <3>1, SwP!SwitchingStep DEF LotsPartInv
    <3> QED
      BY <2>1, <2>2, <3>2 DEF LotsPartInv
  <2>3. CASE part = "transfers"
    <3>1. TP!Next \/ UNCHANGED TP!vars
      BY <2>1, <2>3, TSame DEF LotsNext, lotVars, TP!vars, TP!lotVars
    <3>2. TP!LotInv' /\ TP!HoldsLots'
      BY <1>1, <2>3, <3>1, TP!SettledStep DEF LotsPartInv
    <3> QED
      BY <2>1, <2>3, <3>2 DEF LotsPartInv
  <2> QED
    BY <2>1, <2>2, <2>3 DEF LotsPartInv
<1> QED
  BY <1>2, <1>3, PTL DEF Spec

\* It gives what the units of lots promise.
LEMMA LotsPartGivesIt == LotsPartInv => UnitsTraceable
BY SwSame, TSame DEF LotsPartInv, UnitsTraceable, SwP!LotInv, TP!LotInv, TP!HoldsLots

\* Lots leave and come back in order, while callers name none.
LotsOrdered == part = "lots" => Sw!LeavesInOrder /\ Sw!KeepsEarliest

LEMMA LotsOrder == Spec => [][LotsOrdered]_vars
<1>1. SwP!Given
  BY TransfersAssumption, SwSame
<1>2. LotsPartInv /\ [Next]_vars => LotsOrdered
  <2> SUFFICES ASSUME LotsPartInv, [Next]_vars, part = "lots"
               PROVE  Sw!LeavesInOrder /\ Sw!KeepsEarliest
    BY DEF LotsOrdered
  <2>1. LotsNext \/ UNCHANGED lotVars
    BY DEF Next, vars
  <2>2. SwP!SwitchNext \/ UNCHANGED <<stock, lotOrders>>
    BY <2>1, SwSame DEF LotsNext, lotVars
  <2>3. SwP!LotInv
    BY DEF LotsPartInv
  <2>4. SwP!LeavesInOrder /\ SwP!KeepsEarliest
    BY <1>1, <2>2, <2>3, SwP!LotsInOrder
  <2> QED
    BY <2>4, LotRowsSame
<1> QED
  BY <1>2, LotsPart, PTL DEF Spec

-----------------------------------------------------------------------------
(* What the run checks, for all values of the constants.                   *)

\* receipts.service.ts: what is on hand is what the completed receipts brought,
\* the items of a purchase order count it and its status follows, more than
\* was ordered arrives only if confirmed, and one return is within what was
\* shipped.
THEOREM ReceiptsAreAccounted == Spec => []ReceiptsAccounted
BY ReceiptsPart, AccountedGivesIt, PTL

\* lot-stock.ts and stock-transfers.service.ts: what is sent arrives once or is
\* known to be missing, and the units of each lot are known wherever they are,
\* also when the tracking is switched while units enter.
THEOREM UnitsAreTraceable == Spec => []UnitsTraceable
BY LotsPart, LotsPartGivesIt, PTL

\* putAway, by transactions of several lines and products at once: a location
\* takes at most its capacity once for each product.
THEOREM CapacityIsBounded == Spec => []CapacityBounded
<1>1. TreesInv => CapacityBounded
  <2> SUFFICES ASSUME CapacityInv, part = "locations", NEW l \in Places
               PROVE  L!Used(l) <= SomeProducts * Room
    BY DEF TreesInv, CapacityBounded, L!FilledOncePerProduct
  <2>1. SomeProducts \in Nat /\ Room \in Nat
    BY LocationsAssumption DEF L!LocationsAssumption
  <2>2. /\ InPlace(SomeProducts, l) \in Nat /\ Weights(Opened, SomeProducts, l) \in Nat
        /\ InPlace(SomeProducts, l) + Weights(Opened, SomeProducts, l) <= SomeProducts * Room
    BY <2>1, InPlaceTyped, WeightsTyped DEF CapacityInv
  <2>3. L!Used(l) = InPlace(SomeProducts, l) /\ SomeProducts * Room \in Nat
    BY <2>1, PlacesSums
  <2> QED
    BY <2>2, <2>3
<1> QED
  BY <1>1, TreesPart, PTL

\* locations.service.ts and planLocations: in a warehouse of no more locations
\* than MAX_DEPTH, no location is inside itself.
THEOREM NothingInsideItself ==
  ASSUME IsFiniteSet(MorePlaces), Cardinality(MorePlaces) <= Depth
  PROVE  Spec => []NeverInsideItself
<1>1. Init => TreesInv /\ TreesStand
  BY TreesInit
<1>2. TreesInv /\ TreesStand /\ [Next]_vars => (TreesInv /\ TreesStand)'
  BY TreesStep DEF DeepEnough
<1>3. TreesInv /\ TreesStand => NeverInsideItself
  BY DeepGives, TreeGives DEF TreesInv, TreesStand, NeverInsideItself, DeepEnough
<1> QED
  BY <1>1, <1>2, <1>3, PTL DEF Spec

\* stock-lock.ts: however many transactions run, those that lock in order never
\* wait for each other in a circle.
THEOREM LocksNeverDeadlock == Spec => []OrderedNeverDeadlock
<1>1. (part = "row locks" => HeldOfOwn) => OrderedNeverDeadlock
  BY LastWaitsForNone DEF OrderedNeverDeadlock
<1> QED
  BY <1>1, LocksPart, PTL

\* What is finished is finished whole: completed waves, shipped sales orders
\* and completed packings.
THEOREM FinishedIsWhole == Spec => []FinishedWhole
<1> DEFINE Progress == part = "sales progress" => ProgressInv
           Despatched == /\ part \in {"shipping", "shipping alone"} => ShippingInv
                         /\ part = "shipping alone" => ShippingAlone
<1>1. WavesPartInv /\ Progress /\ Despatched => FinishedWhole
  BY WavesSettled, ProgressInvGivesAll DEF FinishedWhole, ShippingInv
<1>2. Spec => []WavesPartInv /\ []Progress /\ []Despatched
  BY WavesPart, ProgressPart, ShippingPart, PTL
<1> HIDE DEF Progress, Despatched
<1> QED
  BY <1>1, <1>2, PTL

\* Late steps change nothing that has ended: purchase orders and receipts, the
\* orders of a wave, cancelled sales orders and delivered shipments.
THEOREM EndedStaysEnded == Spec => EndedIsFinal
<1>1. Spec => [][ReceiptsStay]_vars /\ [][WavesStay]_vars /\ [][CancelledStay]_vars
              /\ [][DeliveredStay]_vars
  BY ReceiptsPart, WavesPart, ProgressPart, ShippingPart, PTL
<1>2. [ReceiptsStay]_vars /\ [WavesStay]_vars /\ [CancelledStay]_vars /\ [DeliveredStay]_vars
        => [ /\ part = "purchases" => P!KeepsEnded
             /\ part = "returns" => R!KeepsEnded
             /\ part = "waves" => Two!KeepsEnded
             /\ part = "sales progress" => S!KeepsCancelled
             /\ part = "shipping alone" => D!KeepsReceiver ]_vars
  BY DEF ReceiptsStay, WavesStay, CancelledStay, DeliveredStay
<1> QED
  BY <1>1, <1>2, PTL DEF EndedIsFinal

\* schema.prisma and its migrations: the rows of every part have the types of
\* their tables, with their CHECK constraints (a picked unit is reserved and a
\* reserved one is on hand, an order has no more picked than asked) and their
\* foreign keys (the location inside which one is, the packing of a shipment).
THEOREM RowsAreTyped == Spec => []WarehouseTypeOK
<1> DEFINE Rest == /\ part = "counts" => CountsInv
                   /\ part = "row locks" => HeldOfOwn
                   /\ part = "sales progress" => ProgressInv
                   /\ part \in {"shipping", "shipping alone"} => ShippingRows
<1>1. Spec => []Rest
  BY CountsPart, LocksPart, ProgressPart, ShippingTyped, PTL
<1>2. Spec => []Accounted /\ []WavesPartInv /\ []LotsPartInv /\ []TreesInv
  BY ReceiptsPart, WavesPart, LotsPart, TreesPart, PTL
<1>3. Accounted /\ WavesPartInv /\ LotsPartInv /\ TreesInv /\ Rest
        => WarehouseTypeOK
  <2> SUFFICES ASSUME Accounted, WavesPartInv, LotsPartInv, TreesInv, Rest
               PROVE  WarehouseTypeOK
    OBVIOUS
  <2>1. /\ part = "purchases" => P!ReceivingTypeOK
        /\ part = "returns" => R!ReceivingTypeOK
        /\ part = "one return" => OneReturn!ReceivingTypeOK
    BY RowsSame, PP!RowsGiveTypes, RP!RowsGiveTypes, OneReturnP!RowsGiveTypes
       DEF Accounted, PP!ReceivingInv, RP!ReceivingInv, OneReturnP!ReceivingInv
  <2>2. /\ part = "waves" => Two!WavesTypeOK
        /\ part = "wave alone" => Alone!WavesTypeOK
    BY WaveRowsSame DEF WavesPartInv, PP!WavesInv, OneReturnP!WavesInv
  <2>3. /\ part = "lots" => Sw!TransfersTypeOK
        /\ part = "transfers" => T!TransfersTypeOK
    BY LotRowsSame, SwP!TypesGiveRows, TP!TypesGiveRows DEF LotsPartInv, SwP!LotInv, TP!LotInv
  <2>4. /\ part = "locations" => L!LocationsTypeOK
        /\ part = "deep locations" => Deep!LocationsTypeOK
        /\ part = "import of locations" => Tree!LocationsTypeOK
    BY LocationsAssumption, PlacesGive, DeepGives, TreeGives
       DEF TreesInv, CapacityInv, LocationsAssumption
  <2>5. /\ part = "counts" => C!CountsTypeOK /\ C!CountsKeepStock
        /\ part = "row locks" => K!LocksTypeOK
        /\ part = "sales progress" => S!ProgressTypeOK
        /\ part \in {"shipping", "shipping alone"} => D!ShippingTypeOK
    BY CountsGive, ProgressInvGivesAll DEF HeldOfOwn, ShippingRows
  <2> HIDE DEF Rest
  <2> QED
    BY Zenon, <2>1, <2>2, <2>3, <2>4, <2>5 DEF WarehouseTypeOK
<1> HIDE DEF Rest
<1> QED
  BY <1>1, <1>2, <1>3, PTL

\* A write does what was asked when it was checked: a wave pick spreads all its
\* units over the orders or none (waves.service.ts), lots leave and come back in
\* the order of the strategy (lot-stock.ts), an approved count makes right the
\* books of every place where nothing moved (cycle-counts.service.ts), only
\* empty locations are deleted (locations.service.ts), and an import writes the
\* tree of its file (planLocations).
THEOREM WritesDoAsAsked == Spec => WritesAsAsked
<1>1. Spec => [][WaveAdds]_vars /\ [][LotsOrdered]_vars /\ [][CountsRight]_vars /\ [][TreesRight]_vars
  BY GainsPart, LotsOrder, CountsPart, TreesWrite, PTL
<1>2. [WaveAdds]_vars /\ [LotsOrdered]_vars /\ [CountsRight]_vars /\ [TreesRight]_vars
        => [ /\ part = "wave alone" => Alone!PickAdds
             /\ part = "lots" => Sw!LeavesInOrder /\ Sw!KeepsEarliest
             /\ part = "counts" => C!Corrects
             /\ part = "deep locations" => Deep!DeletesEmpty
             /\ part = "import of locations" => Tree!ImportsAsAsked ]_vars
  BY Zenon DEF WaveAdds, LotsOrdered, CountsRight, TreesRight
<1> QED
  BY <1>1, <1>2, PTL DEF WritesAsAsked

=============================================================================

