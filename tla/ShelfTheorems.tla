----------------------------- MODULE ShelfTheorems -----------------------------
(*****************************************************************************)
(* What Total computes, for every length, and what the operators of Shelves  *)
(* do to the units of a product: they keep every location at zero or more,   *)
(* and they move as many units as asked.                                     *)
(*                                                                           *)
(* Each lemma about Total is an induction on the row number, carried out as  *)
(* a smallest counterexample: the set of row numbers where the claim fails   *)
(* is a subset of Nat, so if it is not empty it has a least element          *)
(* (NatMin), which is not 0 and whose predecessor satisfies the claim.       *)
(*****************************************************************************)
EXTENDS Shelves, WellFoundedInduction, TLAPS

\* A non-empty set of natural numbers has a least element.
LEMMA NatMin ==
  ASSUME NEW T, T \subseteq Nat, T # {}
  PROVE  \E n \in T : \A m \in T : n <= m
<1> DEFINE R == {ss \in Nat \X Nat : ss[1] < ss[2]}
<1>1. IsWellFoundedOn(R, Nat)
  BY NatLessThanWellFounded DEF OpToRel
<1>2. PICK n \in T : \A m \in T : <<m, n>> \notin R
  <2> HIDE DEF R
  <2> QED BY <1>1, WFMin
<1>3. \A m \in T : ~(m < n)
  BY <1>2
<1> QED BY <1>3

-----------------------------------------------------------------------------
(* What is computed step by step from a base. *)

IsComputed(h, X, base, step, n) ==
  h \in [0..n -> X] /\ h[0] = base /\ \A i \in 1..n : h[i] = step[<<h[i - 1], i>>]

\* A recursive function over 0..n is computed.
LEMMA ComputedExists ==
  ASSUME NEW n \in Nat, NEW X, NEW base \in X, NEW step \in [X \X (1..n) -> X]
  PROVE  \E h : IsComputed(h, X, base, step, n)
<1> DEFINE Bad == {m \in 0..n : ~ \E h : IsComputed(h, X, base, step, m)}
<1>1. SUFFICES ASSUME Bad # {} PROVE FALSE
  OBVIOUS
<1>2. PICK m \in Bad : \A k \in Bad : m <= k
  <2>1. Bad \subseteq Nat
    OBVIOUS
  <2> HIDE DEF Bad
  <2> QED
    BY <1>1, <2>1, NatMin
<1>3. m # 0
  <2>1. IsComputed([i \in 0..0 |-> base], X, base, step, 0)
    BY DEF IsComputed
  <2> QED
    BY <2>1, <1>2
<1>4. PICK h : IsComputed(h, X, base, step, m - 1)
  <2>1. m - 1 \in 0..n /\ m - 1 \notin Bad
    BY <1>2, <1>3
  <2> QED
    BY <2>1
<1> DEFINE g == [i \in 0..m |-> IF i = m THEN step[<<h[m - 1], m>>] ELSE h[i]]
<1>5. IsComputed(g, X, base, step, m)
  <2>1. m \in 1..n /\ m - 1 \in 0..(m - 1)
    BY <1>2, <1>3
  <2>2. h \in [0..(m - 1) -> X] /\ h[0] = base /\ \A i \in 1..(m - 1) : h[i] = step[<<h[i - 1], i>>]
    BY <1>4 DEF IsComputed
  <2>3. step[<<h[m - 1], m>>] \in X
    BY <2>1, <2>2
  <2>4. g \in [0..m -> X]
    BY <2>1, <2>2, <2>3
  <2>5. g[0] = base
    BY <2>1, <2>2
  <2>6. ASSUME NEW i \in 1..m
        PROVE  g[i] = step[<<g[i - 1], i>>]
    <3>1. i - 1 \in 0..(m - 1) /\ i - 1 \in 0..m /\ i \in 0..m
      BY <2>1
    <3>2. g[i - 1] = h[i - 1]
      BY <3>1
    <3>3. CASE i = m
      BY <3>1, <3>2, <3>3
    <3>4. CASE i # m
      BY <2>1, <2>2, <3>1, <3>2, <3>4
    <3> QED
      BY <3>3, <3>4
  <2> HIDE DEF g
  <2> QED
    BY <2>4, <2>5, <2>6 DEF IsComputed
<1> QED
  BY <1>2, <1>5

\* What a set of natural numbers up to n contains with each next one, it
\* contains up to n.
LEMMA UpTo ==
  ASSUME NEW n \in Nat, NEW T, 0 \in T, \A i \in 1..n : i - 1 \in T => i \in T
  PROVE  \A i \in 0..n : i \in T
<1> DEFINE Bad == {i \in 0..n : i \notin T}
<1>1. SUFFICES ASSUME Bad # {} PROVE FALSE
  OBVIOUS
<1>2. PICK m \in Bad : \A k \in Bad : m <= k
  <2>1. Bad \subseteq Nat
    OBVIOUS
  <2> HIDE DEF Bad
  <2> QED
    BY <1>1, <2>1, NatMin
<1>3. m # 0 /\ m - 1 \in 0..n /\ m - 1 \notin Bad
  BY <1>2
<1> QED
  BY <1>2, <1>3

-----------------------------------------------------------------------------
(* Sums *)

\* h holds the partial sums of f over 0..n.
IsPartialSum(h, f, n) ==
  /\ h \in [0..n -> Int]
  /\ h[0] = 0
  /\ \A i \in 1..n : h[i] = h[i - 1] + f[i]

\* Partial sums exist for every length.
LEMMA PartialSumExists ==
  ASSUME NEW n \in Nat, NEW f, \A i \in 1..n : f[i] \in Int
  PROVE  \E h : IsPartialSum(h, f, n)
<1> DEFINE Bad == {m \in 0..n : ~ \E h : IsPartialSum(h, f, m)}
<1>1. SUFFICES ASSUME Bad # {} PROVE FALSE
  OBVIOUS
<1>2. PICK m \in Bad : \A k \in Bad : m <= k
  <2>1. Bad \subseteq Nat
    OBVIOUS
  <2> HIDE DEF Bad
  <2> QED BY <1>1, <2>1, NatMin
<1>3. m # 0
  <2>1. IsPartialSum([i \in 0..0 |-> 0], f, 0)
    BY DEF IsPartialSum
  <2> QED BY <2>1, <1>2
<1>4. PICK h : IsPartialSum(h, f, m - 1)
  <2>1. m - 1 \in 0..n /\ m - 1 \notin Bad
    BY <1>2, <1>3
  <2> QED BY <2>1
<1> DEFINE g == [i \in 0..m |-> IF i = m THEN h[m - 1] + f[m] ELSE h[i]]
<1>5. IsPartialSum(g, f, m)
  <2>1. m \in 1..n
    BY <1>2, <1>3
  <2>2. h \in [0..(m - 1) -> Int] /\ h[0] = 0 /\ \A i \in 1..(m - 1) : h[i] = h[i - 1] + f[i]
    BY <1>4 DEF IsPartialSum
  <2>3. g \in [0..m -> Int]
    BY <2>1, <2>2
  <2>4. g[0] = 0
    BY <2>1, <2>2
  <2>5. \A i \in 1..m : g[i] = g[i - 1] + f[i]
    BY <2>1, <2>2
  <2> HIDE DEF g
  <2> QED BY <2>3, <2>4, <2>5 DEF IsPartialSum
<1> QED BY <1>2, <1>5

\* Total(f, n) is the last partial sum, whichever function holds them.
LEMMA TotalIsLast ==
  ASSUME NEW n \in Nat, NEW f, \A i \in 1..n : f[i] \in Int,
         NEW h, IsPartialSum(h, f, n)
  PROVE  Total(f, n) = h[n]
<1> DEFINE Body(g) == [i \in 0..n |-> IF i = 0 THEN 0 ELSE g[i - 1] + f[i]]
           partial == CHOOSE g : g = Body(g)
<1>1. h = Body(h)
  BY DEF IsPartialSum
<1>2. partial = Body(partial)
  <2> HIDE DEF Body
  <2> QED BY <1>1
<1> DEFINE Bad == {i \in 0..n : partial[i] # h[i]}
<1>3. ASSUME Bad # {} PROVE FALSE
  <2> HIDE DEF partial
  <2>1. PICK m \in Bad : \A k \in Bad : m <= k
    <3>1. Bad \subseteq Nat
      OBVIOUS
    <3> HIDE DEF Bad
    <3> QED BY <1>3, <3>1, NatMin
  <2>2. m # 0
    BY <1>2, <2>1 DEF IsPartialSum
  <2>3. m - 1 \in 0..n /\ m - 1 \notin Bad
    BY <2>1, <2>2
  <2>4. partial[m - 1] = h[m - 1]
    BY <2>3
  <2>5. partial[m] = partial[m - 1] + f[m]
    BY <1>2, <2>1, <2>2
  <2>6. h[m] = h[m - 1] + f[m]
    BY <2>1, <2>2 DEF IsPartialSum
  <2> QED BY <2>1, <2>4, <2>5, <2>6
<1>4. partial[n] = h[n]
  <2> HIDE DEF partial
  <2> QED BY <1>3
<1> QED BY <1>4 DEF Total

\* The same two facts together, in the form the lemmas below use.
LEMMA TotalPartial ==
  ASSUME NEW n \in Nat, NEW f, \A i \in 1..n : f[i] \in Int
  PROVE  \E h : IsPartialSum(h, f, n) /\ Total(f, n) = h[n]
BY PartialSumExists, TotalIsLast

\* The sum of integers is an integer.
LEMMA TotalInt ==
  ASSUME NEW n \in Nat, NEW f, \A i \in 1..n : f[i] \in Int
  PROVE  Total(f, n) \in Int
<1>1. PICK h : IsPartialSum(h, f, n) /\ Total(f, n) = h[n]
  BY TotalPartial
<1> QED BY <1>1 DEF IsPartialSum

\* The sum of no rows is 0.
LEMMA TotalZero ==
  ASSUME NEW f
  PROVE  Total(f, 0) = 0
<1>1. IsPartialSum([i \in 0..0 |-> 0], f, 0)
  BY DEF IsPartialSum
<1> QED BY <1>1, TotalIsLast

\* One more row adds its value.
LEMMA TotalStep ==
  ASSUME NEW n \in Nat \ {0}, NEW f, \A i \in 1..n : f[i] \in Int
  PROVE  Total(f, n) = Total(f, n - 1) + f[n]
<1>1. PICK h : IsPartialSum(h, f, n) /\ Total(f, n) = h[n]
  BY TotalPartial
<1> DEFINE g == [i \in 0..(n - 1) |-> h[i]]
<1>2. IsPartialSum(g, f, n - 1)
  BY <1>1 DEF IsPartialSum
<1>3. Total(f, n - 1) = g[n - 1]
  <2> HIDE DEF g
  <2> QED BY <1>2, TotalIsLast
<1>4. h[n] = h[n - 1] + f[n]
  BY <1>1 DEF IsPartialSum
<1> QED BY <1>1, <1>3, <1>4

\* Changing one row by d changes the sum by d.
LEMMA TotalUpdate ==
  ASSUME NEW n \in Nat, NEW f, NEW g, NEW k \in 1..n, NEW d \in Int,
         \A i \in 1..n : f[i] \in Int,
         \A i \in 1..n : g[i] = IF i = k THEN f[i] + d ELSE f[i]
  PROVE  Total(g, n) = Total(f, n) + d
<1>1. \A i \in 1..n : g[i] \in Int
  OBVIOUS
<1>2. PICK h : IsPartialSum(h, f, n) /\ Total(f, n) = h[n]
  BY TotalPartial
<1>3. PICK hh : IsPartialSum(hh, g, n) /\ Total(g, n) = hh[n]
  BY <1>1, TotalPartial
<1> DEFINE Bad == {i \in 0..n : hh[i] # h[i] + (IF i >= k THEN d ELSE 0)}
<1>4. ASSUME Bad # {} PROVE FALSE
  <2>1. PICK m \in Bad : \A j \in Bad : m <= j
    <3>1. Bad \subseteq Nat
      OBVIOUS
    <3> HIDE DEF Bad
    <3> QED BY <1>4, <3>1, NatMin
  <2>2. m # 0
    BY <1>2, <1>3, <2>1 DEF IsPartialSum
  <2>3. m - 1 \in 0..n /\ m - 1 \notin Bad
    BY <2>1, <2>2
  <2>4. hh[m - 1] = h[m - 1] + (IF m - 1 >= k THEN d ELSE 0)
    BY <2>3
  <2>5. hh[m] = hh[m - 1] + g[m] /\ h[m] = h[m - 1] + f[m]
    <3>1. m \in 1..n
      BY <2>1, <2>2
    <3> HIDE DEF Bad
    <3> QED BY <1>2, <1>3, <3>1 DEF IsPartialSum
  <2>6. h[m - 1] \in Int /\ f[m] \in Int /\ m \in 1..n
    BY <1>2, <2>1, <2>2, <2>3 DEF IsPartialSum
  <2>7. hh[m] # h[m] + (IF m >= k THEN d ELSE 0)
    BY <2>1
  <2>8. g[m] = IF m = k THEN f[m] + d ELSE f[m]
    BY <2>6
  <2> HIDE DEF Bad
  <2> QED BY <2>4, <2>5, <2>6, <2>7, <2>8
<1>5. hh[n] = h[n] + d
  <2>1. n \in 0..n /\ n \notin Bad
    BY <1>4
  <2> QED BY <2>1
<1> QED BY <1>2, <1>3, <1>5

\* Columns that agree row by row have the same sum.
LEMMA TotalSame ==
  ASSUME NEW n \in Nat, NEW f, NEW g,
         \A i \in 1..n : f[i] \in Int,
         \A i \in 1..n : g[i] = f[i]
  PROVE  Total(g, n) = Total(f, n)
<1>1. CASE n = 0
  BY <1>1, TotalZero
<1>2. CASE n # 0
  <2>1. Total(g, n) = Total(f, n) + 0
    <3>1. 1 \in 1..n /\ 0 \in Int
      BY <1>2
    <3>2. \A i \in 1..n : g[i] = IF i = 1 THEN f[i] + 0 ELSE f[i]
      OBVIOUS
    <3> QED BY <3>1, <3>2, TotalUpdate
  <2>2. Total(f, n) \in Int
    BY TotalInt
  <2> QED BY <2>1, <2>2
<1> QED BY <1>1, <1>2

\* A column of zeros adds to 0.
LEMMA TotalAllZero ==
  ASSUME NEW n \in Nat, NEW f, \A i \in 1..n : f[i] = 0
  PROVE  Total(f, n) = 0
<1> DEFINE h == [i \in 0..n |-> 0]
<1>1. IsPartialSum(h, f, n)
  BY DEF IsPartialSum
<1>2. \A i \in 1..n : f[i] \in Int
  OBVIOUS
<1>3. Total(f, n) = h[n]
  <2> HIDE DEF h
  <2> QED BY <1>1, <1>2, TotalIsLast
<1> QED BY <1>3

\* Where g is at most f in every row, the difference of the sums is at
\* least the difference in any one row.
LEMMA TotalDominates ==
  ASSUME NEW n \in Nat, NEW f, NEW g,
         \A i \in 1..n : f[i] \in Int /\ g[i] \in Int /\ g[i] <= f[i],
         NEW k \in 1..n
  PROVE  f[k] - g[k] <= Total(f, n) - Total(g, n)
<1>1. PICK h : IsPartialSum(h, f, n) /\ Total(f, n) = h[n]
  BY TotalPartial
<1>2. PICK hh : IsPartialSum(hh, g, n) /\ Total(g, n) = hh[n]
  BY TotalPartial
<1> DEFINE Bad == {i \in 0..n : ~ (IF i >= k THEN f[k] - g[k] ELSE 0) <= h[i] - hh[i]}
<1>3. ASSUME Bad # {} PROVE FALSE
  <2>1. PICK m \in Bad : \A j \in Bad : m <= j
    <3>1. Bad \subseteq Nat
      OBVIOUS
    <3> HIDE DEF Bad
    <3> QED BY <1>3, <3>1, NatMin
  <2>2. m # 0
    BY <1>1, <1>2, <2>1 DEF IsPartialSum
  <2>3. m - 1 \in 0..n /\ m - 1 \notin Bad
    BY <2>1, <2>2
  <2>4. (IF m - 1 >= k THEN f[k] - g[k] ELSE 0) <= h[m - 1] - hh[m - 1]
    BY <2>3
  <2>5. hh[m] = hh[m - 1] + g[m] /\ h[m] = h[m - 1] + f[m]
    <3>1. m \in 1..n
      BY <2>1, <2>2
    <3> HIDE DEF Bad
    <3> QED BY <1>1, <1>2, <3>1 DEF IsPartialSum
  <2>6. h[m - 1] \in Int /\ hh[m - 1] \in Int /\ m \in 1..n
    BY <1>1, <1>2, <2>1, <2>2, <2>3 DEF IsPartialSum
  <2>7. ~ (IF m >= k THEN f[k] - g[k] ELSE 0) <= h[m] - hh[m]
    BY <2>1
  <2>8. f[m] \in Int /\ g[m] \in Int /\ g[m] <= f[m] /\ f[k] \in Int /\ g[k] \in Int
    BY <2>6
  <2> HIDE DEF Bad
  <2> QED BY <2>4, <2>5, <2>6, <2>7, <2>8
<1>4. f[k] - g[k] <= h[n] - hh[n]
  <2>1. n \in 0..n /\ n \notin Bad
    BY <1>3
  <2> QED BY <2>1
<1> QED BY <1>1, <1>2, <1>4

\* A sum of naturals is a natural, and no row exceeds it.
LEMMA TotalNat ==
  ASSUME NEW n \in Nat, NEW f, \A i \in 1..n : f[i] \in Nat
  PROVE  Total(f, n) \in Nat /\ \A k \in 1..n : f[k] <= Total(f, n)
<1> DEFINE z == [i \in 1..n |-> 0]
<1>1. Total(z, n) = 0
  <2>1. \A i \in 1..n : z[i] = 0
    OBVIOUS
  <2> HIDE DEF z
  <2> QED BY <2>1, TotalAllZero
<1>2. \A i \in 1..n : z[i] = 0
  OBVIOUS
<1>3. Total(f, n) \in Int
  BY TotalInt
<1>4. \A k \in 1..n : f[k] <= Total(f, n)
  <2> HIDE DEF z
  <2> TAKE k \in 1..n
  <2>1. \A i \in 1..n : f[i] \in Int /\ z[i] \in Int /\ z[i] <= f[i]
    BY <1>2
  <2>2. f[k] - z[k] <= Total(f, n) - Total(z, n)
    BY <2>1, TotalDominates
  <2> QED BY <1>1, <1>2, <1>3, <2>2
<1>5. CASE n = 0
  BY <1>5, TotalZero
<1>6. CASE n # 0
  <2>1. f[1] <= Total(f, n) /\ f[1] \in Nat
    BY <1>4, <1>6
  <2> QED BY <1>3, <1>4, <2>1
<1> QED BY <1>4, <1>5, <1>6

\* Adding two columns row by row adds their sums.
LEMMA TotalPlus ==
  ASSUME NEW n \in Nat, NEW f, NEW g, NEW s,
         \A i \in 1..n : f[i] \in Int /\ g[i] \in Int /\ s[i] = f[i] + g[i]
  PROVE  Total(s, n) = Total(f, n) + Total(g, n)
<1>1. PICK h : IsPartialSum(h, f, n) /\ Total(f, n) = h[n]
  BY TotalPartial
<1>2. PICK hh : IsPartialSum(hh, g, n) /\ Total(g, n) = hh[n]
  BY TotalPartial
<1> DEFINE both == [i \in 0..n |-> h[i] + hh[i]]
<1>3. IsPartialSum(both, s, n)
  <2>1. both \in [0..n -> Int] /\ both[0] = 0
    BY <1>1, <1>2 DEF IsPartialSum
  <2>2. ASSUME NEW i \in 1..n
        PROVE  both[i] = both[i - 1] + s[i]
    <3>1. /\ h[i] = h[i - 1] + f[i] /\ hh[i] = hh[i - 1] + g[i] /\ s[i] = f[i] + g[i]
          /\ h[i - 1] \in Int /\ hh[i - 1] \in Int /\ f[i] \in Int /\ g[i] \in Int
          /\ i \in 0..n /\ i - 1 \in 0..n
      BY <1>1, <1>2 DEF IsPartialSum
    <3> QED
      BY <3>1
  <2> HIDE DEF both
  <2> QED
    BY <2>1, <2>2 DEF IsPartialSum
<1>4. \A i \in 1..n : s[i] \in Int
  OBVIOUS
<1>5. both[n] = h[n] + hh[n]
  OBVIOUS
<1> HIDE DEF both
<1> QED
  BY <1>1, <1>2, <1>3, <1>4, <1>5, TotalIsLast

\* Columns that differ in one row differ by that row.
LEMMA TotalOneRow ==
  ASSUME NEW n \in Nat, NEW f, NEW g, NEW k \in 1..n,
         \A i \in 1..n : f[i] \in Int /\ g[i] \in Int,
         \A i \in 1..n : i # k => g[i] = f[i]
  PROVE  Total(g, n) = Total(f, n) + (g[k] - f[k])
<1> DEFINE d == g[k] - f[k]
<1>1. d \in Int /\ \A i \in 1..n : f[i] \in Int
  OBVIOUS
<1>2. \A i \in 1..n : g[i] = IF i = k THEN f[i] + d ELSE f[i]
  OBVIOUS
<1> SUFFICES Total(g, n) = Total(f, n) + d
  OBVIOUS
<1> HIDE DEF d
<1> QED
  BY <1>1, <1>2, TotalUpdate

\* Naturals that are each at most m, and 0 in one row, add to at most m in
\* each of the others; if they are at most c as well, one m becomes c.
LEMMA TotalAtMost ==
  ASSUME NEW n \in Nat, NEW f, NEW m \in Nat, \A i \in 1..n : f[i] \in Nat /\ f[i] <= m,
         NEW k \in 1..n, f[k] = 0
  PROVE  /\ Total(f, n) <= (n - 1) * m
         /\ \A j \in 1..n : j # k /\ f[j] = 0 => Total(f, n) <= (n - 2) * m
         /\ \A c \in Nat :
              n >= 2 /\ (\A i \in 1..n : f[i] <= c) => Total(f, n) <= c + (n - 2) * m
<1> DEFINE all == [i \in 1..n |-> m]
           h == [i \in 0..n |-> i * m]
<1>1. Total(all, n) = n * m
  <2>1. IsPartialSum(h, all, n)
    <3>1. h \in [0..n -> Int] /\ h[0] = 0
      OBVIOUS
    <3>2. ASSUME NEW i \in 1..n
          PROVE  h[i] = h[i - 1] + all[i]
      <4>1. i * m = (i - 1) * m + m /\ i \in 0..n /\ i - 1 \in 0..n
        OBVIOUS
      <4> QED
        BY <4>1
    <3> HIDE DEF h, all
    <3> QED
      BY <3>1, <3>2 DEF IsPartialSum
  <2>2. \A i \in 1..n : all[i] \in Int
    OBVIOUS
  <2>3. h[n] = n * m
    OBVIOUS
  <2> HIDE DEF h, all
  <2> QED
    BY <2>1, <2>2, <2>3, TotalIsLast
<1>2. \A i \in 1..n : all[i] = m
  OBVIOUS
<1>3. n * m - m = (n - 1) * m /\ (n - 1) * m - m = (n - 2) * m
      /\ n * m \in Int /\ (n - 1) * m \in Int /\ (n - 2) * m \in Int
  OBVIOUS
<1>4. Total(f, n) \in Nat
  BY TotalNat
<1> HIDE DEF all, h
<1>5. Total(f, n) <= (n - 1) * m
  <2>1. all[k] - f[k] <= Total(all, n) - Total(f, n)
    BY <1>2, TotalDominates
  <2> QED
    BY <2>1, <1>1, <1>2, <1>3, <1>4
<1>6. ASSUME NEW g, NEW j \in 1..n, j # k, \A i \in 1..n : g[i] \in Nat /\ g[i] <= m,
             g[k] = 0, g[j] = 0
      PROVE  Total(g, n) <= (n - 2) * m
  <2> DEFINE but == [i \in 1..n |-> IF i = j THEN 0 ELSE m]
  <2>1. \A i \in 1..n : all[i] \in Int /\ but[i] \in Int
    BY <1>2
  <2>2. \A i \in 1..n : but[i] = IF i = j THEN 0 ELSE m
    OBVIOUS
  <2>3. \A i \in 1..n : i # j => but[i] = all[i]
    BY <1>2, <2>2
  <2> HIDE DEF but
  <2>7. Total(but, n) = Total(all, n) + (but[j] - all[j])
    BY <1>6, <2>1, <2>3, TotalOneRow
  <2>4. \A i \in 1..n : but[i] \in Int /\ g[i] \in Int /\ g[i] <= but[i]
    BY <1>6, <2>2
  <2>5. but[k] - g[k] <= Total(but, n) - Total(g, n)
    BY <2>4, TotalDominates
  <2>6. Total(g, n) \in Nat
    BY <1>6, TotalNat
  <2> QED
    BY <1>1, <1>2, <1>3, <1>6, <2>2, <2>5, <2>6, <2>7
<1>7. ASSUME NEW c \in Nat, n >= 2, \A i \in 1..n : f[i] <= c
      PROVE  Total(f, n) <= c + (n - 2) * m
  <2>1. PICK j \in 1..n : j # k
    <3>1. \E j \in {1, 2} : j # k
      OBVIOUS
    <3> QED
      BY <1>7, <3>1
  <2> DEFINE one == [i \in 1..n |-> IF i = j THEN c ELSE m]
  <2>2. \A i \in 1..n : one[i] = IF i = j THEN c ELSE m
    OBVIOUS
  <2> HIDE DEF one
  <2>3. \A i \in 1..n : all[i] \in Int /\ one[i] \in Int
    BY <1>2, <1>7, <2>2
  <2>4. \A i \in 1..n : i # j => one[i] = all[i]
    BY <1>2, <2>2
  <2>5. Total(one, n) = Total(all, n) + (one[j] - all[j])
    BY <2>1, <2>3, <2>4, TotalOneRow
  <2>6. \A i \in 1..n : one[i] \in Int /\ f[i] \in Int /\ f[i] <= one[i]
    BY <1>7, <2>2
  <2>7. one[k] - f[k] <= Total(one, n) - Total(f, n)
    BY <2>6, TotalDominates
  <2> QED
    BY <1>1, <1>2, <1>3, <1>4, <1>7, <2>1, <2>2, <2>5, <2>7
<1> QED
  BY <1>5, <1>6, <1>7

-----------------------------------------------------------------------------
(* The operators of Shelves. *)

\* Both ways to change a product's locations keep integer quantities.
LEMMA ShelvesTyped ==
  ASSUME NEW loc \in [Location -> Int], NEW q \in Int,
         NEW l \in Location \cup {NoLocation}
  PROVE  /\ PutAway(loc, l, q) \in [Location -> Int]
         /\ AllocateOutbound(loc, q, l) \in [Location -> Int]
<1>1. PutAway(loc, l, q) \in [Location -> Int]
  BY DEF PutAway
<1>2. AllocateOutbound(loc, q, l) \in [Location -> Int]
  <2>1. CASE l = NoLocation
    <3>1. ASSUME NEW k \in Location
          PROVE  TakenInSequence(loc, q)[k] \in Int
      <4>1. Total(loc, k - 1) \in Int
        <5>1. k - 1 \in Nat /\ \A i \in 1..(k - 1) : loc[i] \in Int
          BY <3>1, ShelvesAssumption DEF Location
        <5> QED BY <5>1, TotalInt
      <4> QED BY <3>1, <4>1 DEF TakenInSequence, Least, Greatest
    <3> QED BY <2>1, <3>1 DEF AllocateOutbound
  <2>2. CASE l # NoLocation
    BY <2>2 DEF AllocateOutbound, Taken
  <2> QED BY <2>1, <2>2
<1> QED BY <1>1, <1>2

\* The units in locations are a number.
LEMMA LocatedInt ==
  ASSUME NEW loc \in [Location -> Int]
  PROVE  LocatedQuantity(loc) \in Int
BY TotalInt, ShelvesAssumption DEF LocatedQuantity, Location

\* putAway stores the units in its location, or leaves them unlocated.
LEMMA PutAwayStores ==
  ASSUME NEW loc \in [Location -> Nat], NEW q \in Nat,
         NEW l \in Location \cup {NoLocation}
  PROVE  /\ PutAway(loc, l, q) \in [Location -> Nat]
         /\ LocatedQuantity(PutAway(loc, l, q))
              = LocatedQuantity(loc) + (IF l = NoLocation THEN 0 ELSE q)
<1>1. PutAway(loc, l, q) \in [Location -> Nat]
  BY DEF PutAway
<1>2. LocatedQuantity(loc) \in Int
  BY LocatedInt
<1>3. CASE l = NoLocation
  BY <1>1, <1>2, <1>3 DEF PutAway
<1>4. CASE l # NoLocation
  <2> DEFINE g == [loc EXCEPT ![l] = @ + q]
  <2>1. NumLocations \in Nat /\ l \in 1..NumLocations /\ q \in Int
    BY <1>4, ShelvesAssumption DEF Location
  <2>2. \A i \in 1..NumLocations : loc[i] \in Int
    BY DEF Location
  <2>3. \A i \in 1..NumLocations : g[i] = IF i = l THEN loc[i] + q ELSE loc[i]
    BY <1>4 DEF Location
  <2> HIDE DEF g
  <2>4. Total(g, NumLocations) = Total(loc, NumLocations) + q
    BY <2>1, <2>2, <2>3, TotalUpdate
  <2> QED BY <1>1, <1>4, <2>4 DEF LocatedQuantity, PutAway, g
<1> QED BY <1>3, <1>4

\* Taking units from a location that holds them.
LEMMA TakenLeaves ==
  ASSUME NEW loc \in [Location -> Nat], NEW q \in Nat,
         NEW l \in Location \cup {NoLocation},
         l # NoLocation => q <= loc[l]
  PROVE  /\ Taken(loc, q, l) \in [Location -> Nat]
         /\ LocatedQuantity(Taken(loc, q, l))
              = LocatedQuantity(loc) - (IF l = NoLocation THEN 0 ELSE q)
<1>1. LocatedQuantity(loc) \in Int
  BY LocatedInt
<1>2. CASE l = NoLocation
  BY <1>1, <1>2 DEF Taken
<1>3. CASE l # NoLocation
  <2> DEFINE g == [loc EXCEPT ![l] = @ - q]
  <2>1. g \in [Location -> Nat]
    BY <1>3
  <2>2. NumLocations \in Nat /\ l \in 1..NumLocations /\ -q \in Int
    BY <1>3, ShelvesAssumption DEF Location
  <2>3. \A i \in 1..NumLocations : loc[i] \in Int
    BY DEF Location
  <2>4. \A i \in 1..NumLocations : g[i] = IF i = l THEN loc[i] + (-q) ELSE loc[i]
    BY <1>3 DEF Location
  <2> HIDE DEF g
  <2>5. Total(g, NumLocations) = Total(loc, NumLocations) + (-q)
    BY <2>2, <2>3, <2>4, TotalUpdate
  <2> QED BY <1>1, <1>3, <2>1, <2>5 DEF LocatedQuantity, Taken, g
<1> QED BY <1>2, <1>3

\* Taking q units in pick sequence from the first n locations leaves what
\* they held beyond q: the loop of allocateOutbound takes neither more nor
\* less than it should, and never below zero.
LEMMA SequenceLeaves ==
  ASSUME NEW loc \in [Location -> Nat], NEW q \in Nat
  PROVE  LET left == [k \in Location |-> loc[k] - TakenInSequence(loc, q)[k]] IN
         /\ left \in [Location -> Nat]
         /\ \A n \in 0..NumLocations : Total(left, n) = Greatest(0, Total(loc, n) - q)
<1> DEFINE left == [k \in Location |-> loc[k] - TakenInSequence(loc, q)[k]]
<1>1. \A n \in 0..NumLocations : \A i \in 1..n : i \in Location /\ loc[i] \in Int
  BY ShelvesAssumption DEF Location
<1>2. \A n \in 0..NumLocations : n \in Nat /\ Total(loc, n) \in Int
  BY <1>1, TotalInt, ShelvesAssumption
<1>3. \A k \in Location : TakenInSequence(loc, q)[k] =
                            Least(loc[k], Greatest(0, q - Total(loc, k - 1)))
  BY DEF TakenInSequence
<1>4. \A k \in Location : k - 1 \in 0..NumLocations /\ k \in 1..NumLocations
  BY ShelvesAssumption DEF Location
<1>5. left \in [Location -> Nat]
  BY <1>2, <1>3, <1>4 DEF Least, Greatest
<1>6. \A n \in 0..NumLocations : Total(left, n) = Greatest(0, Total(loc, n) - q)
  <2> DEFINE Bad == {n \in 0..NumLocations : Total(left, n) # Greatest(0, Total(loc, n) - q)}
  <2>1. SUFFICES ASSUME Bad # {} PROVE FALSE
    OBVIOUS
  <2>2. PICK m \in Bad : \A n \in Bad : m <= n
    <3>1. Bad \subseteq Nat
      BY ShelvesAssumption
    <3> HIDE DEF Bad
    <3> QED BY <2>1, <3>1, NatMin
  <2>3. m # 0
    <3>1. Total(left, 0) = 0 /\ Total(loc, 0) = 0
      BY TotalZero
    <3> QED BY <3>1 DEF Greatest
  <2>4. m \in Nat \ {0} /\ m \in 1..NumLocations /\ m \in Location /\ m - 1 \in 0..NumLocations
    BY <2>3, ShelvesAssumption DEF Location
  <2>5. Total(left, m - 1) = Greatest(0, Total(loc, m - 1) - q)
    BY <2>2, <2>4
  <2>6. Total(loc, m) = Total(loc, m - 1) + loc[m]
    BY <1>1, <2>4, TotalStep
  <2>7. Total(left, m) = Total(left, m - 1) + left[m]
    <3>1. \A i \in 1..m : left[i] \in Int
      BY <1>1, <1>5, <2>4
    <3> HIDE DEF left
    <3> QED BY <2>4, <3>1, TotalStep
  <2>8. left[m] = loc[m] - Least(loc[m], Greatest(0, q - Total(loc, m - 1)))
    BY <1>3, <2>4
  <2>9. Total(loc, m - 1) \in Int /\ loc[m] \in Nat
    BY <1>2, <2>4
  <2>10. Total(left, m) = Greatest(0, Total(loc, m) - q)
    <3> HIDE DEF left, Bad
    <3> QED BY <2>5, <2>6, <2>7, <2>8, <2>9 DEF Least, Greatest
  <2> QED BY <2>10
<1> QED BY <1>5, <1>6

\* Units that allocateOutbound does not refuse exist, and afterwards the
\* locations still hold no more than what is on hand, not picked and not
\* allocated.
LEMMA AllocateLeaves ==
  ASSUME NEW loc \in [Location -> Nat], NEW q \in Nat,
         NEW l \in Location \cup {NoLocation},
         NEW onHand \in Int, NEW picked \in Int,
         LocatedQuantity(loc) <= onHand - picked,
         CanAllocate(onHand, picked, loc, q, l)
  PROVE  /\ AllocateOutbound(loc, q, l) \in [Location -> Nat]
         /\ LocatedQuantity(AllocateOutbound(loc, q, l)) <= onHand - picked - q
<1>1. LocatedQuantity(loc) \in Int
  BY LocatedInt
<1>2. CASE l = NoLocation
  <2> DEFINE left == [k \in Location |-> loc[k] - TakenInSequence(loc, q)[k]]
  <2>1. q <= onHand - picked
    BY <1>1, <1>2 DEF CanAllocate, UnlocatedQuantity
  <2>2. /\ left \in [Location -> Nat]
        /\ Total(left, NumLocations) = Greatest(0, LocatedQuantity(loc) - q)
    <3>1. /\ left \in [Location -> Nat]
          /\ \A n \in 0..NumLocations : Total(left, n) = Greatest(0, Total(loc, n) - q)
      BY SequenceLeaves
    <3>2. NumLocations \in 0..NumLocations
      BY ShelvesAssumption
    <3> HIDE DEF left
    <3> QED BY <3>1, <3>2 DEF LocatedQuantity
  <2> HIDE DEF left
  <2>3. AllocateOutbound(loc, q, l) = left
    BY <1>2 DEF AllocateOutbound, left
  <2>4. Greatest(0, LocatedQuantity(loc) - q) <= onHand - picked - q
    BY <1>1, <2>1 DEF Greatest
  <2> QED BY <2>2, <2>3, <2>4 DEF LocatedQuantity
<1>3. CASE l # NoLocation
  <2>1. q <= loc[l]
    BY <1>3 DEF CanAllocate, CanTake
  <2>2. /\ Taken(loc, q, l) \in [Location -> Nat]
        /\ LocatedQuantity(Taken(loc, q, l)) = LocatedQuantity(loc) - q
    BY <1>3, <2>1, TakenLeaves
  <2> QED BY <1>1, <1>3, <2>2 DEF AllocateOutbound
<1> QED BY <1>2, <1>3

=============================================================================
