----------------------------- MODULE LotProofs -----------------------------
(***************************************************************************)
(* No unit of a lot is lost or made: proofs about Lots, LotStock and       *)
(* Transfers, for any lots, warehouses, orders and transfers.              *)
(***************************************************************************)
EXTENDS Transfers, FiniteSetTheorems, FunctionTheorems, SequenceTheorems, TLAPS

\* Facts about sums (ShelfTheorems, whose own locations play no part here).
Sums == INSTANCE ShelfTheorems WITH NumLocations <- 0

-----------------------------------------------------------------------------
(* Sums *)

LEMMA SameTotal == \A n, f : Total(f, n) = Sums!Total(f, n)
BY Zenon DEF Total, Sums!Total

LEMMA SumZero == ASSUME NEW f PROVE Total(f, 0) = 0
BY SameTotal, Sums!TotalZero

LEMMA SumStep ==
  ASSUME NEW n \in Nat \ {0}, NEW f, \A i \in 1..n : f[i] \in Int
  PROVE  Total(f, n) = Total(f, n - 1) + f[n]
BY SameTotal, Sums!TotalStep

LEMMA SumInt ==
  ASSUME NEW n \in Nat, NEW f, \A i \in 1..n : f[i] \in Int
  PROVE  Total(f, n) \in Int
BY SameTotal, Sums!TotalInt

LEMMA SumNat ==
  ASSUME NEW n \in Nat, NEW f, \A i \in 1..n : f[i] \in Nat
  PROVE  Total(f, n) \in Nat /\ \A k \in 1..n : f[k] <= Total(f, n)
BY SameTotal, Sums!TotalNat

LEMMA SumSame ==
  ASSUME NEW n \in Nat, NEW f, NEW g, \A i \in 1..n : f[i] \in Int /\ g[i] = f[i]
  PROVE  Total(g, n) = Total(f, n)
BY SameTotal, Sums!TotalSame

LEMMA SumOfZeros ==
  ASSUME NEW n \in Nat, NEW f, \A i \in 1..n : f[i] = 0
  PROVE  Total(f, n) = 0
BY SameTotal, Sums!TotalAllZero

LEMMA SumOneRow ==
  ASSUME NEW n \in Nat, NEW f, NEW g, NEW k \in 1..n,
         \A i \in 1..n : f[i] \in Int /\ g[i] \in Int,
         \A i \in 1..n : i # k => g[i] = f[i]
  PROVE  Total(g, n) = Total(f, n) + (g[k] - f[k])
BY SameTotal, Sums!TotalOneRow

LEMMA SumPlus ==
  ASSUME NEW n \in Nat, NEW f, NEW g, NEW s,
         \A i \in 1..n : f[i] \in Int /\ g[i] \in Int /\ s[i] = f[i] + g[i]
  PROVE  Total(s, n) = Total(f, n) + Total(g, n)
BY SameTotal, Sums!TotalPlus

\* Sums of natural numbers grow with the rows.
LEMMA SumGrows ==
  ASSUME NEW n \in Nat, NEW f, \A i \in 1..n : f[i] \in Nat
  PROVE  \A j \in 0..n : \A i \in 0..j : Total(f, i) <= Total(f, j)
<1> DEFINE Bad == {j \in 0..n : \E i \in 0..j : ~(Total(f, i) <= Total(f, j))}
<1>1. ASSUME Bad # {} PROVE FALSE
  <2>1. PICK j \in Bad : \A k \in Bad : j <= k
    <3>1. Bad \subseteq Nat
      OBVIOUS
    <3> HIDE DEF Bad
    <3> QED
      BY <1>1, <3>1, Sums!NatMin
  <2>2. PICK i \in 0..j : ~(Total(f, i) <= Total(f, j))
    BY <2>1
  <2>3. \A k \in 0..n : Total(f, k) \in Nat
    <3> TAKE k \in 0..n
    <3>1. \A m \in 1..k : f[m] \in Nat
      OBVIOUS
    <3> QED
      BY <3>1, SumNat
  <2>4. j \in 0..n /\ i \in 0..n /\ i # j
    BY <2>1, <2>2, <2>3
  <2>5. j - 1 \in 0..n /\ j - 1 \notin Bad /\ i \in 0..(j - 1) /\ j \in Nat \ {0}
    BY <2>1, <2>2, <2>4
  <2>6. Total(f, i) <= Total(f, j - 1)
    BY <2>5
  <2>7. Total(f, j) = Total(f, j - 1) + f[j] /\ f[j] \in Nat
    <3>1. \A m \in 1..j : f[m] \in Int
      BY <2>4
    <3> QED
      BY <2>4, <2>5, <3>1, SumStep
  <2> HIDE DEF Bad
  <2> QED
    BY <2>2, <2>3, <2>4, <2>5, <2>6, <2>7
<1> QED
  BY <1>1

-----------------------------------------------------------------------------
(* The order lots leave in, and lots in an order *)

IsOrder(order) ==
  /\ \A a \in Lot : <<a, a>> \notin order
  /\ \A a, b \in Lot : a # b => <<a, b>> \in order \/ <<b, a>> \in order
  /\ \A a, b, c \in Lot : <<a, b>> \in order /\ <<b, c>> \in order => <<a, c>> \in order

\* Every strategy puts the lots in an order, and so does what is picked last.
LEMMA LeavingIsOrder ==
  ASSUME LotsAssumption, NEW dates \in [Lot -> Nat]
  PROVE  IsOrder(LeavingOrder(dates)) /\ IsOrder(Reversed(LeavingOrder(dates)))
<1>1. \A a, b \in Lot : <<a, b>> \in LeavingOrder(dates) <=> Leaves(dates, a, b)
  BY DEF LeavingOrder
<1>2. \A a, b \in Lot : <<a, b>> \in Reversed(LeavingOrder(dates)) <=> Leaves(dates, b, a)
  BY <1>1 DEF Reversed
<1>3. Lot \subseteq Nat /\ \A a \in Lot : dates[a] \in Nat
  BY DEF Lot
<1>4. \/ \A a, b \in Lot : Leaves(dates, a, b) <=> ExpiresFirst(dates, a, b)
      \/ \A a, b \in Lot : Leaves(dates, a, b) <=> a < b
      \/ \A a, b \in Lot : Leaves(dates, a, b) <=> b < a
  BY LotsAssumption DEF LotsAssumption, Leaves
<1>5. \A a, b \in Lot : ExpiresFirst(dates, a, b) <=>
        \/ dates[a] # 0 /\ dates[b] = 0
        \/ dates[a] # 0 /\ dates[a] < dates[b]
        \/ dates[a] = dates[b] /\ a < b
  BY DEF ExpiresFirst, NoExpiry
<1>6. /\ \A a \in Lot : ~Leaves(dates, a, a)
      /\ \A a, b \in Lot : a # b => Leaves(dates, a, b) \/ Leaves(dates, b, a)
      /\ \A a, b, c \in Lot :
           Leaves(dates, a, b) /\ Leaves(dates, b, c) => Leaves(dates, a, c)
  BY <1>3, <1>4, <1>5
<1> QED
  BY <1>1, <1>2, <1>6 DEF IsOrder

LEMMA LotIsFinite ==
  ASSUME LotsAssumption
  PROVE  /\ NumLots \in Nat /\ Lot = 1..NumLots
         /\ \A S \in SUBSET Lot : IsFiniteSet(S) /\ Cardinality(S) \in 0..NumLots
<1>1. NumLots \in Nat /\ Lot = 1..NumLots /\ 1 \in Int /\ NumLots \in Int
  BY DEF LotsAssumption, Lot
<1>2. IsFiniteSet(Lot) /\ Cardinality(Lot) = NumLots
  BY <1>1, FS_Interval
<1>3. ASSUME NEW S \in SUBSET Lot PROVE IsFiniteSet(S) /\ Cardinality(S) \in 0..NumLots
  <2>1. IsFiniteSet(S) /\ Cardinality(S) <= NumLots
    BY <1>2, FS_Subset
  <2> QED
    BY <1>1, <2>1, FS_CardinalityType
<1> QED
  BY <1>1, <1>3

\* One of some lots leaves after all the others.
LEMMA LastLot ==
  ASSUME LotsAssumption, NEW order, IsOrder(order), NEW S \in SUBSET Lot, S # {}
  PROVE  \E m \in S : \A k \in S \ {m} : <<k, m>> \in order
<1> DEFINE HasLast(T) == \E m \in T : \A k \in T \ {m} : <<k, m>> \in order
           Bad == {n \in 0..NumLots : \E T \in SUBSET (1..n) : T # {} /\ ~HasLast(T)}
<1> HIDE DEF HasLast
<1>1. NumLots \in Nat /\ Lot = 1..NumLots
  BY LotIsFinite
<1>2. ASSUME Bad # {} PROVE FALSE
  <2>1. PICK n \in Bad : \A k \in Bad : n <= k
    <3>1. Bad \subseteq Nat
      OBVIOUS
    <3> HIDE DEF Bad
    <3> QED
      BY <1>2, <3>1, Sums!NatMin
  <2>2. PICK T \in SUBSET (1..n) : T # {} /\ ~HasLast(T)
    BY <2>1
  <2>3. n \in 0..NumLots /\ n # 0
    <3>1. PICK k \in T : k \in 1..n
      BY <2>2
    <3> QED
      BY <1>1, <2>1, <3>1
  <2>4. n - 1 \in 0..NumLots /\ n - 1 \notin Bad /\ T \ {n} \in SUBSET (1..(n - 1))
        /\ T \subseteq Lot
    <3>1. n - 1 \in 0..NumLots /\ ~(n <= n - 1)
      BY <1>1, <2>3
    <3>2. n - 1 \notin Bad
      BY <2>1, <3>1
    <3>3. \A k \in T : k \in 1..NumLots /\ (k # n => k \in 1..(n - 1))
      BY <1>1, <2>2, <2>3
    <3> HIDE DEF Bad
    <3> QED
      BY <1>1, <3>1, <3>2, <3>3
  <2>5. T \ {n} # {} => HasLast(T \ {n})
    BY <1>1, <2>4
  <2>6. n \in T
    <3>1. ASSUME n \notin T PROVE FALSE
      <4>1. T \ {n} = T
        BY <3>1
      <4> QED
        BY <2>2, <2>5, <4>1
    <3> QED
      BY <3>1
  <2>7. T \ {n} # {}
    <3>1. ASSUME T \ {n} = {} PROVE FALSE
      <4>1. \A k \in T \ {n} : <<k, n>> \in order
        BY <3>1
      <4> QED
        BY <2>2, <2>6, <4>1 DEF HasLast
    <3> QED
      BY <3>1
  <2>8. PICK m \in T \ {n} : \A k \in (T \ {n}) \ {m} : <<k, m>> \in order
    BY <2>5, <2>7 DEF HasLast
  <2>9. m \in Lot /\ n \in Lot /\ m # n
    BY <2>4, <2>6
  <2>10. ASSUME <<m, n>> \in order PROVE FALSE
    <3>1. \A k \in T \ {n} : <<k, n>> \in order
      BY <2>4, <2>8, <2>9, <2>10 DEF IsOrder
    <3> QED
      BY <2>2, <2>6, <3>1 DEF HasLast
  <2>11. ASSUME <<n, m>> \in order PROVE FALSE
    <3>1. \A k \in T \ {m} : <<k, m>> \in order
      BY <2>8, <2>11
    <3> QED
      BY <2>2, <2>8, <3>1 DEF HasLast
  <2> QED
    BY <2>9, <2>10, <2>11 DEF IsOrder
<1>3. HasLast(S)
  <2>1. NumLots \in 0..NumLots /\ S \in SUBSET (1..NumLots)
    BY <1>1
  <2> QED
    BY <1>2, <2>1
<1> QED
  BY <1>3 DEF HasLast

IsSorted(s, S, order) ==
  /\ s \in [1..Cardinality(S) -> S]
  /\ \A i, j \in 1..Cardinality(S) : i < j => <<s[i], s[j]>> \in order

\* So any lots can be put in order.
LEMMA SortedExists ==
  ASSUME LotsAssumption, NEW order, IsOrder(order), NEW S \in SUBSET Lot
  PROVE  IsSorted(Sorted(S, order), S, order)
<1> DEFINE Bad == {n \in 0..NumLots :
                     \E T \in SUBSET Lot : Cardinality(T) = n /\ ~\E s : IsSorted(s, T, order)}
<1>1. ASSUME Bad # {} PROVE FALSE
  <2>1. PICK n \in Bad : \A k \in Bad : n <= k
    <3>1. Bad \subseteq Nat
      OBVIOUS
    <3> HIDE DEF Bad
    <3> QED
      BY <1>1, <3>1, Sums!NatMin
  <2>2. PICK T \in SUBSET Lot : Cardinality(T) = n /\ ~\E s : IsSorted(s, T, order)
    BY <2>1
  <2>3. n \in 0..NumLots /\ NumLots \in Nat /\ IsFiniteSet(T)
    BY <2>1, <2>2, LotIsFinite
  <2>4. n # 0
    <3>1. ASSUME n = 0 PROVE FALSE
      <4>1. IsSorted([i \in 1..0 |-> i], T, order)
        BY <2>2, <3>1 DEF IsSorted
      <4> QED
        BY <2>2, <4>1
    <3> QED
      BY <3>1
  <2>5. T # {}
    BY <2>2, <2>4, FS_EmptySet
  <2>6. PICK m \in T : \A k \in T \ {m} : <<k, m>> \in order
    BY <2>5, LastLot
  <2>7. Cardinality(T \ {m}) = n - 1 /\ T \ {m} \in SUBSET Lot
    BY <2>2, <2>3, FS_RemoveElement
  <2>8. n - 1 \in 0..NumLots /\ n - 1 \notin Bad
    BY <2>1, <2>3, <2>4
  <2>9. PICK s : IsSorted(s, T \ {m}, order)
    BY <2>7, <2>8
  <2> DEFINE longer == [i \in 1..n |-> IF i = n THEN m ELSE s[i]]
  <2>10. /\ \A i \in 1..(n - 1) : s[i] \in T \ {m}
         /\ \A i, j \in 1..(n - 1) : i < j => <<s[i], s[j]>> \in order
    BY <2>7, <2>9 DEF IsSorted
  <2>11. \A i \in 1..n : longer[i] = IF i = n THEN m ELSE s[i]
    OBVIOUS
  <2>12. \A i \in 1..n : i = n \/ i \in 1..(n - 1)
    BY <2>3
  <2>13. longer \in [1..n -> T]
    BY <2>10, <2>12
  <2> HIDE DEF longer
  <2>14. \A i, j \in 1..n : i < j => <<longer[i], longer[j]>> \in order
    <3> TAKE i, j \in 1..n
    <3> HAVE i < j
    <3>1. i \in 1..(n - 1) /\ longer[i] = s[i]
      BY <2>3, <2>11
    <3>2. ASSUME j = n PROVE <<longer[i], longer[j]>> \in order
      BY <2>6, <2>10, <2>11, <3>1, <3>2
    <3>3. ASSUME j # n PROVE <<longer[i], longer[j]>> \in order
      BY <2>10, <2>11, <2>12, <3>1, <3>3
    <3> QED
      BY <3>2, <3>3
  <2>15. IsSorted(longer, T, order)
    BY <2>2, <2>13, <2>14 DEF IsSorted
  <2> QED
    BY <2>2, <2>15
<1>2. \E s : IsSorted(s, S, order)
  <2>1. Cardinality(S) \in 0..NumLots
    BY LotIsFinite
  <2> QED
    BY <1>1, <2>1
<1> HIDE DEF Bad
<1> QED
  BY <1>2 DEF IsSorted, Sorted

\* Rows of different lots, with units, in this order.
LotRows == Seq([lot : Lot, quantity : Nat \ {0}])

IsRows(rows, lots, l, order) ==
  /\ rows \in LotRows
  /\ \A i \in 1..Len(rows) : rows[i].quantity = lots[rows[i].lot] /\ (l = NoLot \/ rows[i].lot = l)
  /\ \A i, j \in 1..Len(rows) : i < j => <<rows[i].lot, rows[j].lot>> \in order
  /\ \A i, j \in 1..Len(rows) : rows[i].lot = rows[j].lot => i = j
  /\ \A k \in Lot : lots[k] > 0 /\ (l = NoLot \/ k = l) => \E i \in 1..Len(rows) : rows[i].lot = k

LEMMA RowsAreOfLots ==
  ASSUME LotsAssumption, NEW order, IsOrder(order), NEW lots \in [Lot -> Nat], NEW l
  PROVE  IsRows(Rows(lots, l, order), lots, l, order)
<1> DEFINE S == {k \in Lot : lots[k] > 0 /\ (l = NoLot \/ l = k)}
           s == Sorted(S, order)
           n == Cardinality(S)
           rows == [i \in DOMAIN s |-> [lot |-> s[i], quantity |-> lots[s[i]]]]
<1>1. Rows(lots, l, order) = rows
  BY DEF Rows
<1>2. IsFiniteSet(S) /\ n \in Nat
  BY LotIsFinite
<1>3. s \in [1..n -> S] /\ \A i, j \in 1..n : i < j => <<s[i], s[j]>> \in order
  <2>1. S \in SUBSET Lot
    OBVIOUS
  <2> HIDE DEF S
  <2> QED
    BY <2>1, SortedExists DEF IsSorted
<1>4. \A k \in S : k \in Lot /\ lots[k] \in Nat /\ lots[k] > 0 /\ (l = NoLot \/ k = l)
  OBVIOUS
<1>5. \A k \in Lot : lots[k] > 0 /\ (l = NoLot \/ k = l) => k \in S
  OBVIOUS
<1> HIDE DEF S, s
<1>6. DOMAIN rows = 1..n /\ \A i \in 1..n : /\ s[i] \in S
                                            /\ rows[i] = [lot |-> s[i], quantity |-> lots[s[i]]]
                                            /\ rows[i].lot = s[i] /\ rows[i].quantity = lots[s[i]]
  BY <1>3
<1>7. \A i \in 1..n : rows[i] \in [lot : Lot, quantity : Nat \ {0}]
  BY <1>4, <1>6
<1>8. rows \in LotRows /\ Len(rows) = n
  <2>1. rows = [i \in 1..n |-> [lot |-> s[i], quantity |-> lots[s[i]]]]
    BY <1>3
  <2>2. \A i \in 1..n : [lot |-> s[i], quantity |-> lots[s[i]]] \in [lot : Lot, quantity : Nat \ {0}]
    BY <1>4, <1>6
  <2> HIDE DEF rows, n
  <2> QED
    BY <1>2, <2>1, <2>2 DEF LotRows
<1>9. \A i, j \in 1..n : s[i] = s[j] => i = j
  <2> SUFFICES ASSUME NEW i \in 1..n, NEW j \in 1..n, s[i] = s[j], i # j PROVE FALSE
    OBVIOUS
  <2>1. i < j \/ j < i
    OBVIOUS
  <2>2. s[i] \in Lot
    BY <1>4, <1>6
  <2> QED
    BY <1>3, <2>1, <2>2 DEF IsOrder
<1>10. \A k \in S : \E i \in 1..n : s[i] = k
  <2>1. s \in Injection(1..n, S)
    BY <1>3, <1>9 DEF Injection, IsInjective
  <2>2. IsFiniteSet(1..n) /\ Cardinality(1..n) = n
    BY <1>2, FS_Interval, 1 \in Int
  <2>3. s \in Surjection(1..n, S)
    BY <1>2, <2>1, <2>2, FS_Injection
  <2> QED
    BY <2>3 DEF Surjection
<1> HIDE DEF rows, n
<1> QED
  BY <1>1, <1>3, <1>4, <1>5, <1>6, <1>8, <1>9, <1>10 DEF IsRows

-----------------------------------------------------------------------------
(* Allocations *)

\* Numbers that all come before a bound are the first.
LEMMA FirstOfRows ==
  ASSUME NEW n \in Nat, NEW D \in SUBSET (1..n),
         \A i, j \in 1..n : i < j /\ j \in D => i \in D
  PROVE  \E m \in 0..n : D = 1..m
<1> DEFINE Out == {i \in 1..(n + 1) : i \notin D}
<1>1. n + 1 \in Out /\ Out \subseteq Nat
  OBVIOUS
<1>2. PICK m \in Out : \A k \in Out : m <= k
  <2> HIDE DEF Out
  <2> QED
    BY <1>1, Sums!NatMin
<1>3. m \in 1..(n + 1) /\ m \notin D
  BY <1>2
<1>4. \A i \in 1..(m - 1) : i \in D
  BY <1>2, <1>3
<1>5. \A i \in D : i \in 1..(m - 1)
  <2> SUFFICES ASSUME NEW i \in D, ~(i < m) PROVE FALSE
    BY <1>3
  <2>1. i \in 1..n /\ m < i
    BY <1>3
  <2> QED
    BY <1>3, <2>1
<1>6. \A i : i \in D <=> i \in 1..(m - 1)
  BY <1>4, <1>5
<1>7. D = 1..(m - 1)
  BY ONLY <1>6
<1>8. m - 1 \in 0..n
  BY <1>3
<1> QED
  BY <1>7, <1>8

\* Units of rows, and what remains to take of q when a row is reached.
UnitsIn(rows) == [i \in DOMAIN rows |-> rows[i].quantity]

Remaining(rows, q, i) == q - Total(UnitsIn(rows), i - 1)

IsAllocation(a, rows, q) ==
  /\ a \in Seq([lot : Lot, quantity : 1..q])
  /\ Len(a) <= Len(rows)
  /\ \A i \in 1..Len(rows) : i <= Len(a) <=> Remaining(rows, q, i) > 0
  /\ \A i \in 1..Len(a) : /\ a[i].lot = rows[i].lot
                          /\ a[i].quantity = Least(rows[i].quantity, Remaining(rows, q, i))

LEMMA AllocationTakes ==
  ASSUME NEW rows \in LotRows, NEW q \in Nat
  PROVE  IsAllocation(Allocation(rows, q), rows, q)
<1> DEFINE n == Len(rows)
           units == UnitsIn(rows)
           rem(i) == Remaining(rows, q, i)
           D == {j \in 1..n : rem(j) > 0}
           a == Allocation(rows, q)
<1>1. /\ n \in Nat /\ DOMAIN rows = 1..n
      /\ \A i \in 1..n : rows[i].lot \in Lot /\ rows[i].quantity \in Nat \ {0}
  <2>1. rows \in Seq([lot : Lot, quantity : Nat \ {0}])
    BY DEF LotRows
  <2>2. n \in Nat /\ DOMAIN rows = 1..n /\ \A i \in 1..n : rows[i] \in [lot : Lot, quantity : Nat \ {0}]
    BY <2>1, LenProperties
  <2> QED
    BY <2>2
<1>2. \A i \in 1..n : units[i] = rows[i].quantity
  BY <1>1 DEF UnitsIn
<1>3. \A j \in 0..n : Total(units, j) \in Nat /\ \A i \in 0..j : Total(units, i) <= Total(units, j)
  <2>1. \A i \in 1..n : units[i] \in Nat
    BY <1>1, <1>2
  <2> HIDE DEF units
  <2>2. \A j \in 0..n : \A i \in 0..j : Total(units, i) <= Total(units, j)
    BY <1>1, <2>1, SumGrows
  <2>3. ASSUME NEW j \in 0..n PROVE Total(units, j) \in Nat
    <3>1. j \in Nat /\ \A i \in 1..j : units[i] \in Nat
      BY <1>1, <2>1
    <3> QED
      BY <3>1, SumNat
  <2> QED
    BY <2>2, <2>3
<1>4. a = [i \in D |-> [lot |-> rows[i].lot, quantity |-> Least(units[i], rem(i))]]
  <2>1. a = LET remaining == [i \in 1..n |-> rem(i)]
            IN  [i \in {j \in 1..n : remaining[j] > 0} |->
                   [lot |-> rows[i].lot, quantity |-> Least(units[i], remaining[i])]]
    BY <1>1 DEF Allocation, Remaining, UnitsIn
  <2> HIDE DEF a, rem, units
  <2> QED
    BY <2>1
<1> HIDE DEF a, units
<1>5. \A i \in 1..n : rem(i) \in Int /\ rem(i) <= q
  <2> TAKE i \in 1..n
  <2>1. i - 1 \in 0..n
    OBVIOUS
  <2> QED
    BY <1>3, <2>1 DEF Remaining, units
<1>6. \A i, j \in 1..n : i < j => rem(j) <= rem(i)
  <2> TAKE i, j \in 1..n
  <2> HAVE i < j
  <2>1. i - 1 \in 0..n /\ j - 1 \in 0..n /\ i - 1 \in 0..(j - 1)
    BY <1>1
  <2>2. /\ Total(units, i - 1) \in Nat /\ Total(units, j - 1) \in Nat
        /\ Total(units, i - 1) <= Total(units, j - 1)
    BY <1>3, <2>1
  <2> QED
    BY <2>2 DEF Remaining, units
<1> HIDE DEF rem
<1>7. PICK m \in 0..n : D = 1..m
  <2>1. \A i, j \in 1..n : i < j /\ j \in D => i \in D
    BY <1>5, <1>6
  <2>2. D \in SUBSET (1..n)
    OBVIOUS
  <2> HIDE DEF D, n
  <2> QED
    BY <1>1, <2>1, <2>2, FirstOfRows
<1>8. \A i \in 1..n : i <= m <=> rem(i) > 0
  <2> TAKE i \in 1..n
  <2>1. i \in D <=> rem(i) > 0
    OBVIOUS
  <2> QED
    BY <1>1, <1>7, <2>1
<1>9. \A i \in 1..m : [lot |-> rows[i].lot, quantity |-> Least(units[i], rem(i))]
                        \in [lot : Lot, quantity : 1..q]
  <2> TAKE i \in 1..m
  <2>1. i \in 1..n /\ rem(i) > 0 /\ rem(i) \in Int /\ rem(i) <= q
    BY <1>1, <1>5, <1>8
  <2>2. units[i] \in Nat \ {0}
    BY <1>1, <1>2, <2>1
  <2>3. Least(units[i], rem(i)) \in 1..q
    BY <2>1, <2>2 DEF Least
  <2> QED
    BY <1>1, <2>1, <2>3
<1> HIDE DEF D
<1>10. a = [i \in 1..m |-> [lot |-> rows[i].lot, quantity |-> Least(units[i], rem(i))]]
  BY <1>4, <1>7
<1>11. /\ a \in Seq([lot : Lot, quantity : 1..q]) /\ Len(a) = m
       /\ \A i \in 1..m : a[i] = [lot |-> rows[i].lot, quantity |-> Least(units[i], rem(i))]
  <2>1. m \in Nat
    BY <1>1
  <2> HIDE DEF rem
  <2> QED
    BY <1>9, <1>10, <2>1
<1>12. \A i \in 1..m : a[i].lot = rows[i].lot /\ a[i].quantity = Least(rows[i].quantity, rem(i))
  BY <1>1, <1>2, <1>11
<1>13. Len(a) <= n
  BY <1>1, <1>11
<1> QED
  BY <1>8, <1>11, <1>12, <1>13 DEF IsAllocation, a, rem

\* As many units as asked are taken, or all there are.
LEMMA AllocationSum ==
  ASSUME NEW rows \in LotRows, NEW q \in Nat, NEW a, IsAllocation(a, rows, q)
  PROVE  Allocated(a) = Least(q, Total(UnitsIn(rows), Len(rows)))
<1> DEFINE n == Len(rows)
           m == Len(a)
           units == UnitsIn(rows)
           taken == UnitsIn(a)
           T(i) == Total(units, i)
           A(i) == Total(taken, i)
<1>1. /\ n \in Nat /\ DOMAIN rows = 1..n /\ m \in 0..n /\ DOMAIN a = 1..m
      /\ \A i \in 1..n : rows[i].quantity \in Nat \ {0}
      /\ \A i \in 1..m : a[i].quantity \in Nat
  <2>1. rows \in Seq([lot : Lot, quantity : Nat \ {0}]) /\ a \in Seq([lot : Lot, quantity : 1..q])
    BY DEF LotRows, IsAllocation
  <2>2. /\ n \in Nat /\ DOMAIN rows = 1..n
        /\ \A i \in 1..n : rows[i] \in [lot : Lot, quantity : Nat \ {0}]
    BY <2>1, LenProperties
  <2>3. /\ m \in Nat /\ DOMAIN a = 1..m /\ \A i \in 1..m : a[i] \in [lot : Lot, quantity : 1..q]
    BY <2>1, LenProperties
  <2>4. m <= n
    BY DEF IsAllocation
  <2> QED
    BY <2>2, <2>3, <2>4
<1>2. /\ \A i \in 1..n : units[i] = rows[i].quantity /\ units[i] \in Nat
      /\ \A i \in 1..m : taken[i] = a[i].quantity /\ taken[i] \in Nat
  BY <1>1 DEF UnitsIn
<1> HIDE DEF units, taken
<1>3. \A i \in 1..n : T(i) = T(i - 1) + units[i]
  <2> TAKE i \in 1..n
  <2>1. i \in Nat \ {0} /\ \A k \in 1..i : units[k] \in Int
    BY <1>1, <1>2
  <2> QED
    BY <2>1, SumStep
<1>4. \A i \in 1..m : A(i) = A(i - 1) + taken[i]
  <2> TAKE i \in 1..m
  <2>1. i \in Nat \ {0} /\ \A k \in 1..i : taken[k] \in Int
    BY <1>1, <1>2
  <2> QED
    BY <2>1, SumStep
<1>5. T(0) = 0 /\ A(0) = 0
  BY SumZero
<1>6. \A j \in 0..n : T(j) \in Nat /\ \A i \in 0..j : T(i) <= T(j)
  <2>1. \A j \in 0..n : \A i \in 0..j : Total(units, i) <= Total(units, j)
    BY <1>1, <1>2, SumGrows
  <2>2. ASSUME NEW j \in 0..n PROVE Total(units, j) \in Nat
    <3>1. j \in Nat /\ \A i \in 1..j : units[i] \in Nat
      BY <1>1, <1>2
    <3> QED
      BY <3>1, SumNat
  <2> QED
    BY <2>1, <2>2
<1>7. /\ \A i \in 1..n : i <= m <=> q - T(i - 1) > 0
      /\ \A i \in 1..m : taken[i] = Least(units[i], q - T(i - 1))
  BY <1>1, <1>2 DEF IsAllocation, Remaining, units
<1> HIDE DEF T, A, m, n
<1> DEFINE Bad == {k \in 0..m : A(k) # Least(q, T(k))}
<1>8. ASSUME Bad # {} PROVE FALSE
  <2>1. PICK k \in Bad : \A i \in Bad : k <= i
    <3>1. Bad \subseteq Nat
      BY <1>1
    <3> HIDE DEF Bad
    <3> QED
      BY <1>8, <3>1, Sums!NatMin
  <2>2. k \in 0..m /\ A(k) # Least(q, T(k))
    BY <2>1
  <2>3. k # 0
    BY <1>5, <2>2 DEF Least
  <2>4. k \in 1..m /\ k \in 1..n /\ k - 1 \in 0..m /\ k - 1 \in 0..n /\ k \in 0..n /\ k - 1 \notin Bad
    BY <1>1, <2>1, <2>2, <2>3
  <2>5. A(k - 1) = Least(q, T(k - 1)) /\ A(k) = A(k - 1) + taken[k] /\ T(k) = T(k - 1) + units[k]
    BY <1>3, <1>4, <2>4
  <2>6. q - T(k - 1) > 0 /\ taken[k] = Least(units[k], q - T(k - 1))
    BY <1>7, <2>4
  <2>7. T(k - 1) \in Nat /\ units[k] \in Nat
    BY <1>2, <1>6, <2>4 DEF n
  <2> QED
    BY <2>2, <2>5, <2>6, <2>7 DEF Least
<1>9. A(m) = Least(q, T(m))
  <2>1. m \in 0..m
    BY <1>1
  <2> QED
    BY <1>8, <2>1
<1>10. Least(q, T(m)) = Least(q, T(n))
  <2>1. ASSUME m < n PROVE Least(q, T(m)) = Least(q, T(n))
    <3>1. m + 1 \in 1..n /\ ~(m + 1 <= m) /\ (m + 1) - 1 = m /\ m \in 0..n /\ n \in 0..n /\ m \in 0..n
      BY <1>1, <2>1
    <3>2. ~(q - T(m) > 0)
      BY <1>7, <3>1
    <3>3. T(m) \in Nat /\ T(n) \in Nat /\ T(m) <= T(n)
      BY <1>6, <1>1, <3>1
    <3> QED
      BY <3>2, <3>3 DEF Least
  <2> QED
    BY <1>1, <2>1
<1>11. Allocated(a) = A(m)
  BY DEF Allocated, A, taken, UnitsIn, m
<1> QED
  BY <1>9, <1>10, <1>11 DEF T, n, units

\* Nothing is taken for a request of nothing.
LEMMA AllocationOfNone ==
  ASSUME NEW rows \in LotRows, NEW a, IsAllocation(a, rows, 0)
  PROVE  Len(a) = 0
<1>1. a \in Seq([lot : Lot, quantity : 1..0])
  BY DEF IsAllocation
<1>2. Len(a) \in Nat /\ \A i \in 1..Len(a) : a[i].quantity \in 1..0
  BY <1>1
<1> QED
  BY <1>2

-----------------------------------------------------------------------------
(* Units of a lot in an allocation *)

Allocations == Seq([lot : Lot, quantity : Nat])

\* What each row of an allocation has of a lot.
UnitsInRows(a, l) == [i \in DOMAIN a |-> IF a[i].lot = l THEN a[i].quantity ELSE 0]

LEMMA AllocationRows ==
  ASSUME NEW a \in Allocations
  PROVE  /\ Len(a) \in Nat /\ DOMAIN a = 1..Len(a)
         /\ \A i \in 1..Len(a) : a[i].lot \in Lot /\ a[i].quantity \in Nat
         /\ \A l : \A i \in 1..Len(a) :
              /\ UnitsInRows(a, l)[i] = IF a[i].lot = l THEN a[i].quantity ELSE 0
              /\ UnitsInRows(a, l)[i] \in Nat
         /\ \A i \in 1..Len(a) : UnitsIn(a)[i] = a[i].quantity
<1>1. a \in Seq([lot : Lot, quantity : Nat])
  BY DEF Allocations
<1>2. /\ Len(a) \in Nat /\ DOMAIN a = 1..Len(a)
      /\ \A i \in 1..Len(a) : a[i] \in [lot : Lot, quantity : Nat]
  BY <1>1, LenProperties
<1> QED
  BY <1>2 DEF UnitsInRows, UnitsIn

LEMMA UnitsOfNat ==
  ASSUME NEW a \in Allocations, NEW l
  PROVE  /\ UnitsOf(a, l) \in Nat /\ UnitsOf(a, l) = Total(UnitsInRows(a, l), Len(a))
         /\ Allocated(a) \in Nat /\ Allocated(a) = Total(UnitsIn(a), Len(a))
         /\ Len(a) = 0 => UnitsOf(a, l) = 0
<1>1. UnitsOf(a, l) = Total(UnitsInRows(a, l), Len(a)) /\ Allocated(a) = Total(UnitsIn(a), Len(a))
  BY DEF UnitsOf, UnitsInRows, Allocated, UnitsIn
<1>2. /\ Len(a) \in Nat
      /\ \A i \in 1..Len(a) : UnitsInRows(a, l)[i] \in Nat /\ UnitsIn(a)[i] \in Nat
  BY AllocationRows
<1>3. Total(UnitsInRows(a, l), Len(a)) \in Nat /\ Total(UnitsIn(a), Len(a)) \in Nat
  BY <1>2, SumNat
<1> QED
  BY <1>1, <1>3, SumZero

\* The units of an allocation, counted by row or by lot.
LEMMA UnitsByLot ==
  ASSUME LotsAssumption, NEW a \in Allocations
  PROVE  Total([l \in Lot |-> UnitsOf(a, l)], NumLots) = Allocated(a)
<1> DEFINE m == Len(a)
           by(k) == [l \in Lot |-> Total(UnitsInRows(a, l), k)]
           B(k) == Total(by(k), NumLots)
           A(k) == Total(UnitsIn(a), k)
           Bad == {k \in 0..m : B(k) # A(k)}
<1>1. /\ m \in Nat /\ NumLots \in Nat /\ Lot = 1..NumLots
      /\ \A i \in 1..m : a[i].lot \in Lot /\ a[i].quantity \in Nat
      /\ \A l : \A i \in 1..m : /\ UnitsInRows(a, l)[i] = IF a[i].lot = l THEN a[i].quantity ELSE 0
                                /\ UnitsInRows(a, l)[i] \in Nat
      /\ \A i \in 1..m : UnitsIn(a)[i] = a[i].quantity
  BY AllocationRows, LotIsFinite
<1>2. \A k \in 0..m : \A l \in Lot : by(k)[l] = Total(UnitsInRows(a, l), k) /\ by(k)[l] \in Int
  <2> TAKE k \in 0..m
  <2> TAKE l \in Lot
  <2>1. k \in Nat /\ \A i \in 1..k : UnitsInRows(a, l)[i] \in Int
    BY <1>1
  <2> QED
    BY <2>1, SumInt
<1>3. \A k \in 1..m : \A l \in Lot :
        by(k)[l] = by(k - 1)[l] + (IF a[k].lot = l THEN a[k].quantity ELSE 0)
  <2> TAKE k \in 1..m
  <2> TAKE l \in Lot
  <2>1. k \in Nat \ {0} /\ \A i \in 1..k : UnitsInRows(a, l)[i] \in Int
    BY <1>1
  <2>2. Total(UnitsInRows(a, l), k) = Total(UnitsInRows(a, l), k - 1) + UnitsInRows(a, l)[k]
    BY <2>1, SumStep
  <2>3. k \in 0..m /\ k - 1 \in 0..m
    BY <1>1
  <2> HIDE DEF by
  <2> QED
    BY <1>1, <1>2, <2>2, <2>3
<1>4. \A l \in Lot : by(0)[l] = 0
  BY SumZero
<1> HIDE DEF by
<1>5. ASSUME Bad # {} PROVE FALSE
  <2>1. PICK k \in Bad : \A i \in Bad : k <= i
    <3>1. Bad \subseteq Nat
      OBVIOUS
    <3> HIDE DEF Bad
    <3> QED
      BY <1>5, <3>1, Sums!NatMin
  <2>2. k \in 0..m /\ B(k) # A(k)
    BY <2>1
  <2>3. k # 0
    <3>1. B(0) = 0 /\ A(0) = 0
      BY <1>1, <1>4, SumZero, SumOfZeros
    <3> QED
      BY <2>2, <3>1
  <2>4. k \in 1..m /\ k - 1 \in 0..m /\ k \in 0..m /\ ~(k <= k - 1)
    BY <1>1, <2>2, <2>3
  <2>5. B(k - 1) = A(k - 1)
    BY <2>1, <2>4
  <2>6. A(k) = A(k - 1) + a[k].quantity /\ A(k - 1) \in Int
    <3>1. k \in Nat \ {0} /\ \A i \in 1..k : UnitsIn(a)[i] \in Int
      BY <1>1, <2>4
    <3>2. k - 1 \in Nat /\ \A i \in 1..(k - 1) : UnitsIn(a)[i] \in Int
      BY <3>1
    <3>3. UnitsIn(a)[k] = a[k].quantity
      BY <1>1, <2>4
    <3> QED
      BY <3>1, <3>2, <3>3, SumStep, SumInt
  <2>7. B(k) = B(k - 1) + a[k].quantity
    <3>1. a[k].lot \in 1..NumLots /\ a[k].quantity \in Nat
      BY <1>1, <2>4
    <3>2. \A l \in 1..NumLots : /\ by(k - 1)[l] \in Int /\ by(k)[l] \in Int
                                /\ l # a[k].lot => by(k)[l] = by(k - 1)[l]
      <4> HIDE DEF A, B, Bad, m
      <4>1. \A l \in Lot : /\ by(k - 1)[l] \in Int /\ by(k)[l] \in Int
                           /\ by(k)[l] = by(k - 1)[l] + (IF a[k].lot = l THEN a[k].quantity ELSE 0)
        BY <1>2, <1>3, <2>4
      <4> QED
        BY <1>1, <4>1
    <3>3. by(k)[a[k].lot] = by(k - 1)[a[k].lot] + a[k].quantity
      <4> HIDE DEF A, B, Bad, m
      <4>1. a[k].lot \in Lot
        BY <1>1, <2>4
      <4>2. \A l \in Lot : l = a[k].lot => by(k)[l] = by(k - 1)[l] + a[k].quantity
        BY <1>3, <2>4
      <4> QED
        BY <4>1, <4>2
    <3>4. B(k) = B(k - 1) + (by(k)[a[k].lot] - by(k - 1)[a[k].lot])
      <4> DEFINE f == by(k - 1)
                 g == by(k)
                 x == a[k].lot
      <4>1. /\ NumLots \in Nat /\ x \in 1..NumLots
            /\ \A l \in 1..NumLots : f[l] \in Int /\ g[l] \in Int
            /\ \A l \in 1..NumLots : l # x => g[l] = f[l]
        BY <1>1, <3>1, <3>2
      <4> HIDE DEF f, g, x
      <4>2. Total(g, NumLots) = Total(f, NumLots) + (g[x] - f[x])
        BY ONLY <4>1, SumOneRow
      <4> QED
        BY <4>2 DEF f, g, x
    <3>5. B(k - 1) \in Int
      BY <2>5, <2>6
    <3> QED
      BY <3>1, <3>2, <3>3, <3>4, <3>5
  <2> QED
    BY <2>2, <2>5, <2>6, <2>7
<1>6. B(m) = A(m)
  BY <1>1, <1>5
<1>7. [l \in Lot |-> UnitsOf(a, l)] = by(m)
  BY UnitsOfNat DEF by
<1>8. Allocated(a) = A(m)
  BY UnitsOfNat
<1> QED
  BY <1>6, <1>7, <1>8

\* An allocation of rows of different lots has at most one row of each.
LEMMA UnitsOfRow ==
  ASSUME LotsAssumption, NEW lots \in [Lot -> Nat], NEW l, NEW order, NEW rows,
         IsRows(rows, lots, l, order), NEW q \in Nat, NEW a, IsAllocation(a, rows, q)
  PROVE  /\ a \in Allocations
         /\ \A i \in 1..Len(a) : UnitsOf(a, rows[i].lot) = a[i].quantity
         /\ \A k : (\A i \in 1..Len(a) : rows[i].lot # k) => UnitsOf(a, k) = 0
         /\ \A i \in 1..Len(a) : a[i].quantity <= lots[rows[i].lot]
         /\ \A k \in Lot : UnitsOf(a, k) \in 0..lots[k]
<1> DEFINE m == Len(a)
<1>1. a \in Allocations
  <2>1. a \in Seq([lot : Lot, quantity : 1..q])
    BY DEF IsAllocation
  <2>2. m \in Nat /\ a \in [1..m -> [lot : Lot, quantity : 1..q]]
    BY <2>1, LenProperties
  <2>3. a = [i \in 1..m |-> a[i]] /\ \A i \in 1..m : a[i] \in [lot : Lot, quantity : Nat]
    BY <2>2
  <2> HIDE DEF m
  <2> QED
    BY <2>2, <2>3, SeqDef DEF Allocations
<1>2. /\ m \in Nat /\ m <= Len(rows) /\ Len(rows) \in Nat
      /\ \A i \in 1..m : i \in 1..Len(rows)
      /\ \A i \in 1..m : a[i].lot = rows[i].lot /\ a[i].quantity \in Nat
      /\ \A i, j \in 1..m : rows[i].lot = rows[j].lot => i = j
  <2>1. rows \in Seq([lot : Lot, quantity : Nat \ {0}])
    BY DEF IsRows, LotRows
  <2>2. Len(rows) \in Nat
    BY <2>1, LenProperties
  <2>3. m \in Nat /\ m <= Len(rows) /\ \A i \in 1..m : a[i].lot = rows[i].lot
    BY <1>1, AllocationRows DEF IsAllocation
  <2>4. \A i, j \in 1..Len(rows) : rows[i].lot = rows[j].lot => i = j
    BY DEF IsRows
  <2>5. \A i \in 1..m : i \in 1..Len(rows) /\ a[i].quantity \in Nat
    BY <1>1, <2>2, <2>3, AllocationRows
  <2> QED
    BY <2>2, <2>3, <2>4, <2>5
<1>3. ASSUME NEW i \in 1..m PROVE UnitsOf(a, rows[i].lot) = a[i].quantity
  <2> DEFINE f == UnitsInRows(a, rows[i].lot)
             zeros == [j \in 1..m |-> 0]
  <2>1. \A j \in 1..m : f[j] = IF j = i THEN a[i].quantity ELSE 0
    <3> TAKE j \in 1..m
    <3>1. f[j] = IF a[j].lot = rows[i].lot THEN a[j].quantity ELSE 0
      BY <1>1, AllocationRows
    <3>2. a[j].lot = rows[i].lot <=> j = i
      BY <1>2
    <3> HIDE DEF f
    <3> QED
      BY <3>1, <3>2
  <2>2. \A j \in 1..m : zeros[j] = 0
    OBVIOUS
  <2> HIDE DEF f, zeros
  <2>3. Total(f, m) = Total(zeros, m) + (f[i] - zeros[i])
    <3>1. \A j \in 1..m : zeros[j] \in Int /\ f[j] \in Int
      BY <1>2, <2>1, <2>2
    <3>2. \A j \in 1..m : j # i => f[j] = zeros[j]
      BY <2>1, <2>2
    <3>3. m \in Nat
      BY <1>2
    <3> HIDE DEF m
    <3> QED
      BY <3>1, <3>2, <3>3, SumOneRow
  <2>4. Total(zeros, m) = 0
    BY <1>2, <2>2, SumOfZeros
  <2>5. UnitsOf(a, rows[i].lot) = Total(f, m)
    BY <1>1, UnitsOfNat DEF f
  <2>6. a[i].quantity \in Nat /\ f[i] = a[i].quantity /\ zeros[i] = 0
    BY <1>2, <2>1, <2>2
  <2> QED
    BY <2>3, <2>4, <2>5, <2>6
<1>4. ASSUME NEW k, \A i \in 1..m : rows[i].lot # k PROVE UnitsOf(a, k) = 0
  <2>1. \A i \in 1..m : UnitsInRows(a, k)[i] = 0
    BY <1>1, <1>2, <1>4, AllocationRows
  <2>2. Total(UnitsInRows(a, k), m) = 0
    BY <1>2, <2>1, SumOfZeros
  <2> QED
    BY <1>1, <2>2, UnitsOfNat
<1>5. ASSUME NEW i \in 1..m PROVE a[i].quantity <= lots[rows[i].lot]
  <2>1. a[i].quantity = Least(rows[i].quantity, Remaining(rows, q, i))
    BY DEF IsAllocation
  <2>2. rows[i].quantity = lots[rows[i].lot] /\ lots[rows[i].lot] \in Nat
    <3>1. i \in 1..Len(rows)
      BY <1>2
    <3>2. rows[i].lot \in Lot
      BY <1>1, <1>2, AllocationRows
    <3> QED
      BY <3>1, <3>2 DEF IsRows
  <2>3. \/ a[i].quantity = rows[i].quantity
        \/ a[i].quantity = Remaining(rows, q, i) /\ ~(rows[i].quantity <= Remaining(rows, q, i))
    BY <2>1 DEF Least
  <2>4. Remaining(rows, q, i) \in Int
    <3>1. i \in 1..Len(rows) /\ i - 1 \in Nat
      BY <1>2
    <3>2. rows \in Seq([lot : Lot, quantity : Nat \ {0}])
      BY DEF IsRows, LotRows
    <3>3. /\ Len(rows) \in Nat /\ DOMAIN rows = 1..Len(rows)
          /\ \A j \in 1..Len(rows) : rows[j] \in [lot : Lot, quantity : Nat \ {0}]
      BY <3>2, LenProperties
    <3>4. \A j \in 1..(i - 1) : UnitsIn(rows)[j] \in Int
      BY <3>1, <3>3 DEF UnitsIn
    <3>5. Total(UnitsIn(rows), i - 1) \in Int
      BY <3>1, <3>4, SumInt
    <3> QED
      BY <3>5 DEF Remaining
  <2> QED
    BY <2>2, <2>3, <2>4
<1>6. ASSUME NEW k \in Lot PROVE UnitsOf(a, k) \in 0..lots[k]
  <2>1. UnitsOf(a, k) \in Nat /\ lots[k] \in Nat
    BY <1>1, UnitsOfNat
  <2>2. ASSUME NEW i \in 1..m, rows[i].lot = k PROVE UnitsOf(a, k) <= lots[k]
    BY <1>3, <1>5, <2>2
  <2>3. ASSUME \A i \in 1..m : rows[i].lot # k PROVE UnitsOf(a, k) <= lots[k]
    BY <1>4, <2>1, <2>3
  <2> QED
    BY <2>1, <2>2, <2>3
<1> QED
  BY <1>1, <1>3, <1>4, <1>5, <1>6

\* A lot is only taken from when those before it are taken whole.
LEMMA TakenInOrder ==
  ASSUME LotsAssumption, NEW lots \in [Lot -> Nat], NEW order, IsOrder(order), NEW rows,
         IsRows(rows, lots, NoLot, order), NEW q \in Nat, NEW a, IsAllocation(a, rows, q),
         NEW x \in Lot, NEW y \in Lot, <<y, x>> \in order, UnitsOf(a, x) > 0
  PROVE  UnitsOf(a, y) = lots[y]
<1> DEFINE m == Len(a)
           n == Len(rows)
           units == UnitsIn(rows)
<1>1. PICK i \in 1..m : rows[i].lot = x
  <2>1. (\A i \in 1..m : rows[i].lot # x) => UnitsOf(a, x) = 0
    BY UnitsOfRow
  <2> QED
    BY <2>1
<1>2. ASSUME lots[y] = 0 PROVE UnitsOf(a, y) = lots[y]
  <2>1. UnitsOf(a, y) \in 0..lots[y]
    BY UnitsOfRow
  <2> QED
    BY <1>2, <2>1
<1>3. ASSUME lots[y] > 0 PROVE UnitsOf(a, y) = lots[y]
  <2>1. PICK j \in 1..n : rows[j].lot = y
    BY <1>3 DEF IsRows
  <2>2. rows \in Seq([lot : Lot, quantity : Nat \ {0}])
    BY DEF IsRows, LotRows
  <2>3. /\ n \in Nat /\ DOMAIN rows = 1..n
        /\ \A k \in 1..n : rows[k] \in [lot : Lot, quantity : Nat \ {0}]
    BY <2>2, LenProperties
  <2>4. m \in Nat /\ m <= n /\ i \in 1..n
    <3>1. a \in Allocations
      BY UnitsOfRow
    <3>2. m \in Nat /\ m <= n
      BY <3>1, AllocationRows DEF IsAllocation
    <3> QED
      BY <2>3, <3>2
  <2>5. j < i
    <3>1. ASSUME i < j PROVE FALSE
      <4>1. <<x, y>> \in order
        BY <1>1, <2>1, <2>4, <3>1 DEF IsRows
      <4> QED
        BY <4>1 DEF IsOrder
    <3>2. i # j
      <4>1. x # y
        BY DEF IsOrder
      <4> QED
        BY <1>1, <2>1, <4>1
    <3> QED
      BY <2>4, <3>1, <3>2
  <2>6. \A k \in 1..n : units[k] = rows[k].quantity /\ units[k] \in Nat
    BY <2>3 DEF UnitsIn
  <2>7. Total(units, j) <= Total(units, i - 1) /\ Total(units, i - 1) \in Nat /\ Total(units, j) \in Nat
    <3>1. i - 1 \in 0..n /\ j \in 0..(i - 1) /\ j \in Nat /\ i - 1 \in Nat
      BY <2>3, <2>4, <2>5
    <3>2. Total(units, j) <= Total(units, i - 1)
      BY <2>3, <2>6, <3>1, SumGrows
    <3>3. (\A k \in 1..(i - 1) : units[k] \in Nat) /\ (\A k \in 1..j : units[k] \in Nat)
      BY <2>4, <2>6, <3>1
    <3> QED
      BY <3>1, <3>2, <3>3, SumNat
  <2>8. Total(units, j) = Total(units, j - 1) + units[j] /\ Total(units, j - 1) \in Int
    <3>1. j \in Nat \ {0} /\ j - 1 \in Nat /\ (\A k \in 1..j : units[k] \in Int)
          /\ \A k \in 1..(j - 1) : units[k] \in Int
      BY <2>3, <2>6
    <3> QED
      BY <3>1, SumStep, SumInt
  <2>9. Remaining(rows, q, i) > 0
    BY <1>1, <2>4 DEF IsAllocation
  <2>10. q - Total(units, i - 1) > 0
    BY <2>9 DEF Remaining
  <2>11. j \in 1..m /\ units[j] \in Nat /\ units[j] = rows[j].quantity
    BY <2>3, <2>4, <2>5, <2>6
  <2>12. a[j].quantity = Least(rows[j].quantity, q - Total(units, j - 1))
    BY <2>11 DEF IsAllocation, Remaining
  <2> HIDE DEF units
  <2>13. a[j].quantity = rows[j].quantity
    BY <2>7, <2>8, <2>10, <2>11, <2>12 DEF Least
  <2>14. UnitsOf(a, y) = a[j].quantity
    BY <2>1, <2>11, UnitsOfRow
  <2>15. rows[j].quantity = lots[y]
    BY <2>1 DEF IsRows
  <2> QED
    BY <2>13, <2>14, <2>15
<1>4. lots[y] \in Nat
  OBVIOUS
<1> QED
  BY <1>2, <1>3, <1>4

-----------------------------------------------------------------------------
(* What a movement takes, and what it does to the lots *)

\* An allocation that these lots can give.
Takes(a, lots) == a \in Allocations /\ \A k \in Lot : UnitsOf(a, k) \in 0..lots[k]

LEMMA NothingTaken ==
  ASSUME LotsAssumption
  PROVE  /\ <<>> \in Allocations /\ Allocated(<<>>) = 0
         /\ \A k : UnitsOf(<<>>, k) = 0
         /\ \A lots \in LotRow : Takes(<<>>, lots)
<1>1. <<>> \in Allocations /\ Len(<<>>) = 0
  BY DEF Allocations
<1>2. \A k : UnitsOf(<<>>, k) = 0
  BY <1>1, UnitsOfNat
<1>3. Allocated(<<>>) = 0
  BY <1>1, UnitsOfNat, SumZero
<1>4. \A lots \in LotRow : \A k \in Lot : lots[k] \in Nat
  BY DEF LotRow
<1> QED
  BY <1>1, <1>2, <1>3, <1>4 DEF Takes

LEMMA RowsGive ==
  ASSUME LotsAssumption, NEW order, IsOrder(order), NEW lots \in LotRow, NEW l, NEW q \in Nat
  PROVE  /\ Allocation(Rows(lots, l, order), q) \in Seq([lot : Lot, quantity : 1..q])
         /\ Takes(Allocation(Rows(lots, l, order), q), lots)
<1> DEFINE rows == Rows(lots, l, order)
           a == Allocation(rows, q)
<1>1. lots \in [Lot -> Nat] /\ IsRows(rows, lots, l, order)
  BY RowsAreOfLots DEF LotRow
<1>2. IsAllocation(a, rows, q)
  <2>1. rows \in LotRows
    BY <1>1 DEF IsRows
  <2> HIDE DEF rows
  <2> QED
    BY <2>1, AllocationTakes
<1>3. a \in Seq([lot : Lot, quantity : 1..q])
  BY <1>2 DEF IsAllocation
<1> HIDE DEF a, rows
<1>4. Takes(a, lots)
  BY <1>1, <1>2, UnitsOfRow DEF Takes
<1> QED
  BY <1>3, <1>4 DEF a, rows

LEMMA WarehouseGives ==
  ASSUME LotsAssumption, expires \in [Lot -> Nat], NEW w, stock[w].lots \in LotRow,
         NEW l, NEW q \in Nat
  PROVE  /\ LotsTaken(w, q, l) \in Seq([lot : Lot, quantity : 1..q])
         /\ Takes(LotsTaken(w, q, l), stock[w].lots)
<1>1. IsOrder(LeavingOrder(expires))
  BY LeavingIsOrder
<1>2. ASSUME product.tracked
      PROVE  /\ LotsTaken(w, q, l) \in Seq([lot : Lot, quantity : 1..q])
             /\ Takes(LotsTaken(w, q, l), stock[w].lots)
  BY <1>1, <1>2, RowsGive DEF LotsTaken, TakeFromLots
<1>3. ASSUME ~product.tracked
      PROVE  /\ LotsTaken(w, q, l) \in Seq([lot : Lot, quantity : 1..q])
             /\ Takes(LotsTaken(w, q, l), stock[w].lots)
  <2>1. LotsTaken(w, q, l) = <<>>
    BY <1>3 DEF LotsTaken
  <2> QED
    BY <2>1, NothingTaken
<1> QED
  BY <1>2, <1>3

LEMMA OrderGives ==
  ASSUME LotsAssumption, expires \in [Lot -> Nat], NEW o, orders[o].lots \in LotRow,
         NEW l, NEW q \in Nat
  PROVE  Takes(LotsReturned(o, q, l), orders[o].lots)
<1>1. IsOrder(Reversed(LeavingOrder(expires)))
  BY LeavingIsOrder
<1>2. ASSUME product.tracked PROVE Takes(LotsReturned(o, q, l), orders[o].lots)
  BY <1>1, <1>2, RowsGive DEF LotsReturned, ReturnPickedLots
<1>3. ASSUME ~product.tracked PROVE Takes(LotsReturned(o, q, l), orders[o].lots)
  <2>1. LotsReturned(o, q, l) = <<>>
    BY <1>3 DEF LotsReturned
  <2> QED
    BY <2>1, NothingTaken
<1> QED
  BY <1>2, <1>3

LEMMA LotsMove ==
  ASSUME LotsAssumption, NEW lots \in LotRow, NEW a \in Allocations
  PROVE  /\ AddToLots(lots, a) \in LotRow
         /\ Total(AddToLots(lots, a), NumLots) = Total(lots, NumLots) + Allocated(a)
         /\ Takes(a, lots) =>
              /\ TakenFrom(lots, a) \in LotRow
              /\ Total(TakenFrom(lots, a), NumLots) = Total(lots, NumLots) - Allocated(a)
         /\ Total(lots, NumLots) \in Nat /\ Allocated(a) \in Nat
         /\ \A k \in Lot : /\ AddToLots(lots, a)[k] = lots[k] + UnitsOf(a, k)
                           /\ TakenFrom(lots, a)[k] = lots[k] - UnitsOf(a, k)
<1> DEFINE u == [k \in Lot |-> UnitsOf(a, k)]
           more == AddToLots(lots, a)
           less == TakenFrom(lots, a)
<1>1. NumLots \in Nat /\ Lot = 1..NumLots
  BY LotIsFinite
<1>2. \A k \in Lot : lots[k] \in Nat /\ UnitsOf(a, k) \in Nat /\ u[k] = UnitsOf(a, k)
  BY UnitsOfNat DEF LotRow
<1>3. \A k \in Lot : more[k] = lots[k] + u[k] /\ less[k] = lots[k] - u[k]
  BY DEF AddToLots, TakenFrom
<1>4. Total(u, NumLots) = Allocated(a) /\ Allocated(a) \in Nat /\ Total(lots, NumLots) \in Nat
  BY <1>1, <1>2, UnitsByLot, UnitsOfNat, SumNat
<1>5. more \in LotRow
  BY <1>2 DEF AddToLots, LotRow
<1>6. Takes(a, lots) => less \in LotRow
  BY <1>2 DEF TakenFrom, LotRow, Takes
<1> HIDE DEF u, more, less
<1>7. Total(more, NumLots) = Total(lots, NumLots) + Total(u, NumLots)
  <2>1. \A k \in 1..NumLots : lots[k] \in Int /\ u[k] \in Int /\ more[k] = lots[k] + u[k]
    BY <1>1, <1>2, <1>3
  <2> QED
    BY <1>1, <2>1, SumPlus
<1>8. Total(lots, NumLots) = Total(less, NumLots) + Total(u, NumLots) /\ Total(less, NumLots) \in Int
  <2>1. \A k \in 1..NumLots : less[k] \in Int /\ u[k] \in Int /\ lots[k] = less[k] + u[k]
    BY <1>1, <1>2, <1>3
  <2> QED
    BY <1>1, <2>1, SumPlus, SumInt
<1>9. Total(less, NumLots) = Total(lots, NumLots) - Allocated(a)
  BY <1>4, <1>8
<1> QED
  BY <1>2, <1>3, <1>4, <1>5, <1>6, <1>7, <1>9 DEF more, less

-----------------------------------------------------------------------------
(* The tables, and sums over them *)

Given == LotsAssumption /\ LotStockAssumption /\ TransfersAssumption

StockRow == [onHand : Nat, reserved : Nat, picked : Nat, lots : LotRow]

OrderRow ==
  [warehouse : Warehouse \union {NoWarehouse}, reserved : Nat, picked : Nat, lots : LotRow,
   status : {"none", "open", "shipped", "cancelled"}]

TransferRow ==
  [from : Warehouse \union {NoWarehouse}, to : Warehouse \union {NoWarehouse},
   quantity : Nat, allocations : Seq([lot : Lot, quantity : Units]),
   received : Nat, status : {"none", "in_transit", "received"}]

OnHandOf(s) == Total([w \in Warehouse |-> s[w].onHand], NumWarehouses)

ShelvesOf(s, l) == Total([w \in Warehouse |-> s[w].lots[l]], NumWarehouses)

InOrdersOf(r, l) == Total([o \in Order |-> r[o].lots[l]], NumOrders)

\* What an open order has of the counters of a warehouse.
PickedPart(row, w) == IF row.status = "open" /\ row.warehouse = w THEN row.picked ELSE 0
ReservedPart(row, w) == IF row.status = "open" /\ row.warehouse = w THEN row.reserved ELSE 0

PickedOf(r, w) == Total([o \in Order |-> PickedPart(r[o], w)], NumOrders)
ReservedOf(r, w) == Total([o \in Order |-> ReservedPart(r[o], w)], NumOrders)

LotOutside(row, l) ==
  UnitsOf(row.allocations, l) - UnitsOf(ReceivedLots(row.allocations, row.received), l)

OutsideOf(x) == Total([t \in Transfer |-> x[t].quantity - x[t].received], NumTransfers)

LotOutsideOf(x, l) == Total([t \in Transfer |-> LotOutside(x[t], l)], NumTransfers)

\* A column in which one row changed.
LEMMA ColumnChanges ==
  ASSUME NEW n \in Nat, NEW f, NEW g, NEW k \in 1..n,
         \A i \in 1..n : f[i] \in Int /\ g[i] \in Int /\ (i # k => g[i] = f[i])
  PROVE  /\ Total(f, n) \in Int /\ Total(g, n) \in Int
         /\ Total(g, n) = Total(f, n) + (g[k] - f[k])
BY SumInt, SumOneRow

LEMMA StockChanges ==
  ASSUME Given, NEW s \in [Warehouse -> StockRow], NEW t \in [Warehouse -> StockRow],
         NEW w \in Warehouse, \A v \in Warehouse : v # w => t[v] = s[v]
  PROVE  /\ OnHandOf(s) \in Int /\ OnHandOf(t) = OnHandOf(s) + (t[w].onHand - s[w].onHand)
         /\ \A l \in Lot : /\ ShelvesOf(s, l) \in Int
                           /\ ShelvesOf(t, l) = ShelvesOf(s, l) + (t[w].lots[l] - s[w].lots[l])
<1>1. NumWarehouses \in Nat /\ Warehouse = 1..NumWarehouses
  BY DEF Given, LotStockAssumption, Warehouse
<1>2. \A v \in Warehouse : /\ s[v].onHand \in Nat /\ t[v].onHand \in Nat
                           /\ \A l \in Lot : s[v].lots[l] \in Nat /\ t[v].lots[l] \in Nat
  BY DEF StockRow, LotRow
<1>3. OnHandOf(s) \in Int /\ OnHandOf(t) = OnHandOf(s) + (t[w].onHand - s[w].onHand)
  <2> DEFINE f == [v \in Warehouse |-> s[v].onHand]
             g == [v \in Warehouse |-> t[v].onHand]
  <2>1. \A v \in 1..NumWarehouses : f[v] = s[v].onHand /\ g[v] = t[v].onHand
    BY <1>1
  <2>2. Total(f, NumWarehouses) = OnHandOf(s) /\ Total(g, NumWarehouses) = OnHandOf(t)
    BY DEF OnHandOf
  <2> HIDE DEF f, g
  <2>3. \A i \in 1..NumWarehouses : f[i] \in Int /\ g[i] \in Int /\ (i # w => g[i] = f[i])
    BY <1>1, <1>2, <2>1
  <2>4. Total(f, NumWarehouses) \in Int /\ Total(g, NumWarehouses) = Total(f, NumWarehouses) + (g[w] - f[w])
    BY <1>1, <2>3, ColumnChanges
  <2> QED
    BY <1>1, <2>1, <2>2, <2>4
<1>4. ASSUME NEW l \in Lot
      PROVE  /\ ShelvesOf(s, l) \in Int
             /\ ShelvesOf(t, l) = ShelvesOf(s, l) + (t[w].lots[l] - s[w].lots[l])
  <2> DEFINE f == [v \in Warehouse |-> s[v].lots[l]]
             g == [v \in Warehouse |-> t[v].lots[l]]
  <2>1. \A v \in 1..NumWarehouses : f[v] = s[v].lots[l] /\ g[v] = t[v].lots[l]
    BY <1>1
  <2>2. Total(f, NumWarehouses) = ShelvesOf(s, l) /\ Total(g, NumWarehouses) = ShelvesOf(t, l)
    BY DEF ShelvesOf
  <2> HIDE DEF f, g
  <2>3. \A i \in 1..NumWarehouses : f[i] \in Int /\ g[i] \in Int /\ (i # w => g[i] = f[i])
    BY <1>1, <1>2, <2>1
  <2>4. Total(f, NumWarehouses) \in Int /\ Total(g, NumWarehouses) = Total(f, NumWarehouses) + (g[w] - f[w])
    BY <1>1, <2>3, ColumnChanges
  <2> QED
    BY <1>1, <2>1, <2>2, <2>4
<1> QED
  BY <1>3, <1>4

LEMMA OrdersChange ==
  ASSUME Given, NEW r \in [Order -> OrderRow], NEW u \in [Order -> OrderRow],
         NEW o \in Order, \A p \in Order : p # o => u[p] = r[p]
  PROVE  /\ \A l \in Lot : /\ InOrdersOf(r, l) \in Int
                           /\ InOrdersOf(u, l) = InOrdersOf(r, l) + (u[o].lots[l] - r[o].lots[l])
         /\ \A w : /\ PickedPart(r[o], w) \in Nat /\ PickedPart(u[o], w) \in Nat
                   /\ ReservedPart(r[o], w) \in Nat /\ ReservedPart(u[o], w) \in Nat
                   /\ PickedPart(r[o], w) <= PickedOf(r, w)
                   /\ ReservedPart(r[o], w) <= ReservedOf(r, w)
                   /\ PickedOf(u, w) = PickedOf(r, w) + (PickedPart(u[o], w) - PickedPart(r[o], w))
                   /\ ReservedOf(u, w) =
                        ReservedOf(r, w) + (ReservedPart(u[o], w) - ReservedPart(r[o], w))
<1>1. NumOrders \in Nat /\ Order = 1..NumOrders
  BY DEF Given, LotStockAssumption, Order
<1>2. \A p \in Order : /\ r[p] \in OrderRow /\ u[p] \in OrderRow
                       /\ r[p].picked \in Nat /\ u[p].picked \in Nat
                       /\ r[p].reserved \in Nat /\ u[p].reserved \in Nat
                       /\ \A l \in Lot : r[p].lots[l] \in Nat /\ u[p].lots[l] \in Nat
  BY DEF OrderRow, LotRow
<1>3. ASSUME NEW l \in Lot
      PROVE  /\ InOrdersOf(r, l) \in Int
             /\ InOrdersOf(u, l) = InOrdersOf(r, l) + (u[o].lots[l] - r[o].lots[l])
  <2> DEFINE f == [p \in Order |-> r[p].lots[l]]
             g == [p \in Order |-> u[p].lots[l]]
  <2>1. \A p \in 1..NumOrders : f[p] = r[p].lots[l] /\ g[p] = u[p].lots[l]
    BY <1>1
  <2>2. Total(f, NumOrders) = InOrdersOf(r, l) /\ Total(g, NumOrders) = InOrdersOf(u, l)
    BY DEF InOrdersOf
  <2> HIDE DEF f, g
  <2>3. \A i \in 1..NumOrders : f[i] \in Int /\ g[i] \in Int /\ (i # o => g[i] = f[i])
    BY <1>1, <1>2, <2>1
  <2>4. Total(f, NumOrders) \in Int /\ Total(g, NumOrders) = Total(f, NumOrders) + (g[o] - f[o])
    BY <1>1, <2>3, ColumnChanges
  <2> QED
    BY <1>1, <2>1, <2>2, <2>4
<1>4. ASSUME NEW w
      PROVE  /\ PickedPart(r[o], w) \in Nat /\ PickedPart(u[o], w) \in Nat
             /\ PickedPart(r[o], w) <= PickedOf(r, w)
             /\ PickedOf(u, w) = PickedOf(r, w) + (PickedPart(u[o], w) - PickedPart(r[o], w))
  <2> DEFINE f == [p \in Order |-> PickedPart(r[p], w)]
             g == [p \in Order |-> PickedPart(u[p], w)]
  <2>1. \A p \in 1..NumOrders : f[p] = PickedPart(r[p], w) /\ g[p] = PickedPart(u[p], w)
    BY <1>1
  <2>2. \A p \in Order : PickedPart(r[p], w) \in Nat /\ PickedPart(u[p], w) \in Nat
    BY <1>2 DEF PickedPart
  <2>3. Total(f, NumOrders) = PickedOf(r, w) /\ Total(g, NumOrders) = PickedOf(u, w)
    BY DEF PickedOf
  <2> HIDE DEF f, g
  <2>4. \A p \in 1..NumOrders : f[p] \in Nat /\ f[p] \in Int /\ g[p] \in Int /\ (p # o => g[p] = f[p])
    BY <1>1, <2>1, <2>2
  <2>5. Total(g, NumOrders) = Total(f, NumOrders) + (g[o] - f[o])
    BY <1>1, <2>4, ColumnChanges
  <2>6. f[o] <= Total(f, NumOrders)
    BY <1>1, <2>4, SumNat
  <2> QED
    BY <1>1, <2>1, <2>2, <2>3, <2>5, <2>6
<1>5. ASSUME NEW w
      PROVE  /\ ReservedPart(r[o], w) \in Nat /\ ReservedPart(u[o], w) \in Nat
             /\ ReservedPart(r[o], w) <= ReservedOf(r, w)
             /\ ReservedOf(u, w) = ReservedOf(r, w) + (ReservedPart(u[o], w) - ReservedPart(r[o], w))
  <2> DEFINE f == [p \in Order |-> ReservedPart(r[p], w)]
             g == [p \in Order |-> ReservedPart(u[p], w)]
  <2>1. \A p \in 1..NumOrders : f[p] = ReservedPart(r[p], w) /\ g[p] = ReservedPart(u[p], w)
    BY <1>1
  <2>2. \A p \in Order : ReservedPart(r[p], w) \in Nat /\ ReservedPart(u[p], w) \in Nat
    BY <1>2 DEF ReservedPart
  <2>3. Total(f, NumOrders) = ReservedOf(r, w) /\ Total(g, NumOrders) = ReservedOf(u, w)
    BY DEF ReservedOf
  <2> HIDE DEF f, g
  <2>4. \A p \in 1..NumOrders : f[p] \in Nat /\ f[p] \in Int /\ g[p] \in Int /\ (p # o => g[p] = f[p])
    BY <1>1, <2>1, <2>2
  <2>5. Total(g, NumOrders) = Total(f, NumOrders) + (g[o] - f[o])
    BY <1>1, <2>4, ColumnChanges
  <2>6. f[o] <= Total(f, NumOrders)
    BY <1>1, <2>4, SumNat
  <2> QED
    BY <1>1, <2>1, <2>2, <2>3, <2>5, <2>6
<1> QED
  BY <1>3, <1>4, <1>5

\* What is outside of a transfer: before it is received, all of its lots.
LEMMA OutsideIsUnits ==
  ASSUME NEW row \in TransferRow, NEW l \in Lot
  PROVE  /\ row.allocations \in Allocations /\ row.allocations \in LotRows
         /\ LotOutside(row, l) \in Int
         /\ row.received = 0 => LotOutside(row, l) = UnitsOf(row.allocations, l)
<1> DEFINE a == row.allocations
           b == ReceivedLots(a, row.received)
<1>1. a \in Seq([lot : Lot, quantity : Units]) /\ row.received \in Nat
  BY DEF TransferRow
<1>2. a \in Allocations /\ a \in LotRows
  <2>1. [lot : Lot, quantity : Units] \subseteq [lot : Lot, quantity : Nat \ {0}]
        /\ [lot : Lot, quantity : Units] \subseteq [lot : Lot, quantity : Nat]
    BY DEF Units
  <2> QED
    BY <1>1, <2>1, SeqMonotonic DEF Allocations, LotRows
<1>3. IsAllocation(b, a, row.received)
  BY <1>1, <1>2, AllocationTakes DEF ReceivedLots
<1>4. b \in Allocations
  <2>1. b \in Seq([lot : Lot, quantity : 1..row.received])
    BY <1>3 DEF IsAllocation
  <2> DEFINE S == [lot : Lot, quantity : 1..row.received]
  <2>2. S \subseteq [lot : Lot, quantity : Nat]
    BY <1>1
  <2>3. b \in Seq(S)
    BY <2>1
  <2> HIDE DEF a, b, S
  <2> QED
    BY <2>2, <2>3, SeqMonotonic DEF Allocations
<1>5. row.received = 0 => Len(b) = 0
  BY <1>2, <1>3, AllocationOfNone
<1>6. LotOutside(row, l) = UnitsOf(a, l) - UnitsOf(b, l)
  BY DEF LotOutside
<1> HIDE DEF a, b
<1>7. UnitsOf(a, l) \in Nat /\ UnitsOf(b, l) \in Nat /\ (Len(b) = 0 => UnitsOf(b, l) = 0)
  BY <1>2, <1>4, UnitsOfNat
<1>8. LotOutside(row, l) \in Int /\ (row.received = 0 => LotOutside(row, l) = UnitsOf(a, l))
  BY <1>5, <1>6, <1>7
<1> QED
  BY <1>2, <1>8 DEF a

LEMMA TransfersChange ==
  ASSUME Given, NEW x \in [Transfer -> TransferRow], NEW y \in [Transfer -> TransferRow],
         NEW t \in Transfer, \A p \in Transfer : p # t => y[p] = x[p]
  PROVE  /\ OutsideOf(x) \in Int
         /\ OutsideOf(y) = OutsideOf(x) + ((y[t].quantity - y[t].received)
                                             - (x[t].quantity - x[t].received))
         /\ \A l \in Lot :
              /\ LotOutsideOf(x, l) \in Int
              /\ LotOutside(x[t], l) \in Int /\ LotOutside(y[t], l) \in Int
              /\ LotOutsideOf(y, l) = LotOutsideOf(x, l) + (LotOutside(y[t], l) - LotOutside(x[t], l))
<1>1. NumTransfers \in Nat /\ Transfer = 1..NumTransfers
  BY DEF Given, TransfersAssumption, Transfer
<1>2. \A p \in Transfer : /\ x[p] \in TransferRow /\ y[p] \in TransferRow
                          /\ x[p].quantity \in Nat /\ y[p].quantity \in Nat
                          /\ x[p].received \in Nat /\ y[p].received \in Nat
  BY DEF TransferRow
<1>3. /\ OutsideOf(x) \in Int
      /\ OutsideOf(y) = OutsideOf(x) + ((y[t].quantity - y[t].received)
                                          - (x[t].quantity - x[t].received))
  <2> DEFINE f == [p \in Transfer |-> x[p].quantity - x[p].received]
             g == [p \in Transfer |-> y[p].quantity - y[p].received]
  <2>1. \A p \in 1..NumTransfers : /\ f[p] = x[p].quantity - x[p].received
                                   /\ g[p] = y[p].quantity - y[p].received
    BY <1>1
  <2>2. Total(f, NumTransfers) = OutsideOf(x) /\ Total(g, NumTransfers) = OutsideOf(y)
    BY DEF OutsideOf
  <2> HIDE DEF f, g
  <2>3. \A p \in 1..NumTransfers : f[p] \in Int /\ g[p] \in Int /\ (p # t => g[p] = f[p])
    <3> SUFFICES ASSUME NEW p \in 1..NumTransfers
                 PROVE  f[p] \in Int /\ g[p] \in Int /\ (p # t => g[p] = f[p])
      OBVIOUS
    <3>1. /\ x[p].quantity \in Nat /\ x[p].received \in Nat
          /\ y[p].quantity \in Nat /\ y[p].received \in Nat
          /\ f[p] = x[p].quantity - x[p].received /\ g[p] = y[p].quantity - y[p].received
      BY <1>1, <1>2, <2>1
    <3>2. p # t => y[p] = x[p]
      BY <1>1
    <3> QED
      BY ONLY <3>1, <3>2
  <2>4. Total(f, NumTransfers) \in Int
        /\ Total(g, NumTransfers) = Total(f, NumTransfers) + (g[t] - f[t])
    BY <1>1, <2>3, ColumnChanges
  <2> QED
    BY <1>1, <2>1, <2>2, <2>4
<1>4. ASSUME NEW l \in Lot
      PROVE  /\ LotOutsideOf(x, l) \in Int
             /\ LotOutside(x[t], l) \in Int /\ LotOutside(y[t], l) \in Int
             /\ LotOutsideOf(y, l) = LotOutsideOf(x, l) + (LotOutside(y[t], l) - LotOutside(x[t], l))
  <2> DEFINE f == [p \in Transfer |-> LotOutside(x[p], l)]
             g == [p \in Transfer |-> LotOutside(y[p], l)]
  <2>1. \A p \in 1..NumTransfers : f[p] = LotOutside(x[p], l) /\ g[p] = LotOutside(y[p], l)
    BY <1>1
  <2>2. Total(f, NumTransfers) = LotOutsideOf(x, l) /\ Total(g, NumTransfers) = LotOutsideOf(y, l)
    BY DEF LotOutsideOf
  <2> HIDE DEF f, g
  <2>3. \A p \in 1..NumTransfers : f[p] \in Int /\ g[p] \in Int /\ (p # t => g[p] = f[p])
    <3>1. \A p \in Transfer : LotOutside(x[p], l) \in Int /\ LotOutside(y[p], l) \in Int
      BY <1>2, OutsideIsUnits
    <3>2. \A p \in Transfer : p # t => LotOutside(y[p], l) = LotOutside(x[p], l)
      OBVIOUS
    <3> QED
      BY ONLY <1>1, <2>1, <3>1, <3>2
  <2>4. Total(f, NumTransfers) \in Int
        /\ Total(g, NumTransfers) = Total(f, NumTransfers) + (g[t] - f[t])
    BY <1>1, <2>3, ColumnChanges
  <2> QED
    BY <1>1, <2>1, <2>2, <2>3, <2>4
<1> QED
  BY <1>3, <1>4

-----------------------------------------------------------------------------
(* The inductive invariant *)

LotTypes ==
  /\ product \in [tracked : BOOLEAN, update : {"none", "on", "off"}]
  /\ known \in 0..NumLots /\ expires \in [Lot -> Expiries]
  /\ stock \in [Warehouse -> StockRow]
  /\ orders \in [Order -> OrderRow]
  /\ moved \in [MovementType -> Nat]
  /\ lotUnits \in [Lot -> Int]
  /\ transfers \in [Transfer -> TransferRow]

\* The counters of a warehouse are what its open orders reserved and picked,
\* and an order is empty until it is opened.
Counters ==
  /\ \A w \in Warehouse : /\ stock[w].picked = PickedOf(orders, w)
                          /\ stock[w].reserved = ReservedOf(orders, w)
                          /\ stock[w].reserved <= stock[w].onHand
  /\ \A o \in Order :
       /\ orders[o].status = "none" => orders[o] = NoOrder
       /\ Open(o) => /\ orders[o].warehouse \in Warehouse
                     /\ orders[o].picked <= orders[o].reserved

\* A transfer is empty until it is sent, and nothing of it is received before
\* it is received.
Roads ==
  \A t \in Transfer :
    /\ transfers[t].status = "none" => transfers[t] = NoTransfer
    /\ InTransit(t) => transfers[t].to \in Warehouse /\ transfers[t].received = 0

LotInv == LotTypes /\ Counters /\ Roads /\ UnitsConserved /\ LotsTraceableAcross

\* While the tracking is settled, what is on the road has all of its lots too.
RoadHoldsItsLots ==
  product.tracked =>
    \A t \in Transfer :
      InTransit(t) => Allocated(transfers[t].allocations) = transfers[t].quantity

HoldsLots == LotsOnShelves /\ OrdersHoldTheirLots /\ RoadHoldsItsLots

\* These are the types of the rows.
LEMMA TypesGiveRows == LotTypes => TransfersTypeOK
BY DEF LotTypes, TransfersTypeOK, LotStockTypeOK, StockRow, OrderRow, TransferRow

\* The two balances, by the sums above.
LEMMA Balances ==
  /\ UnitsConserved <=>
       moved["adjustment_increase"] - moved["adjustment_decrease"] - moved["order_shipment"] =
         OnHandOf(stock) + OutsideOf(transfers)
  /\ LotsTraceableAcross <=>
       \A l \in Lot : lotUnits[l] = ShelvesOf(stock, l) + InOrdersOf(orders, l)
                                      + LotOutsideOf(transfers, l)
<1>1. OutsideOf(transfers) = Total([t \in Transfer |-> UnitsOutside(t)], NumTransfers)
  BY DEF OutsideOf, UnitsOutside
<1>2. \A l : LotOutsideOf(transfers, l) = Total([t \in Transfer |-> LotUnitsOutside(t, l)], NumTransfers)
  BY DEF LotOutsideOf, LotOutside, LotUnitsOutside
<1>3. \A l : ShelvesOf(stock, l) = LotUnitsOnShelves(l) /\ InOrdersOf(orders, l) = LotUnitsInOrders(l)
  BY DEF ShelvesOf, LotUnitsOnShelves, InOrdersOf, LotUnitsInOrders
<1>4. OnHandOf(stock) = Total([w \in Warehouse |-> stock[w].onHand], NumWarehouses)
  BY DEF OnHandOf
<1>5. UnitsConserved <=>
        moved["adjustment_increase"] - moved["adjustment_decrease"] - moved["order_shipment"] =
          OnHandOf(stock) + OutsideOf(transfers)
  BY <1>1, <1>4 DEF UnitsConserved
<1>6. LotsTraceableAcross <=>
        \A l \in Lot : lotUnits[l] = ShelvesOf(stock, l) + InOrdersOf(orders, l)
                                       + LotOutsideOf(transfers, l)
  BY <1>2, <1>3 DEF LotsTraceableAcross
<1> QED
  BY <1>5, <1>6

\* The same after a step, without the operators that hide the variables.
LEMMA BalancesAfter ==
  /\ UnitsConserved' <=>
       moved'["adjustment_increase"] - moved'["adjustment_decrease"] - moved'["order_shipment"] =
         OnHandOf(stock') + OutsideOf(transfers')
  /\ LotsTraceableAcross' <=>
       \A l \in Lot : lotUnits'[l] = ShelvesOf(stock', l) + InOrdersOf(orders', l)
                                       + LotOutsideOf(transfers', l)
<1>1. OutsideOf(transfers') = Total([t \in Transfer |-> UnitsOutside(t)'], NumTransfers)
  BY DEF OutsideOf, UnitsOutside
<1>2. \A l : LotOutsideOf(transfers', l) = Total([t \in Transfer |-> LotUnitsOutside(t, l)'], NumTransfers)
  BY DEF LotOutsideOf, LotOutside, LotUnitsOutside
<1>3. \A l : /\ ShelvesOf(stock', l) = LotUnitsOnShelves(l)'
             /\ InOrdersOf(orders', l) = LotUnitsInOrders(l)'
  BY DEF ShelvesOf, LotUnitsOnShelves, InOrdersOf, LotUnitsInOrders
<1>4. OnHandOf(stock') = Total([w \in Warehouse |-> stock'[w].onHand], NumWarehouses)
  BY DEF OnHandOf
<1>5. UnitsConserved' <=>
        moved'["adjustment_increase"] - moved'["adjustment_decrease"] - moved'["order_shipment"] =
          OnHandOf(stock') + OutsideOf(transfers')
  BY <1>1, <1>4 DEF UnitsConserved
<1>6. LotsTraceableAcross' <=>
        \A l \in Lot : lotUnits'[l] = ShelvesOf(stock', l) + InOrdersOf(orders', l)
                                        + LotOutsideOf(transfers', l)
  BY <1>2, <1>3 DEF LotsTraceableAcross
<1> QED
  BY <1>5, <1>6

\* The types, row by row.
LEMMA RowsTyped ==
  ASSUME Given, LotTypes
  PROVE  /\ \A w \in Warehouse :
              /\ stock[w].onHand \in Nat /\ stock[w].reserved \in Nat /\ stock[w].picked \in Nat
              /\ stock[w].lots \in LotRow /\ stock[w] \in StockRow
         /\ \A o \in Order :
              /\ orders[o].reserved \in Nat /\ orders[o].picked \in Nat
              /\ orders[o].lots \in LotRow /\ orders[o] \in OrderRow
         /\ \A t \in Transfer :
              /\ transfers[t].quantity \in Nat /\ transfers[t].received \in Nat
              /\ transfers[t] \in TransferRow
         /\ \A m \in MovementType : moved[m] \in Nat
         /\ \A k \in Lot : lotUnits[k] \in Int
         /\ expires \in [Lot -> Nat] /\ LotsAssumption
<1>1. \A w \in Warehouse : stock[w] \in StockRow
  BY DEF LotTypes
<1>2. \A o \in Order : orders[o] \in OrderRow
  BY DEF LotTypes
<1>3. \A t \in Transfer : transfers[t] \in TransferRow
  BY DEF LotTypes
<1>4. /\ \A m \in MovementType : moved[m] \in Nat
      /\ \A k \in Lot : lotUnits[k] \in Int
      /\ expires \in [Lot -> Nat] /\ LotsAssumption
  BY DEF LotTypes, Given, LotStockAssumption
<1>5. \A w \in Warehouse :
        /\ stock[w].onHand \in Nat /\ stock[w].reserved \in Nat /\ stock[w].picked \in Nat
        /\ stock[w].lots \in LotRow
  BY <1>1 DEF StockRow
<1>6. \A o \in Order :
        orders[o].reserved \in Nat /\ orders[o].picked \in Nat /\ orders[o].lots \in LotRow
  BY <1>2 DEF OrderRow
<1>7. \A t \in Transfer : transfers[t].quantity \in Nat /\ transfers[t].received \in Nat
  BY <1>3 DEF TransferRow
<1> QED
  BY <1>1, <1>2, <1>3, <1>4, <1>5, <1>6, <1>7

\* What leaves the lots of a warehouse.
LEMMA LotsLeave ==
  ASSUME Given, LotTypes, NEW w \in Warehouse, NEW q \in Units, NEW l, NEW a,
         a = LotsTaken(w, q, l)
  PROVE  /\ a \in Seq([lot : Lot, quantity : Units]) /\ a \in Allocations
         /\ TakenFrom(stock[w].lots, a) \in LotRow
         /\ \A k \in Lot : /\ UnitsOf(a, k) \in Nat
                           /\ TakenFrom(stock[w].lots, a)[k] = stock[w].lots[k] - UnitsOf(a, k)
         /\ Allocated(a) \in Nat /\ Total(stock[w].lots, NumLots) \in Nat
         /\ Total(TakenFrom(stock[w].lots, a), NumLots) =
              Total(stock[w].lots, NumLots) - Allocated(a)
<1>1. stock[w].lots \in LotRow /\ expires \in [Lot -> Nat] /\ LotsAssumption /\ q \in Nat
  BY RowsTyped DEF Units
<1>2. a \in Seq([lot : Lot, quantity : 1..q]) /\ Takes(a, stock[w].lots)
  BY <1>1, WarehouseGives
<1>3. a \in Seq([lot : Lot, quantity : Units])
  <2> DEFINE S == [lot : Lot, quantity : 1..q]
             U == [lot : Lot, quantity : Units]
  <2>1. S \subseteq U
    BY DEF Given, LotStockAssumption, Units
  <2>2. a \in Seq(S)
    BY <1>2
  <2> HIDE DEF S, U
  <2>3. a \in Seq(U)
    BY ONLY <2>1, <2>2, SeqMonotonic
  <2> QED
    BY <2>3 DEF U
<1>4. a \in Allocations /\ \A k \in Lot : UnitsOf(a, k) \in Nat
  BY <1>2, UnitsOfNat DEF Takes
<1> QED
  BY <1>1, <1>2, <1>3, <1>4, LotsMove

LEMMA SumsTyped ==
  ASSUME Given, LotTypes
  PROVE  /\ OnHandOf(stock) \in Int /\ OutsideOf(transfers) \in Int
         /\ \A l \in Lot : /\ ShelvesOf(stock, l) \in Int /\ InOrdersOf(orders, l) \in Int
                           /\ LotOutsideOf(transfers, l) \in Int
<1>1. /\ NumWarehouses \in Nat /\ Warehouse = 1..NumWarehouses
      /\ NumOrders \in Nat /\ Order = 1..NumOrders
      /\ NumTransfers \in Nat /\ Transfer = 1..NumTransfers
  BY DEF Given, LotStockAssumption, TransfersAssumption, Warehouse, Order, Transfer
<1>2. OnHandOf(stock) \in Int
  <2> DEFINE f == [w \in Warehouse |-> stock[w].onHand]
  <2>1. \A i \in 1..NumWarehouses : f[i] \in Int
    BY <1>1, RowsTyped
  <2> HIDE DEF f
  <2>2. Total(f, NumWarehouses) \in Int
    BY <1>1, <2>1, SumInt
  <2> QED
    BY <2>2 DEF OnHandOf, f
<1>3. OutsideOf(transfers) \in Int
  <2> DEFINE f == [t \in Transfer |-> transfers[t].quantity - transfers[t].received]
  <2>1. \A i \in 1..NumTransfers : f[i] \in Int
    BY <1>1, RowsTyped
  <2> HIDE DEF f
  <2>2. Total(f, NumTransfers) \in Int
    BY <1>1, <2>1, SumInt
  <2> QED
    BY <2>2 DEF OutsideOf, f
<1>4. ASSUME NEW l \in Lot
      PROVE  /\ ShelvesOf(stock, l) \in Int /\ InOrdersOf(orders, l) \in Int
             /\ LotOutsideOf(transfers, l) \in Int
  <2> DEFINE f == [w \in Warehouse |-> stock[w].lots[l]]
             g == [o \in Order |-> orders[o].lots[l]]
             h == [t \in Transfer |-> LotOutside(transfers[t], l)]
  <2>1. \A i \in 1..NumWarehouses : f[i] \in Int
    BY <1>1, RowsTyped DEF LotRow
  <2>2. \A i \in 1..NumOrders : g[i] \in Int
    BY <1>1, RowsTyped DEF LotRow
  <2>3. \A i \in 1..NumTransfers : h[i] \in Int
    <3>1. \A t \in Transfer : LotOutside(transfers[t], l) \in Int
      BY RowsTyped, OutsideIsUnits
    <3> QED
      BY <1>1, <3>1
  <2> HIDE DEF f, g, h
  <2>4. /\ Total(f, NumWarehouses) \in Int /\ Total(g, NumOrders) \in Int
        /\ Total(h, NumTransfers) \in Int
    BY <1>1, <2>1, <2>2, <2>3, SumInt
  <2> QED
    BY <2>4 DEF ShelvesOf, InOrdersOf, LotOutsideOf, f, g, h
<1> QED
  BY <1>2, <1>3, <1>4


-----------------------------------------------------------------------------
(* What each action keeps *)

\* A step that leaves the orders and what they have of the counters alone.
LEMMA CountersKept ==
  ASSUME Counters, orders' = orders,
         \A v \in Warehouse : /\ stock'[v].picked = stock[v].picked
                              /\ stock'[v].reserved = stock[v].reserved
                              /\ stock'[v].reserved <= stock'[v].onHand
  PROVE  Counters'
BY DEF Counters, Open

LEMMA RoadsKept == ASSUME Roads, transfers' = transfers PROVE Roads'
BY DEF Roads, InTransit

LEMMA DecreaseKeeps ==
  ASSUME Given, LotInv, NEW w \in Warehouse, NEW q \in Units, NEW l,
         DecreaseStock(w, q, l), UNCHANGED transfers
  PROVE  LotInv' /\ (HoldsLots => HoldsLots')
<1> DEFINE a == LotsTaken(w, q, l)
<1>1. LotTypes /\ Counters /\ Roads /\ UnitsConserved /\ LotsTraceableAcross
  BY DEF LotInv
<1>2. a \in Allocations /\ TakenFrom(stock[w].lots, a) \in LotRow
  BY <1>1, LotsLeave
<1>3. /\ stock' = [stock EXCEPT ![w].onHand = @ - q, ![w].lots = TakenFrom(@, a)]
      /\ lotUnits' = TakenFrom(lotUnits, a)
      /\ moved' = [moved EXCEPT !["adjustment_decrease"] = @ + q]
      /\ product' = product /\ known' = known /\ expires' = expires
      /\ orders' = orders /\ transfers' = transfers
      /\ q <= stock[w].onHand - stock[w].reserved /\ Served(a, q, l)
  BY DEF DecreaseStock, Available, Moved
<1> HIDE DEF a
<1>4. q \in Nat
  BY DEF Units
<1>5. /\ stock'[w].onHand = stock[w].onHand - q
      /\ stock'[w].reserved = stock[w].reserved /\ stock'[w].picked = stock[w].picked
      /\ stock'[w].lots = TakenFrom(stock[w].lots, a)
      /\ \A v \in Warehouse : v # w => stock'[v] = stock[v]
      /\ stock' \in [Warehouse -> StockRow]
  <2>1. stock \in [Warehouse -> StockRow] /\ stock[w] \in StockRow
    BY <1>1 DEF LotTypes
  <2>2. stock[w].onHand - q \in Nat
    BY <1>1, <1>3, <1>4, RowsTyped
  <2> QED
    BY <1>2, <1>3, <2>1, <2>2 DEF StockRow
<1>6. LotTypes'
  <2>1. moved' \in [MovementType -> Nat]
    BY <1>1, <1>3, <1>4, RowsTyped DEF LotTypes, MovementType
  <2>2. lotUnits' \in [Lot -> Int]
    <3>1. \A k \in Lot : lotUnits[k] - UnitsOf(a, k) \in Int
      BY <1>1, <1>2, RowsTyped, UnitsOfNat
    <3> QED
      BY <1>3, <3>1 DEF TakenFrom
  <2> QED
    BY <1>1, <1>3, <1>5, <2>1, <2>2 DEF LotTypes
<1>7. Counters'
  <2>1. \A v \in Warehouse : /\ stock'[v].picked = stock[v].picked
                             /\ stock'[v].reserved = stock[v].reserved
                             /\ stock'[v].reserved <= stock'[v].onHand
    <3>1. stock[w].reserved <= stock[w].onHand - q
      BY <1>1, <1>3, <1>4, RowsTyped
    <3> QED
      BY <1>1, <1>5, <3>1 DEF Counters
  <2> QED
    BY <1>1, <1>3, <2>1, CountersKept
<1>8. OnHandOf(stock') = OnHandOf(stock) - q /\ OnHandOf(stock) \in Int
  <2>1. stock \in [Warehouse -> StockRow] /\ stock[w].onHand \in Nat
    BY <1>1, RowsTyped DEF LotTypes
  <2>2. OnHandOf(stock) \in Int
        /\ OnHandOf(stock') = OnHandOf(stock) + (stock'[w].onHand - stock[w].onHand)
    BY <1>5, <2>1, StockChanges
  <2> QED
    BY <1>4, <1>5, <2>1, <2>2
<1>9. ASSUME NEW k \in Lot
      PROVE  /\ lotUnits'[k] = lotUnits[k] - UnitsOf(a, k) /\ lotUnits[k] \in Int
             /\ ShelvesOf(stock', k) = ShelvesOf(stock, k) - UnitsOf(a, k)
             /\ ShelvesOf(stock, k) \in Int /\ UnitsOf(a, k) \in Nat
  <2>1. stock \in [Warehouse -> StockRow]
    BY <1>1 DEF LotTypes
  <2>2. /\ ShelvesOf(stock, k) \in Int
        /\ ShelvesOf(stock', k) = ShelvesOf(stock, k) + (stock'[w].lots[k] - stock[w].lots[k])
    BY <1>5, <2>1, StockChanges
  <2>3. UnitsOf(a, k) \in Nat /\ stock'[w].lots[k] = stock[w].lots[k] - UnitsOf(a, k)
    BY <1>1, <1>5, LotsLeave DEF a
  <2>4. stock[w].lots[k] \in Nat /\ lotUnits[k] \in Int
    BY <1>1, RowsTyped DEF LotRow
  <2> QED
    BY <1>3, <2>2, <2>3, <2>4 DEF TakenFrom
<1>10. UnitsConserved'
  <2>1. moved'["adjustment_increase"] - moved'["adjustment_decrease"] - moved'["order_shipment"] =
          moved["adjustment_increase"] - moved["adjustment_decrease"] - moved["order_shipment"] - q
    BY <1>1, <1>3, <1>4, RowsTyped DEF LotTypes, MovementType
  <2> QED
    BY <1>1, <1>3, <1>4, <1>8, <2>1, SumsTyped, Balances, BalancesAfter
<1>11. LotsTraceableAcross'
  <2>1. ASSUME NEW k \in Lot
        PROVE  lotUnits'[k] = ShelvesOf(stock', k) + InOrdersOf(orders', k)
                                + LotOutsideOf(transfers', k)
    <3>1. lotUnits[k] = ShelvesOf(stock, k) + InOrdersOf(orders, k) + LotOutsideOf(transfers, k)
      BY <1>1, Balances
    <3>2. InOrdersOf(orders, k) \in Int /\ LotOutsideOf(transfers, k) \in Int
      BY <1>1, SumsTyped
    <3>3. /\ InOrdersOf(orders', k) = InOrdersOf(orders, k)
          /\ LotOutsideOf(transfers', k) = LotOutsideOf(transfers, k)
      BY <1>3
    <3>4. /\ lotUnits'[k] = lotUnits[k] - UnitsOf(a, k) /\ lotUnits[k] \in Int
          /\ ShelvesOf(stock', k) = ShelvesOf(stock, k) - UnitsOf(a, k)
          /\ ShelvesOf(stock, k) \in Int /\ UnitsOf(a, k) \in Nat
      BY <1>9
    <3> QED
      BY ONLY <3>1, <3>2, <3>3, <3>4
  <2> QED
    BY <2>1, BalancesAfter
<1>12. ASSUME HoldsLots PROVE HoldsLots'
  <2> SUFFICES ASSUME product.tracked PROVE HoldsLots'
    BY <1>3 DEF HoldsLots, LotsOnShelves, OrdersHoldTheirLots, RoadHoldsItsLots
  <2>1. LotsOnShelves /\ OrdersHoldTheirLots' /\ RoadHoldsItsLots'
    BY <1>3, <1>12 DEF HoldsLots, OrdersHoldTheirLots, RoadHoldsItsLots, Open, InTransit
  <2>2. Total(stock'[w].lots, NumLots) = Total(stock[w].lots, NumLots) - q
    BY <1>1, <1>3, <1>5, LotsLeave DEF Served, a
  <2>3. Total(stock'[w].lots, NumLots) = stock'[w].onHand - stock'[w].picked
    BY <1>1, <1>4, <1>5, <2>1, <2>2, RowsTyped DEF LotsOnShelves
  <2>4. LotsOnShelves'
    BY <1>5, <2>1, <2>3 DEF LotsOnShelves
  <2> QED
    BY <2>1, <2>4 DEF HoldsLots
<1> QED
  BY <1>6, <1>7, <1>10, <1>11, <1>12, <1>1, <1>3, RoadsKept DEF LotInv

\* What enters a lot.
LEMMA LotsEnter ==
  ASSUME Given, NEW q \in Units, NEW l \in Lot \union {NoLot}, NEW a,
         a = (IF l = NoLot THEN <<>> ELSE <<[lot |-> l, quantity |-> q]>>)
  PROVE  /\ a \in Allocations /\ Allocated(a) = IF l = NoLot THEN 0 ELSE q
         /\ \A k : UnitsOf(a, k) \in Nat
<1>1. q \in Nat /\ LotsAssumption
  BY DEF Units, Given
<1>2. ASSUME l = NoLot PROVE a \in Allocations /\ Allocated(a) = 0
  BY <1>1, <1>2, NothingTaken
<1>3. ASSUME l # NoLot PROVE a \in Allocations /\ Allocated(a) = q
  <2>1. a = <<[lot |-> l, quantity |-> q]>> /\ l \in Lot
    BY <1>3
  <2>2. a \in Allocations
    <3> DEFINE row == [lot |-> l, quantity |-> q]
               Row == [lot : Lot, quantity : Nat]
    <3>1. row \in Row /\ a = <<row>>
      BY <1>1, <2>1
    <3> HIDE DEF row, Row
    <3>2. a \in Seq(Row)
      BY <3>1
    <3> QED
      BY <3>2 DEF Row, Allocations
  <2>3. Len(a) = 1 /\ UnitsIn(a)[1] = q
    BY <2>1 DEF UnitsIn
  <2>4. \A i \in 1..1 : UnitsIn(a)[i] \in Int
    BY <1>1, <2>3
  <2>5. Total(UnitsIn(a), 1) = Total(UnitsIn(a), 0) + q
    BY <2>3, <2>4, SumStep
  <2>6. Total(UnitsIn(a), 1) = q
    BY <1>1, <2>5, SumZero
  <2>7. Allocated(a) = Total(UnitsIn(a), Len(a))
    BY <2>2, UnitsOfNat
  <2> QED
    BY <2>2, <2>3, <2>6, <2>7
<1> QED
  BY <1>2, <1>3, UnitsOfNat

LEMMA IncreaseKeeps ==
  ASSUME Given, LotInv, NEW w \in Warehouse, NEW q \in Units, NEW l \in Lot \union {NoLot},
         NEW e \in Expiries, IncreaseStock(w, q, l, e), UNCHANGED transfers
  PROVE  LotInv' /\ (HoldsLots => HoldsLots')
<1> DEFINE a == IF l = NoLot THEN <<>> ELSE <<[lot |-> l, quantity |-> q]>>
<1>1. LotTypes /\ Counters /\ Roads /\ UnitsConserved /\ LotsTraceableAcross
  BY DEF LotInv
<1>2. /\ a \in Allocations /\ Allocated(a) = IF l = NoLot THEN 0 ELSE q
      /\ \A k : UnitsOf(a, k) \in Nat
  BY LotsEnter
<1>3. /\ stock' = [stock EXCEPT ![w].onHand = @ + q, ![w].lots = AddToLots(@, a)]
      /\ lotUnits' = AddToLots(lotUnits, a)
      /\ moved' = [moved EXCEPT !["adjustment_increase"] = @ + q]
      /\ product' = product /\ orders' = orders /\ transfers' = transfers
      /\ product.tracked => l # NoLot
  BY LotIsFinite DEF IncreaseStock, Moved, Receivable, Lot, NoLot
<1>4. known' \in 0..NumLots /\ expires' \in [Lot -> Expiries]
  <2>1. known \in 0..NumLots /\ expires \in [Lot -> Expiries] /\ NumLots \in Nat
    BY <1>1 DEF LotTypes, Given, LotsAssumption
  <2>2. known' = Greatest(known, l)
        /\ expires' = IF l # NoLot /\ e # NoExpiry THEN [expires EXCEPT ![l] = e] ELSE expires
    BY DEF IncreaseStock, Resolve
  <2>3. l \in 0..NumLots
    BY <2>1 DEF Lot, NoLot
  <2> QED
    BY <2>1, <2>2, <2>3 DEF Greatest
<1> HIDE DEF a
<1>5. q \in Nat /\ AddToLots(stock[w].lots, a) \in LotRow
  BY <1>1, <1>2, RowsTyped, LotsMove DEF Units
<1>6. /\ stock'[w].onHand = stock[w].onHand + q
      /\ stock'[w].reserved = stock[w].reserved /\ stock'[w].picked = stock[w].picked
      /\ stock'[w].lots = AddToLots(stock[w].lots, a)
      /\ \A v \in Warehouse : v # w => stock'[v] = stock[v]
      /\ stock' \in [Warehouse -> StockRow]
  <2>1. stock \in [Warehouse -> StockRow] /\ stock[w] \in StockRow
    BY <1>1 DEF LotTypes
  <2>2. stock[w].onHand + q \in Nat
    BY <1>1, <1>5, RowsTyped
  <2> QED
    BY <1>3, <1>5, <2>1, <2>2 DEF StockRow
<1>7. LotTypes'
  <2>1. moved' \in [MovementType -> Nat]
    BY <1>1, <1>3, <1>5, RowsTyped DEF LotTypes, MovementType
  <2>2. lotUnits' \in [Lot -> Int]
    <3>1. \A k \in Lot : lotUnits[k] + UnitsOf(a, k) \in Int
      BY <1>1, <1>2, RowsTyped
    <3> QED
      BY <1>3, <3>1 DEF AddToLots
  <2> QED
    BY <1>1, <1>3, <1>4, <1>6, <2>1, <2>2 DEF LotTypes
<1>8. Counters'
  <2>1. \A v \in Warehouse : /\ stock'[v].picked = stock[v].picked
                             /\ stock'[v].reserved = stock[v].reserved
                             /\ stock'[v].reserved <= stock'[v].onHand
    <3>1. stock[w].reserved <= stock[w].onHand + q
      BY <1>1, <1>5, RowsTyped DEF Counters
    <3> QED
      BY <1>1, <1>6, <3>1 DEF Counters
  <2> QED
    BY <1>1, <1>3, <2>1, CountersKept
<1>9. OnHandOf(stock') = OnHandOf(stock) + q /\ OnHandOf(stock) \in Int
  <2>1. stock \in [Warehouse -> StockRow] /\ stock[w].onHand \in Nat
    BY <1>1, RowsTyped DEF LotTypes
  <2>2. OnHandOf(stock) \in Int
        /\ OnHandOf(stock') = OnHandOf(stock) + (stock'[w].onHand - stock[w].onHand)
    BY <1>6, <2>1, StockChanges
  <2> QED
    BY <1>5, <1>6, <2>1, <2>2
<1>10. UnitsConserved'
  <2>1. moved'["adjustment_increase"] - moved'["adjustment_decrease"] - moved'["order_shipment"] =
          moved["adjustment_increase"] - moved["adjustment_decrease"] - moved["order_shipment"] + q
    BY <1>1, <1>3, <1>5, RowsTyped DEF LotTypes, MovementType
  <2> QED
    BY <1>1, <1>3, <1>5, <1>9, <2>1, SumsTyped, Balances, BalancesAfter
<1>11. LotsTraceableAcross'
  <2>1. ASSUME NEW k \in Lot
        PROVE  lotUnits'[k] = ShelvesOf(stock', k) + InOrdersOf(orders', k)
                                + LotOutsideOf(transfers', k)
    <3>1. lotUnits[k] = ShelvesOf(stock, k) + InOrdersOf(orders, k) + LotOutsideOf(transfers, k)
      BY <1>1, Balances
    <3>2. /\ ShelvesOf(stock, k) \in Int /\ InOrdersOf(orders, k) \in Int
          /\ LotOutsideOf(transfers, k) \in Int /\ lotUnits[k] \in Int /\ UnitsOf(a, k) \in Nat
      BY <1>1, <1>2, RowsTyped, SumsTyped
    <3>3. /\ InOrdersOf(orders', k) = InOrdersOf(orders, k)
          /\ LotOutsideOf(transfers', k) = LotOutsideOf(transfers, k)
          /\ lotUnits'[k] = lotUnits[k] + UnitsOf(a, k)
      BY <1>3 DEF AddToLots
    <3>4. ShelvesOf(stock', k) = ShelvesOf(stock, k) + UnitsOf(a, k)
      <4>1. stock \in [Warehouse -> StockRow] /\ stock[w].lots[k] \in Nat
        BY <1>1, RowsTyped DEF LotTypes, LotRow
      <4>2. ShelvesOf(stock', k) = ShelvesOf(stock, k) + (stock'[w].lots[k] - stock[w].lots[k])
        BY <1>6, <4>1, StockChanges
      <4>3. stock'[w].lots[k] = stock[w].lots[k] + UnitsOf(a, k)
        BY <1>6 DEF AddToLots
      <4> QED
        BY <3>2, <4>1, <4>2, <4>3
    <3> QED
      BY ONLY <3>1, <3>2, <3>3, <3>4
  <2> QED
    BY <2>1, BalancesAfter
<1>12. ASSUME HoldsLots PROVE HoldsLots'
  <2> SUFFICES ASSUME product.tracked PROVE HoldsLots'
    BY <1>3 DEF HoldsLots, LotsOnShelves, OrdersHoldTheirLots, RoadHoldsItsLots
  <2>1. LotsOnShelves /\ OrdersHoldTheirLots' /\ RoadHoldsItsLots'
    BY <1>3, <1>12 DEF HoldsLots, OrdersHoldTheirLots, RoadHoldsItsLots, Open, InTransit
  <2>2. Total(stock'[w].lots, NumLots) = Total(stock[w].lots, NumLots) + q
    BY <1>1, <1>2, <1>3, <1>6, RowsTyped, LotsMove
  <2>3. Total(stock'[w].lots, NumLots) = stock'[w].onHand - stock'[w].picked
    BY <1>1, <1>5, <1>6, <2>1, <2>2, RowsTyped DEF LotsOnShelves
  <2>4. LotsOnShelves'
    BY <1>6, <2>1, <2>3 DEF LotsOnShelves
  <2> QED
    BY <2>1, <2>4 DEF HoldsLots
<1> QED
  BY <1>1, <1>3, <1>7, <1>8, <1>10, <1>11, <1>12, RoadsKept DEF LotInv

LEMMA ReserveKeeps ==
  ASSUME Given, LotInv, NEW o \in Order, NEW w \in Warehouse, NEW q \in Units,
         Reserve(o, w, q), UNCHANGED transfers
  PROVE  LotInv' /\ (HoldsLots => HoldsLots')
<1>1. LotTypes /\ Counters /\ Roads /\ UnitsConserved /\ LotsTraceableAcross
  BY DEF LotInv
<1>2. /\ orders[o].status = "none" /\ q <= stock[w].onHand - stock[w].reserved
      /\ orders' = [orders EXCEPT ![o] =
           [NoOrder EXCEPT !.warehouse = w, !.reserved = q, !.status = "open"]]
      /\ stock' = [stock EXCEPT ![w].reserved = @ + q]
      /\ product' = product /\ known' = known /\ expires' = expires /\ moved' = moved
      /\ lotUnits' = lotUnits /\ transfers' = transfers
  BY DEF Reserve, Available
<1>3. q \in Nat /\ NoLotUnits \in LotRow /\ \A k \in Lot : NoLotUnits[k] = 0
  BY DEF Units, NoLotUnits, LotRow
<1>4. /\ stock'[w].onHand = stock[w].onHand /\ stock'[w].lots = stock[w].lots
      /\ stock'[w].reserved = stock[w].reserved + q /\ stock'[w].picked = stock[w].picked
      /\ \A v \in Warehouse : v # w => stock'[v] = stock[v]
      /\ stock' \in [Warehouse -> StockRow]
  <2>1. stock \in [Warehouse -> StockRow] /\ stock[w] \in StockRow
    BY <1>1 DEF LotTypes
  <2>2. stock[w].reserved + q \in Nat
    BY <1>1, <1>3, RowsTyped
  <2> QED
    BY <1>2, <2>1, <2>2 DEF StockRow
<1>5. /\ orders'[o].warehouse = w /\ orders'[o].reserved = q /\ orders'[o].picked = 0
      /\ orders'[o].lots = NoLotUnits /\ orders'[o].status = "open"
      /\ \A p \in Order : p # o => orders'[p] = orders[p]
      /\ orders' \in [Order -> OrderRow]
  <2> DEFINE row == [NoOrder EXCEPT !.warehouse = w, !.reserved = q, !.status = "open"]
  <2>1. orders \in [Order -> OrderRow]
    BY <1>1 DEF LotTypes
  <2>2. /\ row.warehouse = w /\ row.reserved = q /\ row.picked = 0
        /\ row.lots = NoLotUnits /\ row.status = "open"
    BY DEF NoOrder
  <2>3. row \in OrderRow
    <3>1. NoOrder \in OrderRow
      BY <1>3 DEF NoOrder, OrderRow
    <3> QED
      BY <1>3, <3>1 DEF OrderRow
  <2>4. orders' = [orders EXCEPT ![o] = row]
    BY <1>2
  <2> HIDE DEF row
  <2> QED
    BY <2>1, <2>2, <2>3, <2>4
<1>6. LotTypes'
  BY <1>1, <1>2, <1>4, <1>5 DEF LotTypes
<1>7. /\ orders[o] = NoOrder /\ orders[o].lots = NoLotUnits
      /\ \A v : PickedPart(orders[o], v) = 0 /\ ReservedPart(orders[o], v) = 0
  <2>1. orders[o] = NoOrder
    BY <1>1, <1>2 DEF Counters
  <2> QED
    BY <2>1 DEF NoOrder, PickedPart, ReservedPart
<1>8. ASSUME NEW v \in Warehouse
      PROVE  /\ PickedOf(orders', v) = PickedOf(orders, v)
             /\ ReservedOf(orders', v) = ReservedOf(orders, v) + IF v = w THEN q ELSE 0
  <2>1. /\ PickedPart(orders'[o], v) = 0
        /\ ReservedPart(orders'[o], v) = IF v = w THEN q ELSE 0
    BY <1>5 DEF PickedPart, ReservedPart
  <2>2. orders \in [Order -> OrderRow]
    BY <1>1 DEF LotTypes
  <2>3. /\ PickedOf(orders', v) =
             PickedOf(orders, v) + (PickedPart(orders'[o], v) - PickedPart(orders[o], v))
        /\ ReservedOf(orders', v) =
             ReservedOf(orders, v) + (ReservedPart(orders'[o], v) - ReservedPart(orders[o], v))
    BY <1>5, <2>2, OrdersChange
  <2>4. PickedOf(orders, v) \in Nat /\ ReservedOf(orders, v) \in Nat
    BY <1>1, RowsTyped DEF Counters
  <2> QED
    BY <1>3, <1>7, <2>1, <2>3, <2>4
<1>9. Counters'
  <2>1. ASSUME NEW v \in Warehouse
        PROVE  /\ stock'[v].picked = PickedOf(orders', v)
               /\ stock'[v].reserved = ReservedOf(orders', v)
               /\ stock'[v].reserved <= stock'[v].onHand
    <3>1. /\ stock[v].picked = PickedOf(orders, v)
          /\ stock[v].reserved = ReservedOf(orders, v)
          /\ stock[v].reserved <= stock[v].onHand
      BY <1>1 DEF Counters
    <3>2. /\ stock'[v].picked = stock[v].picked /\ stock'[v].onHand = stock[v].onHand
          /\ stock'[v].reserved = stock[v].reserved + IF v = w THEN q ELSE 0
      BY <1>1, <1>4, RowsTyped
    <3>3. v = w => stock[v].reserved + q <= stock[v].onHand
      BY <1>1, <1>2, <1>3, RowsTyped
    <3>4. stock[v].reserved \in Nat
      BY <1>1, RowsTyped
    <3> QED
      BY <1>8, <3>1, <3>2, <3>3, <3>4
  <2>2. \A p \in Order :
          /\ orders'[p].status = "none" => orders'[p] = NoOrder
          /\ orders'[p].status = "open" => /\ orders'[p].warehouse \in Warehouse
                                          /\ orders'[p].picked <= orders'[p].reserved
    BY <1>1, <1>3, <1>5 DEF Counters, Open
  <2> QED
    BY <2>1, <2>2 DEF Counters, Open
<1>10. OnHandOf(stock') = OnHandOf(stock)
       /\ \A k \in Lot : ShelvesOf(stock', k) = ShelvesOf(stock, k)
  <2>1. stock \in [Warehouse -> StockRow] /\ stock[w].onHand \in Nat
        /\ \A k \in Lot : stock[w].lots[k] \in Nat
    BY <1>1, RowsTyped DEF LotTypes, LotRow
  <2>2. OnHandOf(stock) \in Int
        /\ OnHandOf(stock') = OnHandOf(stock) + (stock'[w].onHand - stock[w].onHand)
        /\ \A k \in Lot :
             /\ ShelvesOf(stock, k) \in Int
             /\ ShelvesOf(stock', k) = ShelvesOf(stock, k) + (stock'[w].lots[k] - stock[w].lots[k])
    BY <1>4, <2>1, StockChanges
  <2> QED
    BY <1>4, <2>1, <2>2
<1>11. \A k \in Lot : InOrdersOf(orders', k) = InOrdersOf(orders, k)
  <2>1. orders \in [Order -> OrderRow]
    BY <1>1 DEF LotTypes
  <2>2. \A k \in Lot :
          /\ InOrdersOf(orders, k) \in Int
          /\ InOrdersOf(orders', k) = InOrdersOf(orders, k) + (orders'[o].lots[k] - orders[o].lots[k])
    BY <1>5, <2>1, OrdersChange
  <2> QED
    BY <1>3, <1>5, <1>7, <2>2
<1>12. UnitsConserved'
  BY <1>1, <1>2, <1>10, Balances, BalancesAfter
<1>13. LotsTraceableAcross'
  BY <1>1, <1>2, <1>10, <1>11, Balances, BalancesAfter
<1>14. ASSUME HoldsLots PROVE HoldsLots'
  <2> SUFFICES ASSUME product.tracked PROVE HoldsLots'
    BY <1>2 DEF HoldsLots, LotsOnShelves, OrdersHoldTheirLots, RoadHoldsItsLots
  <2>1. LotsOnShelves'
    BY <1>4, <1>14 DEF HoldsLots, LotsOnShelves
  <2>2. OrdersHoldTheirLots'
    <3>1. Total(orders'[o].lots, NumLots) = orders'[o].picked
      <4>1. NumLots \in Nat /\ \A i \in 1..NumLots : NoLotUnits[i] = 0
        BY <1>3 DEF Given, LotsAssumption, Lot
      <4> QED
        BY <1>5, <4>1, SumOfZeros
    <3>2. \A p \in Order : p # o /\ orders[p].status = "open"
            => Total(orders[p].lots, NumLots) = orders[p].picked
      BY <1>14 DEF HoldsLots, OrdersHoldTheirLots, Open
    <3> QED
      BY <1>5, <3>1, <3>2 DEF OrdersHoldTheirLots, Open
  <2>3. RoadHoldsItsLots'
    BY <1>2, <1>14 DEF HoldsLots, RoadHoldsItsLots, InTransit
  <2> QED
    BY <2>1, <2>2, <2>3 DEF HoldsLots
<1> QED
  BY <1>1, <1>2, <1>6, <1>9, <1>12, <1>13, <1>14, RoadsKept DEF LotInv

\* A step of an open order that moves units between it and its warehouse, or
\* out of both.
LEMMA OrderStep ==
  ASSUME Given, LotInv, NEW o \in Order, NEW w \in Warehouse, Open(o), orders[o].warehouse = w,
         stock' \in [Warehouse -> StockRow], orders' \in [Order -> OrderRow],
         moved' \in [MovementType -> Nat],
         \A v \in Warehouse : v # w => stock'[v] = stock[v],
         \A p \in Order : p # o => orders'[p] = orders[p],
         UNCHANGED <<product, known, expires, lotUnits, transfers>>,
         orders'[o].warehouse = w, orders'[o].status # "none",
         orders'[o].status = "open" => orders'[o].picked <= orders'[o].reserved,
         stock'[w].picked - stock[w].picked =
           PickedPart(orders'[o], w) - PickedPart(orders[o], w),
         stock'[w].reserved - stock[w].reserved =
           ReservedPart(orders'[o], w) - ReservedPart(orders[o], w),
         stock'[w].reserved <= stock'[w].onHand,
         moved'["adjustment_increase"] - moved'["adjustment_decrease"] - moved'["order_shipment"] =
           moved["adjustment_increase"] - moved["adjustment_decrease"] - moved["order_shipment"]
             + (stock'[w].onHand - stock[w].onHand),
         \A k \in Lot : stock'[w].lots[k] + orders'[o].lots[k] =
                          stock[w].lots[k] + orders[o].lots[k]
  PROVE  /\ LotInv'
         /\ HoldsLots /\ product.tracked
              /\ Total(stock'[w].lots, NumLots) = stock'[w].onHand - stock'[w].picked
              /\ (orders'[o].status = "open"
                    => Total(orders'[o].lots, NumLots) = orders'[o].picked)
            => HoldsLots'
         /\ ~product.tracked => HoldsLots'
<1>1. LotTypes /\ Counters /\ Roads /\ UnitsConserved /\ LotsTraceableAcross
  BY DEF LotInv
<1>2. product' = product /\ known' = known /\ expires' = expires /\ lotUnits' = lotUnits
      /\ transfers' = transfers
  OBVIOUS
<1>3. LotTypes'
  BY <1>1, <1>2 DEF LotTypes
<1>4. LotTypes' => /\ \A v \in Warehouse : /\ stock'[v].picked \in Nat /\ stock'[v].reserved \in Nat
                                          /\ stock'[v].onHand \in Nat /\ stock'[v].lots \in LotRow
                   /\ \A p \in Order : orders'[p].lots \in LotRow
  <2>1. \A v \in Warehouse : stock'[v] \in StockRow
    OBVIOUS
  <2>2. \A p \in Order : orders'[p] \in OrderRow
    OBVIOUS
  <2> QED
    BY <2>1, <2>2 DEF StockRow, OrderRow
<1>5. ASSUME NEW v \in Warehouse
      PROVE  /\ stock'[v].picked = PickedOf(orders', v)
             /\ stock'[v].reserved = ReservedOf(orders', v)
             /\ stock'[v].reserved <= stock'[v].onHand
  <2>1. orders \in [Order -> OrderRow]
    BY <1>1 DEF LotTypes
  <2>2. /\ PickedOf(orders', v) =
             PickedOf(orders, v) + (PickedPart(orders'[o], v) - PickedPart(orders[o], v))
        /\ ReservedOf(orders', v) =
             ReservedOf(orders, v) + (ReservedPart(orders'[o], v) - ReservedPart(orders[o], v))
        /\ PickedPart(orders[o], v) \in Nat /\ PickedPart(orders'[o], v) \in Nat
        /\ ReservedPart(orders[o], v) \in Nat /\ ReservedPart(orders'[o], v) \in Nat
    BY <2>1, OrdersChange
  <2>3. /\ stock[v].picked = PickedOf(orders, v)
        /\ stock[v].reserved = ReservedOf(orders, v)
        /\ stock[v].reserved <= stock[v].onHand
    BY <1>1 DEF Counters
  <2>4. /\ stock[v].picked \in Nat /\ stock[v].reserved \in Nat
        /\ stock'[v].picked \in Nat /\ stock'[v].reserved \in Nat
    BY <1>1, <1>3, <1>4, RowsTyped
  <2>5. ASSUME v # w PROVE /\ PickedPart(orders'[o], v) = PickedPart(orders[o], v)
                           /\ ReservedPart(orders'[o], v) = ReservedPart(orders[o], v)
                           /\ stock'[v] = stock[v]
    BY <2>5 DEF PickedPart, ReservedPart
  <2>6. ASSUME v # w PROVE /\ stock'[v].picked = PickedOf(orders', v)
                           /\ stock'[v].reserved = ReservedOf(orders', v)
                           /\ stock'[v].reserved <= stock'[v].onHand
    BY ONLY <2>2, <2>3, <2>4, <2>5, <2>6
  <2>7. ASSUME v = w PROVE /\ stock'[v].picked = PickedOf(orders', v)
                           /\ stock'[v].reserved = ReservedOf(orders', v)
                           /\ stock'[v].reserved <= stock'[v].onHand
    <3>1. /\ stock'[v].picked - stock[v].picked =
               PickedPart(orders'[o], v) - PickedPart(orders[o], v)
          /\ stock'[v].reserved - stock[v].reserved =
               ReservedPart(orders'[o], v) - ReservedPart(orders[o], v)
          /\ stock'[v].reserved <= stock'[v].onHand
      BY <2>7
    <3> QED
      BY ONLY <2>2, <2>3, <2>4, <3>1
  <2> QED
    BY <2>6, <2>7
<1>6. Counters'
  <2>1. \A p \in Order :
          /\ orders'[p].status = "none" => orders'[p] = NoOrder
          /\ orders'[p].status = "open" => /\ orders'[p].warehouse \in Warehouse
                                          /\ orders'[p].picked <= orders'[p].reserved
    BY <1>1 DEF Counters, Open
  <2> QED
    BY <1>5, <2>1 DEF Counters, Open
<1>7. UnitsConserved'
  <2>1. stock \in [Warehouse -> StockRow] /\ stock[w].onHand \in Nat /\ stock'[w].onHand \in Nat
    BY <1>1, <1>3, <1>4, RowsTyped DEF LotTypes
  <2>2. OnHandOf(stock) \in Int
        /\ OnHandOf(stock') = OnHandOf(stock) + (stock'[w].onHand - stock[w].onHand)
    BY <2>1, StockChanges
  <2>3. moved["adjustment_increase"] - moved["adjustment_decrease"] - moved["order_shipment"] =
          OnHandOf(stock) + OutsideOf(transfers)
    BY <1>1, Balances
  <2>4. OutsideOf(transfers) \in Int /\ OutsideOf(transfers') = OutsideOf(transfers)
    BY <1>1, <1>2, SumsTyped
  <2>5. moved'["adjustment_increase"] - moved'["adjustment_decrease"] - moved'["order_shipment"] =
          OnHandOf(stock') + OutsideOf(transfers')
    BY <2>1, <2>2, <2>3, <2>4
  <2> QED
    BY <2>5, BalancesAfter
<1>8. LotsTraceableAcross'
  <2>1. ASSUME NEW k \in Lot
        PROVE  lotUnits'[k] = ShelvesOf(stock', k) + InOrdersOf(orders', k)
                                + LotOutsideOf(transfers', k)
    <3>1. lotUnits[k] = ShelvesOf(stock, k) + InOrdersOf(orders, k) + LotOutsideOf(transfers, k)
      BY <1>1, Balances
    <3>2. /\ ShelvesOf(stock, k) \in Int /\ InOrdersOf(orders, k) \in Int
          /\ LotOutsideOf(transfers, k) \in Int
      BY <1>1, SumsTyped
    <3>3. LotOutsideOf(transfers', k) = LotOutsideOf(transfers, k) /\ lotUnits'[k] = lotUnits[k]
      BY <1>2
    <3>4. stock \in [Warehouse -> StockRow] /\ orders \in [Order -> OrderRow]
      BY <1>1 DEF LotTypes
    <3>5. ShelvesOf(stock', k) = ShelvesOf(stock, k) + (stock'[w].lots[k] - stock[w].lots[k])
      BY <3>4, StockChanges
    <3>6. InOrdersOf(orders', k) = InOrdersOf(orders, k) + (orders'[o].lots[k] - orders[o].lots[k])
      BY <3>4, OrdersChange
    <3>7. /\ stock[w].lots[k] \in Nat /\ stock'[w].lots[k] \in Nat
          /\ orders[o].lots[k] \in Nat /\ orders'[o].lots[k] \in Nat
      BY <1>1, <1>3, <1>4, RowsTyped DEF LotRow
    <3>8. stock'[w].lots[k] + orders'[o].lots[k] = stock[w].lots[k] + orders[o].lots[k]
      OBVIOUS
    <3> QED
      BY ONLY <3>1, <3>2, <3>3, <3>5, <3>6, <3>7, <3>8
  <2> QED
    BY <2>1, BalancesAfter
<1>9. LotInv'
  BY <1>1, <1>2, <1>3, <1>6, <1>7, <1>8, RoadsKept DEF LotInv
<1>10. ASSUME HoldsLots, product.tracked,
              Total(stock'[w].lots, NumLots) = stock'[w].onHand - stock'[w].picked,
              orders'[o].status = "open" => Total(orders'[o].lots, NumLots) = orders'[o].picked
       PROVE  HoldsLots'
  <2>1. LotsOnShelves'
    BY <1>10 DEF HoldsLots, LotsOnShelves
  <2>2. OrdersHoldTheirLots'
    BY <1>10 DEF HoldsLots, OrdersHoldTheirLots, Open
  <2>3. RoadHoldsItsLots'
    BY <1>2, <1>10 DEF HoldsLots, RoadHoldsItsLots, InTransit
  <2> QED
    BY <2>1, <2>2, <2>3 DEF HoldsLots
<1>11. ~product.tracked => HoldsLots'
  BY <1>2 DEF HoldsLots, LotsOnShelves, OrdersHoldTheirLots, RoadHoldsItsLots
<1> QED
  BY <1>9, <1>10, <1>11

\* What leaves the lots of an order.
LEMMA LotsGoBack ==
  ASSUME Given, LotTypes, NEW o \in Order, NEW q \in Nat, NEW l, NEW a,
         a = LotsReturned(o, q, l) \/ a = <<>>
  PROVE  /\ a \in Allocations /\ Allocated(a) \in Nat
         /\ TakenFrom(orders[o].lots, a) \in LotRow
         /\ \A k \in Lot : /\ UnitsOf(a, k) \in Nat
                           /\ TakenFrom(orders[o].lots, a)[k] = orders[o].lots[k] - UnitsOf(a, k)
         /\ Total(orders[o].lots, NumLots) \in Nat
         /\ Total(TakenFrom(orders[o].lots, a), NumLots) =
              Total(orders[o].lots, NumLots) - Allocated(a)
<1>1. orders[o].lots \in LotRow /\ expires \in [Lot -> Nat] /\ LotsAssumption
  BY RowsTyped
<1>2. Takes(a, orders[o].lots)
  BY <1>1, OrderGives, NothingTaken
<1>3. a \in Allocations /\ \A k \in Lot : UnitsOf(a, k) \in Nat
  BY <1>2, UnitsOfNat DEF Takes
<1> QED
  BY <1>1, <1>2, <1>3, LotsMove

LEMMA PickKeeps ==
  ASSUME Given, LotInv, NEW o \in Order, NEW q \in Units, NEW l,
         Pick(o, q, l), UNCHANGED transfers
  PROVE  LotInv' /\ (HoldsLots => HoldsLots')
<1> DEFINE w == orders[o].warehouse
           a == LotsTaken(w, q, l)
<1>1. LotTypes /\ Counters
  BY DEF LotInv
<1>2. /\ Open(o) /\ orders[o].status = "open" /\ orders[o].picked + q <= orders[o].reserved
      /\ stock' = [stock EXCEPT ![w].picked = @ + q, ![w].lots = TakenFrom(@, a)]
      /\ orders' = [orders EXCEPT ![o].picked = @ + q, ![o].lots = AddToLots(@, a)]
      /\ UNCHANGED <<product, known, expires, moved, lotUnits, transfers>>
      /\ Served(a, q, l)
  BY DEF Pick, Open
<1>3. w \in Warehouse /\ q \in Nat
  BY <1>1, <1>2 DEF Counters, Units
<1>4. /\ stock[w].onHand \in Nat /\ stock[w].reserved \in Nat /\ stock[w].picked \in Nat
      /\ stock[w].lots \in LotRow /\ stock[w] \in StockRow /\ stock \in [Warehouse -> StockRow]
      /\ orders[o].reserved \in Nat /\ orders[o].picked \in Nat /\ orders[o].lots \in LotRow
      /\ orders[o] \in OrderRow /\ orders \in [Order -> OrderRow] /\ LotsAssumption
  BY <1>1, <1>3, RowsTyped DEF LotTypes
<1>5. /\ a \in Allocations /\ TakenFrom(stock[w].lots, a) \in LotRow /\ Allocated(a) \in Nat
      /\ Total(stock[w].lots, NumLots) \in Nat
      /\ Total(TakenFrom(stock[w].lots, a), NumLots) = Total(stock[w].lots, NumLots) - Allocated(a)
      /\ \A k \in Lot : /\ UnitsOf(a, k) \in Nat
                        /\ TakenFrom(stock[w].lots, a)[k] = stock[w].lots[k] - UnitsOf(a, k)
  <2>1. a = LotsTaken(w, q, l)
    OBVIOUS
  <2>2. Given /\ LotTypes /\ w \in Warehouse /\ q \in Units
    BY <1>1, <1>3
  <2> HIDE DEF a, w
  <2> QED
    BY ONLY <2>1, <2>2, LotsLeave
<1> HIDE DEF a
<1>6. /\ AddToLots(orders[o].lots, a) \in LotRow /\ Total(orders[o].lots, NumLots) \in Nat
      /\ Total(AddToLots(orders[o].lots, a), NumLots) = Total(orders[o].lots, NumLots) + Allocated(a)
      /\ \A k \in Lot : AddToLots(orders[o].lots, a)[k] = orders[o].lots[k] + UnitsOf(a, k)
  BY <1>4, <1>5, LotsMove
<1> HIDE DEF w
<1>7. /\ stock'[w].onHand = stock[w].onHand
      /\ stock'[w].reserved = stock[w].reserved /\ stock'[w].picked = stock[w].picked + q
      /\ stock'[w].lots = TakenFrom(stock[w].lots, a)
      /\ \A v \in Warehouse : v # w => stock'[v] = stock[v]
      /\ stock' \in [Warehouse -> StockRow]
  <2>1. stock[w].picked + q \in Nat
    BY <1>3, <1>4
  <2> QED
    BY <1>2, <1>3, <1>4, <1>5, <2>1 DEF StockRow
<1>8. /\ orders'[o].warehouse = orders[o].warehouse /\ orders'[o].reserved = orders[o].reserved
      /\ orders'[o].picked = orders[o].picked + q /\ orders'[o].status = orders[o].status
      /\ orders'[o].lots = AddToLots(orders[o].lots, a)
      /\ \A p \in Order : p # o => orders'[p] = orders[p]
      /\ orders' \in [Order -> OrderRow]
  <2>1. orders[o].picked + q \in Nat
    BY <1>3, <1>4
  <2> QED
    BY <1>2, <1>4, <1>6, <2>1 DEF OrderRow
<1>9. /\ PickedPart(orders[o], w) = orders[o].picked
      /\ ReservedPart(orders[o], w) = orders[o].reserved
      /\ PickedPart(orders'[o], w) = orders[o].picked + q
      /\ ReservedPart(orders'[o], w) = orders[o].reserved
  BY <1>2, <1>8 DEF PickedPart, ReservedPart, w
<1>10. /\ stock'[w].picked - stock[w].picked =
            PickedPart(orders'[o], w) - PickedPart(orders[o], w)
       /\ stock'[w].reserved - stock[w].reserved =
            ReservedPart(orders'[o], w) - ReservedPart(orders[o], w)
  BY <1>3, <1>4, <1>7, <1>9
<1>11. stock'[w].reserved <= stock'[w].onHand
  BY <1>1, <1>3, <1>7 DEF Counters
<1>12. \A k \in Lot : stock'[w].lots[k] + orders'[o].lots[k] = stock[w].lots[k] + orders[o].lots[k]
  <2>1. ASSUME NEW k \in Lot
        PROVE  stock'[w].lots[k] + orders'[o].lots[k] = stock[w].lots[k] + orders[o].lots[k]
    <3>1. stock[w].lots[k] \in Nat /\ orders[o].lots[k] \in Nat
      BY <1>4 DEF LotRow
    <3> QED
      BY <1>5, <1>6, <1>7, <1>8, <3>1
  <2> QED
    BY <2>1
<1>13. /\ moved' \in [MovementType -> Nat]
       /\ moved'["adjustment_increase"] - moved'["adjustment_decrease"] - moved'["order_shipment"] =
            moved["adjustment_increase"] - moved["adjustment_decrease"] - moved["order_shipment"]
              + (stock'[w].onHand - stock[w].onHand)
  <2>1. \A m \in MovementType : moved[m] \in Nat
    BY <1>1, RowsTyped
  <2> QED
    BY <1>1, <1>2, <1>4, <1>7, <2>1 DEF LotTypes, MovementType
<1>14. orders[o].warehouse = w
  BY DEF w
<1>15. /\ orders'[o].warehouse = w /\ orders'[o].status # "none"
       /\ orders'[o].status = "open" => orders'[o].picked <= orders'[o].reserved
  BY <1>2, <1>8, <1>14
<1>16. ASSUME HoldsLots, product.tracked
       PROVE  /\ Total(stock'[w].lots, NumLots) = stock'[w].onHand - stock'[w].picked
              /\ Total(orders'[o].lots, NumLots) = orders'[o].picked
  <2>1. /\ Total(stock[w].lots, NumLots) = stock[w].onHand - stock[w].picked
        /\ Total(orders[o].lots, NumLots) = orders[o].picked /\ Allocated(a) = q
    BY <1>2, <1>3, <1>16 DEF HoldsLots, LotsOnShelves, OrdersHoldTheirLots, Served
  <2> QED
    BY <1>3, <1>4, <1>5, <1>6, <1>7, <1>8, <2>1
<1>17. UNCHANGED <<product, known, expires, lotUnits, transfers>>
  BY <1>2
<1>18. /\ \A v \in Warehouse : v # w => stock'[v] = stock[v]
       /\ stock' \in [Warehouse -> StockRow]
       /\ \A p \in Order : p # o => orders'[p] = orders[p]
       /\ orders' \in [Order -> OrderRow]
  BY <1>7, <1>8
<1>19. Open(o)
  BY <1>2
<1>20. /\ LotInv'
       /\ HoldsLots /\ product.tracked
            /\ Total(stock'[w].lots, NumLots) = stock'[w].onHand - stock'[w].picked
            /\ (orders'[o].status = "open"
                  => Total(orders'[o].lots, NumLots) = orders'[o].picked)
          => HoldsLots'
       /\ ~product.tracked => HoldsLots'
  BY ONLY Given, LotInv, o \in Order, <1>3, <1>10, <1>11, <1>12, <1>13, <1>14, <1>15, <1>17, <1>18,
          <1>19, OrderStep
<1> QED
  BY <1>16, <1>20

\* What an open order has of its warehouse is in the counters.
LEMMA OrderCounted ==
  ASSUME Given, LotInv, NEW o \in Order, Open(o)
  PROVE  /\ orders[o].picked <= stock[orders[o].warehouse].picked
         /\ orders[o].reserved <= stock[orders[o].warehouse].reserved
<1> DEFINE w == orders[o].warehouse
<1>1. LotTypes /\ Counters
  BY DEF LotInv
<1>2. orders \in [Order -> OrderRow] /\ w \in Warehouse
  BY <1>1 DEF LotTypes, Counters
<1>3. PickedPart(orders[o], w) <= PickedOf(orders, w)
      /\ ReservedPart(orders[o], w) <= ReservedOf(orders, w)
  BY <1>2, OrdersChange
<1>4. PickedPart(orders[o], w) = orders[o].picked /\ ReservedPart(orders[o], w) = orders[o].reserved
  BY DEF PickedPart, ReservedPart, Open
<1>5. stock[w].picked = PickedOf(orders, w) /\ stock[w].reserved = ReservedOf(orders, w)
  BY <1>1, <1>2 DEF Counters
<1> QED
  BY <1>3, <1>4, <1>5

LEMMA UnpickKeeps ==
  ASSUME Given, LotInv, NEW o \in Order, NEW q \in Units, NEW l,
         Unpick(o, q, l), UNCHANGED transfers
  PROVE  LotInv' /\ (HoldsLots => HoldsLots')
<1> DEFINE w == orders[o].warehouse
           a == LotsReturned(o, q, l)
<1>1. LotTypes /\ Counters
  BY DEF LotInv
<1>2. /\ Open(o) /\ orders[o].status = "open" /\ q <= orders[o].picked
      /\ stock' = [stock EXCEPT ![w].picked = @ - q, ![w].lots = AddToLots(@, a)]
      /\ orders' = [orders EXCEPT ![o].picked = @ - q, ![o].lots = TakenFrom(@, a)]
      /\ UNCHANGED <<product, known, expires, moved, lotUnits, transfers>>
      /\ Served(a, q, l)
  BY DEF Unpick, Open
<1>3. w \in Warehouse /\ q \in Nat
  BY <1>1, <1>2 DEF Counters, Units
<1>4. /\ stock[w].onHand \in Nat /\ stock[w].reserved \in Nat /\ stock[w].picked \in Nat
      /\ stock[w].lots \in LotRow /\ stock[w] \in StockRow /\ stock \in [Warehouse -> StockRow]
      /\ orders[o].reserved \in Nat /\ orders[o].picked \in Nat /\ orders[o].lots \in LotRow
      /\ orders[o] \in OrderRow /\ orders \in [Order -> OrderRow] /\ LotsAssumption
  BY <1>1, <1>3, RowsTyped DEF LotTypes
<1>5. /\ a \in Allocations /\ TakenFrom(orders[o].lots, a) \in LotRow /\ Allocated(a) \in Nat
      /\ Total(orders[o].lots, NumLots) \in Nat
      /\ Total(TakenFrom(orders[o].lots, a), NumLots) = Total(orders[o].lots, NumLots) - Allocated(a)
      /\ \A k \in Lot : /\ UnitsOf(a, k) \in Nat
                        /\ TakenFrom(orders[o].lots, a)[k] = orders[o].lots[k] - UnitsOf(a, k)
  <2>1. a = LotsReturned(o, q, l)
    OBVIOUS
  <2> HIDE DEF a, w
  <2> QED
    BY <1>1, <1>3, <2>1, LotsGoBack
<1> HIDE DEF a
<1>6. /\ AddToLots(stock[w].lots, a) \in LotRow /\ Total(stock[w].lots, NumLots) \in Nat
      /\ Total(AddToLots(stock[w].lots, a), NumLots) = Total(stock[w].lots, NumLots) + Allocated(a)
      /\ \A k \in Lot : AddToLots(stock[w].lots, a)[k] = stock[w].lots[k] + UnitsOf(a, k)
  BY <1>4, <1>5, LotsMove
<1>7. q <= stock[w].picked
  BY <1>2, <1>3, <1>4, OrderCounted
<1> HIDE DEF w
<1>8. /\ stock'[w].onHand = stock[w].onHand
      /\ stock'[w].reserved = stock[w].reserved /\ stock'[w].picked = stock[w].picked - q
      /\ stock'[w].lots = AddToLots(stock[w].lots, a)
      /\ \A v \in Warehouse : v # w => stock'[v] = stock[v]
      /\ stock' \in [Warehouse -> StockRow]
  <2>1. stock[w].picked - q \in Nat
    BY <1>3, <1>4, <1>7
  <2> QED
    BY <1>2, <1>3, <1>4, <1>6, <2>1 DEF StockRow
<1>9. /\ orders'[o].warehouse = orders[o].warehouse /\ orders'[o].reserved = orders[o].reserved
      /\ orders'[o].picked = orders[o].picked - q /\ orders'[o].status = orders[o].status
      /\ orders'[o].lots = TakenFrom(orders[o].lots, a)
      /\ \A p \in Order : p # o => orders'[p] = orders[p]
      /\ orders' \in [Order -> OrderRow]
  <2>1. orders[o].picked - q \in Nat
    BY <1>2, <1>3, <1>4
  <2> QED
    BY <1>2, <1>4, <1>5, <2>1 DEF OrderRow
<1>10. /\ PickedPart(orders[o], w) = orders[o].picked
      /\ ReservedPart(orders[o], w) = orders[o].reserved
      /\ PickedPart(orders'[o], w) = orders[o].picked - q
      /\ ReservedPart(orders'[o], w) = orders[o].reserved
  BY <1>2, <1>9 DEF PickedPart, ReservedPart, w
<1>11. /\ stock'[w].picked - stock[w].picked =
            PickedPart(orders'[o], w) - PickedPart(orders[o], w)
       /\ stock'[w].reserved - stock[w].reserved =
            ReservedPart(orders'[o], w) - ReservedPart(orders[o], w)
  BY <1>3, <1>4, <1>8, <1>10
<1>12. stock'[w].reserved <= stock'[w].onHand
  BY <1>1, <1>3, <1>8 DEF Counters
<1>13. \A k \in Lot : stock'[w].lots[k] + orders'[o].lots[k] = stock[w].lots[k] + orders[o].lots[k]
  <2>1. ASSUME NEW k \in Lot
        PROVE  stock'[w].lots[k] + orders'[o].lots[k] = stock[w].lots[k] + orders[o].lots[k]
    <3>1. stock[w].lots[k] \in Nat /\ orders[o].lots[k] \in Nat
      BY <1>4 DEF LotRow
    <3> QED
      BY <1>5, <1>6, <1>8, <1>9, <3>1
  <2> QED
    BY <2>1
<1>14. /\ moved' \in [MovementType -> Nat]
       /\ moved'["adjustment_increase"] - moved'["adjustment_decrease"] - moved'["order_shipment"] =
            moved["adjustment_increase"] - moved["adjustment_decrease"] - moved["order_shipment"]
              + (stock'[w].onHand - stock[w].onHand)
  <2>1. \A m \in MovementType : moved[m] \in Nat
    BY <1>1, RowsTyped
  <2> QED
    BY <1>1, <1>2, <1>4, <1>8, <2>1 DEF LotTypes, MovementType
<1>15. orders[o].warehouse = w
  BY DEF w
<1>16. /\ orders'[o].warehouse = w /\ orders'[o].status # "none"
       /\ orders'[o].status = "open" => orders'[o].picked <= orders'[o].reserved
  <2>1. orders[o].picked - q <= orders[o].reserved
    BY <1>1, <1>2, <1>3, <1>4 DEF Counters
  <2> QED
    BY <1>2, <1>9, <1>15, <2>1
<1>17. ASSUME HoldsLots, product.tracked
       PROVE  /\ Total(stock'[w].lots, NumLots) = stock'[w].onHand - stock'[w].picked
              /\ Total(orders'[o].lots, NumLots) = orders'[o].picked
  <2>1. /\ Total(stock[w].lots, NumLots) = stock[w].onHand - stock[w].picked
        /\ Total(orders[o].lots, NumLots) = orders[o].picked /\ Allocated(a) = q
    BY <1>2, <1>3, <1>17 DEF HoldsLots, LotsOnShelves, OrdersHoldTheirLots, Served
  <2> QED
    BY <1>3, <1>4, <1>5, <1>6, <1>8, <1>9, <2>1
<1>18. UNCHANGED <<product, known, expires, lotUnits, transfers>>
  BY <1>2
<1>19. /\ \A v \in Warehouse : v # w => stock'[v] = stock[v]
       /\ stock' \in [Warehouse -> StockRow]
       /\ \A p \in Order : p # o => orders'[p] = orders[p]
       /\ orders' \in [Order -> OrderRow]
  BY <1>8, <1>9
<1>20. Open(o)
  BY <1>2
<1>21. /\ LotInv'
       /\ HoldsLots /\ product.tracked
            /\ Total(stock'[w].lots, NumLots) = stock'[w].onHand - stock'[w].picked
            /\ (orders'[o].status = "open"
                  => Total(orders'[o].lots, NumLots) = orders'[o].picked)
          => HoldsLots'
       /\ ~product.tracked => HoldsLots'
  BY ONLY Given, LotInv, o \in Order, <1>3, <1>11, <1>12, <1>13, <1>14, <1>15, <1>16, <1>18, <1>19,
          <1>20, OrderStep
<1> QED
  BY <1>17, <1>21

LEMMA EndKeeps ==
  ASSUME Given, LotInv, NEW o \in Order, NEW q \in Nat, NEW status \in {"shipped", "cancelled"},
         End(o, q, status), UNCHANGED transfers
  PROVE  LotInv' /\ (HoldsLots => HoldsLots')
<1> DEFINE w == orders[o].warehouse
           rest == orders[o].picked - q
           a == IF rest > 0 THEN LotsReturned(o, rest, NoLot) ELSE <<>>
<1>1. LotTypes /\ Counters
  BY DEF LotInv
<1>2. /\ Open(o) /\ orders[o].status = "open" /\ q <= orders[o].picked
      /\ stock[w].onHand - q >= stock[w].reserved - orders[o].reserved
      /\ rest > 0 => Served(a, rest, NoLot)
      /\ stock' = [stock EXCEPT ![w] =
           [onHand |-> @.onHand - q,
            reserved |-> @.reserved - orders[o].reserved,
            picked |-> Greatest(0, @.picked - orders[o].picked),
            lots |-> AddToLots(@.lots, a)]]
      /\ orders' = [orders EXCEPT ![o].reserved = 0, ![o].status = status,
                                  ![o].lots = TakenFrom(@, a)]
      /\ moved' = [moved EXCEPT !["order_shipment"] = @ + q]
      /\ UNCHANGED <<product, known, expires, lotUnits, transfers>>
  BY DEF End, Open, Moved
<1>3. w \in Warehouse
  BY <1>1, <1>2 DEF Counters
<1>4. /\ stock[w].onHand \in Nat /\ stock[w].reserved \in Nat /\ stock[w].picked \in Nat
      /\ stock[w].lots \in LotRow /\ stock[w] \in StockRow /\ stock \in [Warehouse -> StockRow]
      /\ orders[o].reserved \in Nat /\ orders[o].picked \in Nat /\ orders[o].lots \in LotRow
      /\ orders[o] \in OrderRow /\ orders \in [Order -> OrderRow] /\ LotsAssumption
  BY <1>1, <1>3, RowsTyped DEF LotTypes
<1>5. rest \in Nat /\ (a = LotsReturned(o, rest, NoLot) \/ a = <<>>)
      /\ (rest = 0 => a = <<>>)
  BY <1>2, <1>4
<1>6. /\ a \in Allocations /\ TakenFrom(orders[o].lots, a) \in LotRow /\ Allocated(a) \in Nat
      /\ Total(orders[o].lots, NumLots) \in Nat
      /\ Total(TakenFrom(orders[o].lots, a), NumLots) = Total(orders[o].lots, NumLots) - Allocated(a)
      /\ \A k \in Lot : /\ UnitsOf(a, k) \in Nat
                        /\ TakenFrom(orders[o].lots, a)[k] = orders[o].lots[k] - UnitsOf(a, k)
  <2> HIDE DEF a, w, rest
  <2> QED
    BY <1>1, <1>5, LotsGoBack
<1>7. product.tracked => Allocated(a) = rest
  <2>1. product.tracked /\ rest > 0 => Allocated(a) = rest
    BY <1>2 DEF Served
  <2>2. rest = 0 => Allocated(a) = 0
    BY <1>4, <1>5, NothingTaken
  <2> QED
    BY <1>5, <2>1, <2>2
<1> HIDE DEF a
<1>8. /\ AddToLots(stock[w].lots, a) \in LotRow /\ Total(stock[w].lots, NumLots) \in Nat
      /\ Total(AddToLots(stock[w].lots, a), NumLots) = Total(stock[w].lots, NumLots) + Allocated(a)
      /\ \A k \in Lot : AddToLots(stock[w].lots, a)[k] = stock[w].lots[k] + UnitsOf(a, k)
  BY <1>4, <1>6, LotsMove
<1>9. orders[o].picked <= stock[w].picked /\ orders[o].reserved <= stock[w].reserved
  BY <1>2, OrderCounted
<1>10. rest = orders[o].picked - q
  OBVIOUS
<1> HIDE DEF w, rest
<1>11. /\ stock'[w].onHand = stock[w].onHand - q
       /\ stock'[w].reserved = stock[w].reserved - orders[o].reserved
       /\ stock'[w].picked = stock[w].picked - orders[o].picked
       /\ stock'[w].lots = AddToLots(stock[w].lots, a)
       /\ \A v \in Warehouse : v # w => stock'[v] = stock[v]
       /\ stock' \in [Warehouse -> StockRow]
  <2>1. /\ stock[w].onHand - q \in Nat /\ stock[w].reserved - orders[o].reserved \in Nat
        /\ stock[w].picked - orders[o].picked \in Nat
    BY <1>2, <1>4, <1>9
  <2>2. Greatest(0, stock[w].picked - orders[o].picked) = stock[w].picked - orders[o].picked
    BY <2>1 DEF Greatest
  <2> DEFINE row == [onHand |-> stock[w].onHand - q,
                     reserved |-> stock[w].reserved - orders[o].reserved,
                     picked |-> Greatest(0, stock[w].picked - orders[o].picked),
                     lots |-> AddToLots(stock[w].lots, a)]
  <2>3. row \in StockRow /\ row.onHand = stock[w].onHand - q
        /\ row.reserved = stock[w].reserved - orders[o].reserved
        /\ row.picked = stock[w].picked - orders[o].picked
        /\ row.lots = AddToLots(stock[w].lots, a)
    BY <1>8, <2>1, <2>2 DEF StockRow
  <2>4. stock' = [stock EXCEPT ![w] = row]
    BY <1>2
  <2> HIDE DEF row
  <2> QED
    BY <1>3, <1>4, <2>3, <2>4
<1>12. /\ orders'[o].warehouse = orders[o].warehouse /\ orders'[o].reserved = 0
       /\ orders'[o].picked = orders[o].picked /\ orders'[o].status = status
       /\ orders'[o].lots = TakenFrom(orders[o].lots, a)
       /\ \A p \in Order : p # o => orders'[p] = orders[p]
       /\ orders' \in [Order -> OrderRow]
  BY <1>2, <1>4, <1>6 DEF OrderRow
<1>13. /\ PickedPart(orders[o], w) = orders[o].picked
       /\ ReservedPart(orders[o], w) = orders[o].reserved
       /\ PickedPart(orders'[o], w) = 0 /\ ReservedPart(orders'[o], w) = 0
  BY <1>2, <1>12 DEF PickedPart, ReservedPart, w
<1>14. /\ stock'[w].picked - stock[w].picked =
            PickedPart(orders'[o], w) - PickedPart(orders[o], w)
       /\ stock'[w].reserved - stock[w].reserved =
            ReservedPart(orders'[o], w) - ReservedPart(orders[o], w)
       /\ stock'[w].reserved <= stock'[w].onHand
  BY <1>2, <1>4, <1>11, <1>13
<1>15. \A k \in Lot : stock'[w].lots[k] + orders'[o].lots[k] = stock[w].lots[k] + orders[o].lots[k]
  <2>1. ASSUME NEW k \in Lot
        PROVE  stock'[w].lots[k] + orders'[o].lots[k] = stock[w].lots[k] + orders[o].lots[k]
    <3>1. stock[w].lots[k] \in Nat /\ orders[o].lots[k] \in Nat
      BY <1>4 DEF LotRow
    <3> QED
      BY <1>6, <1>8, <1>11, <1>12, <3>1
  <2> QED
    BY <2>1
<1>16. /\ moved' \in [MovementType -> Nat]
       /\ moved'["adjustment_increase"] - moved'["adjustment_decrease"] - moved'["order_shipment"] =
            moved["adjustment_increase"] - moved["adjustment_decrease"] - moved["order_shipment"]
              + (stock'[w].onHand - stock[w].onHand)
  <2>1. \A m \in MovementType : moved[m] \in Nat
    BY <1>1, RowsTyped
  <2> QED
    BY <1>1, <1>2, <1>4, <1>11, <2>1 DEF LotTypes, MovementType
<1>17. orders[o].warehouse = w
  BY DEF w
<1>18. /\ orders'[o].warehouse = w /\ orders'[o].status # "none" /\ orders'[o].status # "open"
  BY <1>12, <1>17
<1>19. ASSUME HoldsLots, product.tracked
       PROVE  Total(stock'[w].lots, NumLots) = stock'[w].onHand - stock'[w].picked
  <2>1. Total(stock[w].lots, NumLots) = stock[w].onHand - stock[w].picked /\ Allocated(a) = rest
    BY <1>3, <1>7, <1>19 DEF HoldsLots, LotsOnShelves
  <2> QED
    BY <1>4, <1>8, <1>10, <1>11, <2>1
<1>20. /\ UNCHANGED <<product, known, expires, lotUnits, transfers>>
       /\ \A v \in Warehouse : v # w => stock'[v] = stock[v]
       /\ stock' \in [Warehouse -> StockRow]
       /\ \A p \in Order : p # o => orders'[p] = orders[p]
       /\ orders' \in [Order -> OrderRow] /\ Open(o)
       /\ orders'[o].status = "open" => orders'[o].picked <= orders'[o].reserved
  <2>1. UNCHANGED <<product, known, expires, lotUnits, transfers>> /\ Open(o)
    BY <1>2
  <2> QED
    BY <1>11, <1>12, <1>18, <2>1
<1>21. /\ LotInv'
       /\ HoldsLots /\ product.tracked
            /\ Total(stock'[w].lots, NumLots) = stock'[w].onHand - stock'[w].picked
            /\ (orders'[o].status = "open"
                  => Total(orders'[o].lots, NumLots) = orders'[o].picked)
          => HoldsLots'
       /\ ~product.tracked => HoldsLots'
  BY ONLY Given, LotInv, o \in Order, <1>3, <1>14, <1>15, <1>16, <1>17, <1>18, <1>20, OrderStep
<1> QED
  BY <1>18, <1>19, <1>21

\* The switch touches nothing but the product.
LEMMA SwitchKeeps == ASSUME LotInv, Switch, UNCHANGED transfers PROVE LotInv'
<1>1. LotTypes /\ Counters /\ Roads /\ UnitsConserved /\ LotsTraceableAcross
  BY DEF LotInv
<1>2. UNCHANGED <<known, expires, stock, orders, moved, lotUnits, transfers>>
  BY DEF Switch, CheckSwitch, WriteSwitch
<1>3. product' \in [tracked : BOOLEAN, update : {"none", "on", "off"}]
  <2>1. product \in [tracked : BOOLEAN, update : {"none", "on", "off"}]
    BY <1>1 DEF LotTypes
  <2>2. ASSUME CheckSwitch PROVE product' \in [tracked : BOOLEAN, update : {"none", "on", "off"}]
    BY <2>1, <2>2 DEF CheckSwitch
  <2>3. ASSUME WriteSwitch PROVE product' \in [tracked : BOOLEAN, update : {"none", "on", "off"}]
    <3> DEFINE on == product.update = "on"
    <3>1. product' = [tracked |-> on, update |-> "none"] /\ on \in BOOLEAN
      BY <2>3 DEF WriteSwitch
    <3> HIDE DEF on
    <3> QED
      BY <3>1
  <2> QED
    BY <2>2, <2>3 DEF Switch
<1>4. LotTypes' /\ Counters'
  BY <1>1, <1>2, <1>3 DEF LotTypes, Counters, Open
<1>5. UnitsConserved' /\ LotsTraceableAcross'
  BY <1>1, <1>2, Balances, BalancesAfter
<1> QED
  BY <1>1, <1>2, <1>4, <1>5, RoadsKept DEF LotInv

LEMMA DirectKeeps ==
  ASSUME Given, LotInv, NEW v \in Warehouse, NEW w \in Warehouse, NEW q \in Units, NEW l,
         TransferDirect(v, w, q, l)
  PROVE  LotInv' /\ (HoldsLots => HoldsLots')
<1> DEFINE a == LotsTaken(v, q, l)
           mid == [stock' EXCEPT ![w] = stock[w]]
<1>1. LotTypes /\ Counters /\ Roads /\ UnitsConserved /\ LotsTraceableAcross
  BY DEF LotInv
<1>2. /\ v # w /\ q <= stock[v].onHand - stock[v].reserved /\ Served(a, q, l)
      /\ stock' = [stock EXCEPT ![v].onHand = @ - q, ![v].lots = TakenFrom(@, a),
                                ![w].onHand = @ + q, ![w].lots = AddToLots(@, a)]
      /\ moved' = [moved EXCEPT !["transfer_out"] = @ + q, !["transfer_in"] = @ + q]
      /\ UNCHANGED <<product, known, expires, orders, lotUnits, transfers>>
  BY DEF TransferDirect, CanLeave, Available
<1>3. q \in Nat
  BY DEF Units
<1>4. /\ stock[v].onHand \in Nat /\ stock[v].reserved \in Nat /\ stock[v].lots \in LotRow
      /\ stock[w].onHand \in Nat /\ stock[w].reserved \in Nat /\ stock[w].lots \in LotRow
      /\ stock[v] \in StockRow /\ stock[w] \in StockRow /\ stock \in [Warehouse -> StockRow]
      /\ LotsAssumption
  BY <1>1, RowsTyped DEF LotTypes
<1>5. /\ a \in Allocations /\ TakenFrom(stock[v].lots, a) \in LotRow /\ Allocated(a) \in Nat
      /\ Total(stock[v].lots, NumLots) \in Nat
      /\ Total(TakenFrom(stock[v].lots, a), NumLots) = Total(stock[v].lots, NumLots) - Allocated(a)
      /\ \A k \in Lot : /\ UnitsOf(a, k) \in Nat
                        /\ TakenFrom(stock[v].lots, a)[k] = stock[v].lots[k] - UnitsOf(a, k)
  <2>1. a = LotsTaken(v, q, l)
    OBVIOUS
  <2>2. Given /\ LotTypes /\ v \in Warehouse /\ q \in Units
    BY <1>1
  <2> HIDE DEF a
  <2> QED
    BY ONLY <2>1, <2>2, LotsLeave
<1> HIDE DEF a
<1>6. /\ AddToLots(stock[w].lots, a) \in LotRow /\ Total(stock[w].lots, NumLots) \in Nat
      /\ Total(AddToLots(stock[w].lots, a), NumLots) = Total(stock[w].lots, NumLots) + Allocated(a)
      /\ \A k \in Lot : AddToLots(stock[w].lots, a)[k] = stock[w].lots[k] + UnitsOf(a, k)
  BY <1>4, <1>5, LotsMove
<1>7. stock[v].onHand - q \in Nat /\ stock[w].onHand + q \in Nat
  BY <1>2, <1>3, <1>4
<1>8. /\ stock'[v].onHand = stock[v].onHand - q /\ stock'[v].lots = TakenFrom(stock[v].lots, a)
      /\ stock'[v].reserved = stock[v].reserved /\ stock'[v].picked = stock[v].picked
      /\ stock'[w].onHand = stock[w].onHand + q /\ stock'[w].lots = AddToLots(stock[w].lots, a)
      /\ stock'[w].reserved = stock[w].reserved /\ stock'[w].picked = stock[w].picked
      /\ \A x \in Warehouse : x # v /\ x # w => stock'[x] = stock[x]
      /\ stock' \in [Warehouse -> StockRow]
  BY <1>2, <1>4, <1>5, <1>6, <1>7 DEF StockRow
<1>9. /\ mid \in [Warehouse -> StockRow] /\ mid[v] = stock'[v] /\ mid[w] = stock[w]
      /\ \A x \in Warehouse : x # v => mid[x] = stock[x]
      /\ \A x \in Warehouse : x # w => stock'[x] = mid[x]
  BY <1>2, <1>4, <1>8
<1> HIDE DEF mid
<1>10. LotTypes'
  <2>1. moved' \in [MovementType -> Nat]
    BY <1>1, <1>2, <1>3, RowsTyped DEF LotTypes, MovementType
  <2> QED
    BY <1>1, <1>2, <1>8, <2>1 DEF LotTypes
<1>11. Counters'
  <2>1. \A x \in Warehouse : /\ stock'[x].picked = stock[x].picked
                             /\ stock'[x].reserved = stock[x].reserved
                             /\ stock'[x].reserved <= stock'[x].onHand
    <3>1. /\ stock[v].reserved <= stock[v].onHand - q /\ stock[w].reserved <= stock[w].onHand + q
      BY <1>1, <1>2, <1>3, <1>4 DEF Counters
    <3> QED
      BY <1>1, <1>2, <1>8, <3>1 DEF Counters
  <2> QED
    BY <1>1, <1>2, <2>1, CountersKept
<1>12. /\ OnHandOf(stock') = OnHandOf(stock)
       /\ \A k \in Lot : ShelvesOf(stock', k) = ShelvesOf(stock, k)
  <2>1. /\ OnHandOf(stock) \in Int /\ OnHandOf(mid) = OnHandOf(stock) + (mid[v].onHand - stock[v].onHand)
        /\ \A k \in Lot :
             /\ ShelvesOf(stock, k) \in Int
             /\ ShelvesOf(mid, k) = ShelvesOf(stock, k) + (mid[v].lots[k] - stock[v].lots[k])
    BY <1>4, <1>9, StockChanges
  <2>2. /\ OnHandOf(stock') = OnHandOf(mid) + (stock'[w].onHand - mid[w].onHand)
        /\ \A k \in Lot :
             ShelvesOf(stock', k) = ShelvesOf(mid, k) + (stock'[w].lots[k] - mid[w].lots[k])
    BY <1>8, <1>9, StockChanges
  <2>3. mid[w] = stock[w] /\ mid[v] = stock'[v]
    BY <1>9
  <2>4. OnHandOf(stock') = OnHandOf(stock)
    BY <1>3, <1>4, <1>8, <2>1, <2>2, <2>3
  <2>5. ASSUME NEW k \in Lot PROVE ShelvesOf(stock', k) = ShelvesOf(stock, k)
    <3>1. stock[v].lots[k] \in Nat /\ stock[w].lots[k] \in Nat /\ UnitsOf(a, k) \in Nat
      BY <1>4, <1>5 DEF LotRow
    <3>2. /\ mid[v].lots[k] = stock[v].lots[k] - UnitsOf(a, k) /\ mid[w].lots[k] = stock[w].lots[k]
          /\ stock'[w].lots[k] = stock[w].lots[k] + UnitsOf(a, k)
      BY <1>5, <1>6, <1>8, <2>3
    <3>3. /\ ShelvesOf(stock, k) \in Int
          /\ ShelvesOf(mid, k) = ShelvesOf(stock, k) + (mid[v].lots[k] - stock[v].lots[k])
          /\ ShelvesOf(stock', k) = ShelvesOf(mid, k) + (stock'[w].lots[k] - mid[w].lots[k])
      BY <2>1, <2>2
    <3> QED
      BY ONLY <3>1, <3>2, <3>3
  <2> QED
    BY <2>4, <2>5
<1>13. UnitsConserved' /\ LotsTraceableAcross'
  <2>1. /\ moved'["adjustment_increase"] = moved["adjustment_increase"]
        /\ moved'["adjustment_decrease"] = moved["adjustment_decrease"]
        /\ moved'["order_shipment"] = moved["order_shipment"]
    BY <1>1, <1>2 DEF LotTypes, MovementType
  <2>2. orders' = orders /\ lotUnits' = lotUnits /\ transfers' = transfers
    BY <1>2
  <2> QED
    BY <1>1, <1>12, <2>1, <2>2, Balances, BalancesAfter
<1>14. ASSUME HoldsLots PROVE HoldsLots'
  <2> SUFFICES ASSUME product.tracked PROVE HoldsLots'
    BY <1>2 DEF HoldsLots, LotsOnShelves, OrdersHoldTheirLots, RoadHoldsItsLots
  <2>1. LotsOnShelves /\ OrdersHoldTheirLots' /\ RoadHoldsItsLots'
    BY <1>2, <1>14 DEF HoldsLots, OrdersHoldTheirLots, RoadHoldsItsLots, Open, InTransit
  <2>2. Allocated(a) = q
    BY <1>2 DEF Served
  <2>3. /\ Total(stock[v].lots, NumLots) = stock[v].onHand - stock[v].picked
        /\ Total(stock[w].lots, NumLots) = stock[w].onHand - stock[w].picked
        /\ stock[v].picked \in Nat /\ stock[w].picked \in Nat
    BY <1>1, <2>1, RowsTyped DEF LotsOnShelves
  <2>4. /\ Total(stock'[v].lots, NumLots) = stock'[v].onHand - stock'[v].picked
        /\ Total(stock'[w].lots, NumLots) = stock'[w].onHand - stock'[w].picked
    BY <1>3, <1>4, <1>5, <1>6, <1>8, <2>2, <2>3
  <2>5. LotsOnShelves'
    BY <1>8, <2>1, <2>4 DEF LotsOnShelves
  <2> QED
    BY <2>1, <2>5 DEF HoldsLots
<1> QED
  BY <1>1, <1>2, <1>10, <1>11, <1>13, <1>14, RoadsKept DEF LotInv

LEMMA SendKeeps ==
  ASSUME Given, LotInv, NEW t \in Transfer, NEW v \in Warehouse, NEW w \in Warehouse,
         NEW q \in Units, NEW l, Send(t, v, w, q, l)
  PROVE  LotInv' /\ (HoldsLots => HoldsLots')
<1> DEFINE a == LotsTaken(v, q, l)
           row == [NoTransfer EXCEPT !.from = v, !.to = w, !.quantity = q,
                                     !.allocations = a, !.status = "in_transit"]
<1>1. LotTypes /\ Counters /\ Roads /\ UnitsConserved /\ LotsTraceableAcross
  BY DEF LotInv
<1>2. /\ transfers[t].status = "none"
      /\ q <= stock[v].onHand - stock[v].reserved /\ Served(a, q, l)
      /\ stock' = [stock EXCEPT ![v].onHand = @ - q, ![v].lots = TakenFrom(@, a)]
      /\ transfers' = [transfers EXCEPT ![t] = row]
      /\ moved' = [moved EXCEPT !["transfer_out"] = @ + q]
      /\ UNCHANGED <<product, known, expires, orders, lotUnits>>
  BY DEF Send, CanLeave, Available, Moved
<1>3. q \in Nat
  BY DEF Units
<1>4. /\ stock[v].onHand \in Nat /\ stock[v].reserved \in Nat /\ stock[v].lots \in LotRow
      /\ stock[v] \in StockRow /\ stock \in [Warehouse -> StockRow]
      /\ transfers \in [Transfer -> TransferRow] /\ LotsAssumption
  BY <1>1, RowsTyped DEF LotTypes
<1>5. /\ a \in Seq([lot : Lot, quantity : Units])
      /\ a \in Allocations /\ TakenFrom(stock[v].lots, a) \in LotRow /\ Allocated(a) \in Nat
      /\ Total(stock[v].lots, NumLots) \in Nat
      /\ Total(TakenFrom(stock[v].lots, a), NumLots) = Total(stock[v].lots, NumLots) - Allocated(a)
      /\ \A k \in Lot : /\ UnitsOf(a, k) \in Nat
                        /\ TakenFrom(stock[v].lots, a)[k] = stock[v].lots[k] - UnitsOf(a, k)
  <2>1. a = LotsTaken(v, q, l)
    OBVIOUS
  <2>2. Given /\ LotTypes /\ v \in Warehouse /\ q \in Units
    BY <1>1
  <2> HIDE DEF a
  <2> QED
    BY ONLY <2>1, <2>2, LotsLeave
<1> HIDE DEF a
<1>6. /\ row.quantity = q /\ row.received = 0 /\ row.allocations = a /\ row.to = w
      /\ row.status = "in_transit" /\ row \in TransferRow
  <2>1. /\ row.quantity = q /\ row.received = 0 /\ row.allocations = a /\ row.to = w
        /\ row.status = "in_transit"
    BY DEF NoTransfer
  <2>2. NoTransfer \in TransferRow
    BY DEF NoTransfer, TransferRow
  <2>3. row \in TransferRow
    BY <1>3, <1>5, <2>2 DEF TransferRow
  <2> QED
    BY <2>1, <2>3
<1> HIDE DEF row
<1>7. /\ stock'[v].onHand = stock[v].onHand - q /\ stock'[v].lots = TakenFrom(stock[v].lots, a)
      /\ stock'[v].reserved = stock[v].reserved /\ stock'[v].picked = stock[v].picked
      /\ \A x \in Warehouse : x # v => stock'[x] = stock[x]
      /\ stock' \in [Warehouse -> StockRow]
  <2>1. stock[v].onHand - q \in Nat
    BY <1>2, <1>3, <1>4
  <2> QED
    BY <1>2, <1>4, <1>5, <2>1 DEF StockRow
<1>8. /\ transfers'[t] = row /\ transfers' \in [Transfer -> TransferRow]
      /\ \A x \in Transfer : x # t => transfers'[x] = transfers[x]
  BY <1>2, <1>4, <1>6
<1>9. LotTypes'
  <2>1. moved' \in [MovementType -> Nat]
    BY <1>1, <1>2, <1>3, RowsTyped DEF LotTypes, MovementType
  <2> QED
    BY <1>1, <1>2, <1>7, <1>8, <2>1 DEF LotTypes
<1>10. Counters'
  <2>1. \A x \in Warehouse : /\ stock'[x].picked = stock[x].picked
                             /\ stock'[x].reserved = stock[x].reserved
                             /\ stock'[x].reserved <= stock'[x].onHand
    <3>1. stock[v].reserved <= stock[v].onHand - q
      BY <1>2, <1>3, <1>4
    <3> QED
      BY <1>1, <1>7, <3>1 DEF Counters
  <2> QED
    BY <1>1, <1>2, <2>1, CountersKept
<1>11. Roads'
  BY <1>1, <1>6, <1>8 DEF Roads, InTransit
<1>12. /\ OnHandOf(stock) \in Int /\ OnHandOf(stock') = OnHandOf(stock) - q
       /\ \A k \in Lot : /\ ShelvesOf(stock, k) \in Int
                         /\ ShelvesOf(stock', k) = ShelvesOf(stock, k) - UnitsOf(a, k)
  <2>1. /\ OnHandOf(stock) \in Int
        /\ OnHandOf(stock') = OnHandOf(stock) + (stock'[v].onHand - stock[v].onHand)
        /\ \A k \in Lot :
             /\ ShelvesOf(stock, k) \in Int
             /\ ShelvesOf(stock', k) = ShelvesOf(stock, k) + (stock'[v].lots[k] - stock[v].lots[k])
    BY <1>4, <1>7, StockChanges
  <2>2. OnHandOf(stock') = OnHandOf(stock) - q
    BY <1>3, <1>4, <1>7, <2>1
  <2>3. ASSUME NEW k \in Lot PROVE ShelvesOf(stock', k) = ShelvesOf(stock, k) - UnitsOf(a, k)
    <3>1. stock[v].lots[k] \in Nat
      BY <1>4 DEF LotRow
    <3> QED
      BY <1>5, <1>7, <2>1, <3>1
  <2> QED
    BY <2>1, <2>2, <2>3
<1>13. /\ OutsideOf(transfers) \in Int /\ OutsideOf(transfers') = OutsideOf(transfers) + q
       /\ \A k \in Lot : /\ LotOutsideOf(transfers, k) \in Int
                         /\ LotOutsideOf(transfers', k) = LotOutsideOf(transfers, k) + UnitsOf(a, k)
  <2>1. transfers[t] = NoTransfer /\ transfers[t] \in TransferRow
    BY <1>1, <1>2, <1>4 DEF Roads
  <2>2. transfers[t].quantity = 0 /\ transfers[t].received = 0 /\ transfers[t].allocations = <<>>
    BY <2>1 DEF NoTransfer
  <2>3. /\ OutsideOf(transfers) \in Int
        /\ OutsideOf(transfers') = OutsideOf(transfers)
             + ((transfers'[t].quantity - transfers'[t].received)
                  - (transfers[t].quantity - transfers[t].received))
        /\ \A k \in Lot :
             /\ LotOutsideOf(transfers, k) \in Int
             /\ LotOutsideOf(transfers', k) = LotOutsideOf(transfers, k)
                  + (LotOutside(transfers'[t], k) - LotOutside(transfers[t], k))
    BY <1>4, <1>8, TransfersChange
  <2>4. ASSUME NEW k \in Lot
        PROVE  LotOutside(transfers'[t], k) = UnitsOf(a, k) /\ LotOutside(transfers[t], k) = 0
    <3>1. LotOutside(transfers'[t], k) = UnitsOf(a, k)
      BY <1>6, <1>8, OutsideIsUnits
    <3>2. LotOutside(transfers[t], k) = UnitsOf(<<>>, k)
      BY <2>1, <2>2, OutsideIsUnits
    <3> QED
      BY <1>4, <3>1, <3>2, NothingTaken
  <2>5. OutsideOf(transfers') = OutsideOf(transfers) + q
    BY <1>3, <1>6, <1>8, <2>2, <2>3
  <2> QED
    BY <1>5, <2>3, <2>4, <2>5
<1>14. UnitsConserved'
  <2>1. moved'["adjustment_increase"] - moved'["adjustment_decrease"] - moved'["order_shipment"] =
          moved["adjustment_increase"] - moved["adjustment_decrease"] - moved["order_shipment"]
    BY <1>1, <1>2 DEF LotTypes, MovementType
  <2> QED
    BY <1>1, <1>3, <1>12, <1>13, <2>1, Balances, BalancesAfter
<1>15. LotsTraceableAcross'
  <2>1. ASSUME NEW k \in Lot
        PROVE  lotUnits'[k] = ShelvesOf(stock', k) + InOrdersOf(orders', k)
                                + LotOutsideOf(transfers', k)
    <3>1. lotUnits[k] = ShelvesOf(stock, k) + InOrdersOf(orders, k) + LotOutsideOf(transfers, k)
      BY <1>1, Balances
    <3>2. /\ InOrdersOf(orders, k) \in Int /\ InOrdersOf(orders', k) = InOrdersOf(orders, k)
          /\ lotUnits'[k] = lotUnits[k] /\ UnitsOf(a, k) \in Nat
      BY <1>1, <1>2, <1>5, SumsTyped
    <3> QED
      BY ONLY k \in Lot, <1>12, <1>13, <3>1, <3>2
  <2> QED
    BY <2>1, BalancesAfter
<1>16. ASSUME HoldsLots PROVE HoldsLots'
  <2> SUFFICES ASSUME product.tracked PROVE HoldsLots'
    BY <1>2 DEF HoldsLots, LotsOnShelves, OrdersHoldTheirLots, RoadHoldsItsLots
  <2>1. LotsOnShelves /\ RoadHoldsItsLots /\ OrdersHoldTheirLots'
    BY <1>2, <1>16 DEF HoldsLots, OrdersHoldTheirLots, Open
  <2>2. Allocated(a) = q
    BY <1>2 DEF Served
  <2>3. Total(stock[v].lots, NumLots) = stock[v].onHand - stock[v].picked /\ stock[v].picked \in Nat
    BY <1>1, <2>1, RowsTyped DEF LotsOnShelves
  <2>4. Total(stock'[v].lots, NumLots) = stock'[v].onHand - stock'[v].picked
    BY <1>3, <1>4, <1>5, <1>7, <2>2, <2>3
  <2>5. LotsOnShelves'
    BY <1>7, <2>1, <2>4 DEF LotsOnShelves
  <2>6. RoadHoldsItsLots'
    BY <1>6, <1>8, <2>1, <2>2 DEF RoadHoldsItsLots, InTransit
  <2> QED
    BY <2>1, <2>5, <2>6 DEF HoldsLots
<1> QED
  BY <1>1, <1>9, <1>10, <1>11, <1>14, <1>15, <1>16 DEF LotInv

LEMMA ReceiveKeeps ==
  ASSUME Given, LotInv, NEW t \in Transfer, NEW q \in Nat, Receive(t, q)
  PROVE  LotInv' /\ (HoldsLots => HoldsLots')
<1> DEFINE w == transfers[t].to
           a == transfers[t].allocations
           b == ReceivedLots(a, q)
<1>1. LotTypes /\ Counters /\ Roads /\ UnitsConserved /\ LotsTraceableAcross
  BY DEF LotInv
<1>2. /\ transfers[t].status = "in_transit" /\ q <= transfers[t].quantity
      /\ stock' = [stock EXCEPT ![w].onHand = @ + q, ![w].lots = AddToLots(@, b)]
      /\ transfers' = [transfers EXCEPT ![t].received = q, ![t].status = "received"]
      /\ moved' = [moved EXCEPT !["transfer_in"] = @ + q]
      /\ UNCHANGED <<product, known, expires, orders, lotUnits>>
  BY DEF Receive, InTransit, Moved
<1>3. w \in Warehouse /\ transfers[t].received = 0
  BY <1>1, <1>2 DEF Roads, InTransit
<1>4. /\ stock[w].onHand \in Nat /\ stock[w].reserved \in Nat /\ stock[w].lots \in LotRow
      /\ stock[w] \in StockRow /\ stock \in [Warehouse -> StockRow]
      /\ transfers[t] \in TransferRow /\ transfers[t].quantity \in Nat
      /\ transfers \in [Transfer -> TransferRow] /\ LotsAssumption
  BY <1>1, <1>3, RowsTyped DEF LotTypes
<1>5. a \in Allocations /\ a \in LotRows
  <2>1. a \in Seq([lot : Lot, quantity : Units])
    BY <1>4 DEF TransferRow
  <2> DEFINE S == [lot : Lot, quantity : Units]
             N == [lot : Lot, quantity : Nat]
             P == [lot : Lot, quantity : Nat \ {0}]
  <2>2. S \subseteq N /\ S \subseteq P /\ a \in Seq(S)
    BY <2>1 DEF Units
  <2> HIDE DEF S, N, P, a
  <2>3. a \in Seq(N) /\ a \in Seq(P)
    BY ONLY <2>2, SeqMonotonic
  <2> QED
    BY <2>3 DEF N, P, Allocations, LotRows
<1>6. IsAllocation(b, a, q)
  BY <1>5, AllocationTakes DEF ReceivedLots
<1>7. b \in Allocations
  <2> DEFINE S == [lot : Lot, quantity : 1..q]
             N == [lot : Lot, quantity : Nat]
  <2>1. S \subseteq N
    OBVIOUS
  <2>2. b \in Seq(S)
    BY <1>6 DEF IsAllocation
  <2> HIDE DEF S, N, b
  <2>3. b \in Seq(N)
    BY ONLY <2>1, <2>2, SeqMonotonic
  <2> QED
    BY <2>3 DEF N, Allocations
<1>8. b = ReceivedLots(a, q)
  OBVIOUS
<1> HIDE DEF a, b
<1>9. /\ AddToLots(stock[w].lots, b) \in LotRow /\ Total(stock[w].lots, NumLots) \in Nat
      /\ Total(AddToLots(stock[w].lots, b), NumLots) = Total(stock[w].lots, NumLots) + Allocated(b)
      /\ \A k \in Lot : /\ AddToLots(stock[w].lots, b)[k] = stock[w].lots[k] + UnitsOf(b, k)
                        /\ UnitsOf(b, k) \in Nat /\ UnitsOf(a, k) \in Nat
  BY <1>4, <1>5, <1>7, LotsMove, UnitsOfNat
<1>10. Allocated(a) = transfers[t].quantity => Allocated(b) = q
  <2>1. Allocated(b) = Least(q, Total(UnitsIn(a), Len(a)))
    BY <1>5, <1>6, AllocationSum
  <2>2. Allocated(a) = Total(UnitsIn(a), Len(a))
    BY <1>5, UnitsOfNat
  <2> QED
    BY <1>2, <1>4, <2>1, <2>2 DEF Least
<1>11. transfers[t].allocations = a
  BY DEF a
<1> HIDE DEF w
<1>12. /\ stock'[w].onHand = stock[w].onHand + q /\ stock'[w].lots = AddToLots(stock[w].lots, b)
       /\ stock'[w].reserved = stock[w].reserved /\ stock'[w].picked = stock[w].picked
       /\ \A x \in Warehouse : x # w => stock'[x] = stock[x]
       /\ stock' \in [Warehouse -> StockRow]
  <2>1. stock[w].onHand + q \in Nat
    BY <1>4
  <2> QED
    BY <1>2, <1>3, <1>4, <1>9, <2>1 DEF StockRow
<1>13. /\ transfers'[t].quantity = transfers[t].quantity /\ transfers'[t].received = q
       /\ transfers'[t].allocations = a /\ transfers'[t].status = "received"
       /\ transfers' \in [Transfer -> TransferRow]
       /\ \A x \in Transfer : x # t => transfers'[x] = transfers[x]
  BY <1>2, <1>4, <1>11 DEF TransferRow
<1>14. LotTypes'
  <2>1. moved' \in [MovementType -> Nat]
    BY <1>1, <1>2, RowsTyped DEF LotTypes, MovementType
  <2> QED
    BY <1>1, <1>2, <1>12, <1>13, <2>1 DEF LotTypes
<1>15. Counters'
  <2>1. \A x \in Warehouse : /\ stock'[x].picked = stock[x].picked
                             /\ stock'[x].reserved = stock[x].reserved
                             /\ stock'[x].reserved <= stock'[x].onHand
    <3>1. stock[w].reserved <= stock[w].onHand + q
      BY <1>1, <1>3, <1>4 DEF Counters
    <3> QED
      BY <1>1, <1>12, <3>1 DEF Counters
  <2> QED
    BY <1>1, <1>2, <2>1, CountersKept
<1>16. Roads'
  BY <1>1, <1>13 DEF Roads, InTransit
<1>17. /\ OnHandOf(stock) \in Int /\ OnHandOf(stock') = OnHandOf(stock) + q
       /\ \A k \in Lot : /\ ShelvesOf(stock, k) \in Int
                         /\ ShelvesOf(stock', k) = ShelvesOf(stock, k) + UnitsOf(b, k)
  <2>1. /\ OnHandOf(stock) \in Int
        /\ OnHandOf(stock') = OnHandOf(stock) + (stock'[w].onHand - stock[w].onHand)
        /\ \A k \in Lot :
             /\ ShelvesOf(stock, k) \in Int
             /\ ShelvesOf(stock', k) = ShelvesOf(stock, k) + (stock'[w].lots[k] - stock[w].lots[k])
    BY <1>3, <1>4, <1>12, StockChanges
  <2>2. OnHandOf(stock') = OnHandOf(stock) + q
    BY <1>4, <1>12, <2>1
  <2>3. ASSUME NEW k \in Lot PROVE ShelvesOf(stock', k) = ShelvesOf(stock, k) + UnitsOf(b, k)
    <3>1. stock[w].lots[k] \in Nat
      BY <1>4 DEF LotRow
    <3> QED
      BY <1>9, <1>12, <2>1, <3>1
  <2> QED
    BY <2>1, <2>2, <2>3
<1>18. /\ OutsideOf(transfers) \in Int /\ OutsideOf(transfers') = OutsideOf(transfers) - q
       /\ \A k \in Lot : /\ LotOutsideOf(transfers, k) \in Int
                         /\ LotOutsideOf(transfers', k) = LotOutsideOf(transfers, k) - UnitsOf(b, k)
  <2>1. /\ OutsideOf(transfers) \in Int
        /\ OutsideOf(transfers') = OutsideOf(transfers)
             + ((transfers'[t].quantity - transfers'[t].received)
                  - (transfers[t].quantity - transfers[t].received))
        /\ \A k \in Lot :
             /\ LotOutsideOf(transfers, k) \in Int
             /\ LotOutsideOf(transfers', k) = LotOutsideOf(transfers, k)
                  + (LotOutside(transfers'[t], k) - LotOutside(transfers[t], k))
    BY <1>4, <1>13, TransfersChange
  <2>2. ASSUME NEW k \in Lot
        PROVE  /\ LotOutside(transfers'[t], k) = UnitsOf(a, k) - UnitsOf(b, k)
               /\ LotOutside(transfers[t], k) = UnitsOf(a, k)
    <3>1. LotOutside(transfers'[t], k) = UnitsOf(a, k) - UnitsOf(b, k)
      BY <1>8, <1>13 DEF LotOutside
    <3>2. LotOutside(transfers[t], k) = UnitsOf(a, k)
      BY <1>3, <1>4, <1>11, OutsideIsUnits
    <3> QED
      BY <3>1, <3>2
  <2>3. OutsideOf(transfers') = OutsideOf(transfers) - q
    BY <1>3, <1>4, <1>13, <2>1
  <2> QED
    BY <1>9, <2>1, <2>2, <2>3
<1>19. UnitsConserved'
  <2>1. moved'["adjustment_increase"] - moved'["adjustment_decrease"] - moved'["order_shipment"] =
          moved["adjustment_increase"] - moved["adjustment_decrease"] - moved["order_shipment"]
    BY <1>1, <1>2 DEF LotTypes, MovementType
  <2> QED
    BY <1>1, <1>17, <1>18, <2>1, Balances, BalancesAfter
<1>20. LotsTraceableAcross'
  <2>1. ASSUME NEW k \in Lot
        PROVE  lotUnits'[k] = ShelvesOf(stock', k) + InOrdersOf(orders', k)
                                + LotOutsideOf(transfers', k)
    <3>1. lotUnits[k] = ShelvesOf(stock, k) + InOrdersOf(orders, k) + LotOutsideOf(transfers, k)
      BY <1>1, Balances
    <3>2. /\ InOrdersOf(orders, k) \in Int /\ InOrdersOf(orders', k) = InOrdersOf(orders, k)
          /\ lotUnits'[k] = lotUnits[k] /\ UnitsOf(b, k) \in Nat
      BY <1>1, <1>2, <1>9, SumsTyped
    <3> QED
      BY ONLY k \in Lot, <1>17, <1>18, <3>1, <3>2
  <2> QED
    BY <2>1, BalancesAfter
<1>21. ASSUME HoldsLots PROVE HoldsLots'
  <2> SUFFICES ASSUME product.tracked PROVE HoldsLots'
    BY <1>2 DEF HoldsLots, LotsOnShelves, OrdersHoldTheirLots, RoadHoldsItsLots
  <2>1. LotsOnShelves /\ RoadHoldsItsLots /\ OrdersHoldTheirLots'
    BY <1>2, <1>21 DEF HoldsLots, OrdersHoldTheirLots, Open
  <2>2. Allocated(b) = q
    BY <1>2, <1>10, <1>11, <2>1 DEF RoadHoldsItsLots, InTransit
  <2>3. Total(stock[w].lots, NumLots) = stock[w].onHand - stock[w].picked /\ stock[w].picked \in Nat
    BY <1>1, <1>3, <2>1, RowsTyped DEF LotsOnShelves
  <2>4. Total(stock'[w].lots, NumLots) = stock'[w].onHand - stock'[w].picked
    BY <1>4, <1>9, <1>12, <2>2, <2>3
  <2>5. LotsOnShelves'
    BY <1>12, <2>1, <2>4 DEF LotsOnShelves
  <2>6. RoadHoldsItsLots'
    BY <1>2, <1>13, <2>1 DEF RoadHoldsItsLots, InTransit
  <2> QED
    BY <2>1, <2>5, <2>6 DEF HoldsLots
<1> QED
  BY <1>1, <1>14, <1>15, <1>16, <1>19, <1>20, <1>21 DEF LotInv

-----------------------------------------------------------------------------
(* Start and steps *)

LEMMA LotStart == ASSUME Given, Init PROVE LotInv /\ HoldsLots
<1>1. /\ product \in [tracked : BOOLEAN, update : {"none"}] /\ known = 0
      /\ expires = [l \in Lot |-> NoExpiry]
      /\ stock = [w \in Warehouse |->
                    [onHand |-> 0, reserved |-> 0, picked |-> 0, lots |-> NoLotUnits]]
      /\ orders = [o \in Order |-> NoOrder] /\ moved = [m \in MovementType |-> 0]
      /\ lotUnits = NoLotUnits /\ transfers = [t \in Transfer |-> NoTransfer]
  BY DEF Init, LotInit
<1>2. NoLotUnits \in LotRow /\ \A k \in Lot : NoLotUnits[k] = 0
  BY DEF NoLotUnits, LotRow
<1>3. NumLots \in Nat /\ Lot = 1..NumLots /\ LotsAssumption
  BY DEF Given, LotsAssumption, Lot
<1>4. Total(NoLotUnits, NumLots) = 0
  BY <1>2, <1>3, SumOfZeros
<1>5. NoTransfer \in TransferRow /\ NoOrder \in OrderRow
  BY <1>2 DEF NoTransfer, NoOrder, TransferRow, OrderRow
<1>6. \A w \in Warehouse : /\ stock[w].onHand = 0 /\ stock[w].reserved = 0 /\ stock[w].picked = 0
                           /\ stock[w].lots = NoLotUnits /\ stock[w] \in StockRow
  BY <1>1, <1>2 DEF StockRow
<1>7. \A o \in Order : orders[o] = NoOrder /\ orders[o].status = "none" /\ orders[o].lots = NoLotUnits
  BY <1>1 DEF NoOrder
<1>8. \A t \in Transfer :
        /\ transfers[t] = NoTransfer /\ transfers[t].status = "none"
        /\ transfers[t].quantity = 0 /\ transfers[t].received = 0
        /\ transfers[t].allocations = <<>>
  BY <1>1 DEF NoTransfer
<1>9. LotTypes
  <2>1. product \in [tracked : BOOLEAN, update : {"none", "on", "off"}]
    BY <1>1
  <2>2. known \in 0..NumLots /\ expires \in [Lot -> Expiries] /\ moved \in [MovementType -> Nat]
        /\ lotUnits \in [Lot -> Int]
    BY <1>1, <1>2, <1>3 DEF Given, LotStockAssumption, LotRow
  <2>3. stock \in [Warehouse -> StockRow]
    BY <1>1, <1>6
  <2>4. orders \in [Order -> OrderRow] /\ transfers \in [Transfer -> TransferRow]
    BY <1>1, <1>5
  <2> QED
    BY <2>1, <2>2, <2>3, <2>4 DEF LotTypes
<1>10. /\ NumWarehouses \in Nat /\ Warehouse = 1..NumWarehouses
       /\ NumOrders \in Nat /\ Order = 1..NumOrders
       /\ NumTransfers \in Nat /\ Transfer = 1..NumTransfers
  BY DEF Given, LotStockAssumption, TransfersAssumption, Warehouse, Order, Transfer
<1>11. \A w : PickedOf(orders, w) = 0 /\ ReservedOf(orders, w) = 0
  <2>1. TAKE w
  <2> DEFINE f == [o \in Order |-> PickedPart(orders[o], w)]
             g == [o \in Order |-> ReservedPart(orders[o], w)]
  <2>2. \A i \in 1..NumOrders : f[i] = 0 /\ g[i] = 0
    BY <1>7, <1>10 DEF PickedPart, ReservedPart
  <2> HIDE DEF f, g
  <2>3. Total(f, NumOrders) = 0 /\ Total(g, NumOrders) = 0
    BY <1>10, <2>2, SumOfZeros
  <2> QED
    BY <2>3 DEF f, g, PickedOf, ReservedOf
<1>12. Counters
  BY <1>6, <1>7, <1>11 DEF Counters, Open
<1>13. Roads
  BY <1>8 DEF Roads, InTransit
<1>14. OnHandOf(stock) = 0 /\ OutsideOf(transfers) = 0
  <2> DEFINE f == [w \in Warehouse |-> stock[w].onHand]
             g == [t \in Transfer |-> transfers[t].quantity - transfers[t].received]
  <2>1. (\A i \in 1..NumWarehouses : f[i] = 0) /\ \A i \in 1..NumTransfers : g[i] = 0
    BY <1>6, <1>8, <1>10
  <2> HIDE DEF f, g
  <2>2. Total(f, NumWarehouses) = 0 /\ Total(g, NumTransfers) = 0
    BY <1>10, <2>1, SumOfZeros
  <2> QED
    BY <2>2 DEF f, g, OnHandOf, OutsideOf
<1>15. UnitsConserved
  <2>1. /\ moved["adjustment_increase"] = 0 /\ moved["adjustment_decrease"] = 0
        /\ moved["order_shipment"] = 0
    BY <1>1 DEF MovementType
  <2> QED
    BY <1>14, <2>1, Balances
<1>16. LotsTraceableAcross
  <2>1. ASSUME NEW k \in Lot
        PROVE  lotUnits[k] = ShelvesOf(stock, k) + InOrdersOf(orders, k) + LotOutsideOf(transfers, k)
    <3> DEFINE f == [w \in Warehouse |-> stock[w].lots[k]]
               g == [o \in Order |-> orders[o].lots[k]]
               h == [t \in Transfer |-> LotOutside(transfers[t], k)]
    <3>1. \A t \in Transfer : LotOutside(transfers[t], k) = 0
      BY <1>3, <1>5, <1>8, OutsideIsUnits, NothingTaken
    <3>2. /\ \A i \in 1..NumWarehouses : f[i] = 0
          /\ \A i \in 1..NumOrders : g[i] = 0
          /\ \A i \in 1..NumTransfers : h[i] = 0
      BY <1>2, <1>6, <1>7, <1>10, <3>1
    <3> HIDE DEF f, g, h
    <3>3. Total(f, NumWarehouses) = 0 /\ Total(g, NumOrders) = 0 /\ Total(h, NumTransfers) = 0
      BY <1>10, <3>2, SumOfZeros
    <3>4. ShelvesOf(stock, k) = 0 /\ InOrdersOf(orders, k) = 0 /\ LotOutsideOf(transfers, k) = 0
      BY <3>3 DEF f, g, h, ShelvesOf, InOrdersOf, LotOutsideOf
    <3> QED
      BY <1>1, <1>2, <3>4
  <2> QED
    BY <2>1, Balances
<1>17. HoldsLots
  BY <1>4, <1>6, <1>7, <1>8
     DEF HoldsLots, LotsOnShelves, OrdersHoldTheirLots, RoadHoldsItsLots, Open, InTransit
<1> QED
  BY <1>9, <1>12, <1>13, <1>15, <1>16, <1>17 DEF LotInv

\* Stock moves inside a warehouse, or out of it.
LEMMA StockStepKeeps ==
  ASSUME Given, LotInv, StockStep, UNCHANGED transfers
  PROVE  LotInv' /\ (HoldsLots => HoldsLots')
<1>1. ASSUME NEW w \in Warehouse, NEW q \in Units, NEW l \in Lot \union {NoLot}, NEW e \in Expiries,
             IncreaseStock(w, q, l, e)
      PROVE  LotInv' /\ (HoldsLots => HoldsLots')
  BY <1>1, IncreaseKeeps
<1>2. ASSUME NEW w \in Warehouse, NEW q \in Units, NEW l \in NamedLots, DecreaseStock(w, q, l)
      PROVE  LotInv' /\ (HoldsLots => HoldsLots')
  BY <1>2, DecreaseKeeps
<1>3. ASSUME NEW w \in Warehouse, NEW q \in Units, NEW o \in Order, Reserve(o, w, q)
      PROVE  LotInv' /\ (HoldsLots => HoldsLots')
  BY <1>3, ReserveKeeps
<1>4. ASSUME NEW o \in Order, NEW q \in Units, NEW l \in NamedLots, Pick(o, q, l)
      PROVE  LotInv' /\ (HoldsLots => HoldsLots')
  BY <1>4, PickKeeps
<1>5. ASSUME NEW o \in Order, NEW q \in Units, NEW l \in NamedLots, Unpick(o, q, l)
      PROVE  LotInv' /\ (HoldsLots => HoldsLots')
  BY <1>5, UnpickKeeps
<1>6. ASSUME NEW o \in Order, NEW q \in 0..MaxReceived, Ship(o, q)
      PROVE  LotInv' /\ (HoldsLots => HoldsLots')
  BY <1>6, EndKeeps DEF Ship
<1>7. ASSUME NEW o \in Order, Release(o)
      PROVE  LotInv' /\ (HoldsLots => HoldsLots')
  BY <1>7, EndKeeps DEF Release
<1> QED
  BY <1>1, <1>2, <1>3, <1>4, <1>5, <1>6, <1>7 DEF StockStep

LEMMA TransferStepKeeps ==
  ASSUME Given, LotInv, TransferStep
  PROVE  LotInv' /\ (HoldsLots => HoldsLots')
<1>1. ASSUME NEW v \in Warehouse, NEW w \in Warehouse, NEW q \in Units, NEW l \in NamedLots,
             TransferDirect(v, w, q, l)
      PROVE  LotInv' /\ (HoldsLots => HoldsLots')
  BY <1>1, DirectKeeps
<1>2. ASSUME NEW v \in Warehouse, NEW w \in Warehouse, NEW q \in Units, NEW l \in NamedLots,
             NEW t \in Transfer, Send(t, v, w, q, l)
      PROVE  LotInv' /\ (HoldsLots => HoldsLots')
  BY <1>2, SendKeeps
<1>3. ASSUME NEW t \in Transfer, NEW q \in 0..MaxReceived, Receive(t, q)
      PROVE  LotInv' /\ (HoldsLots => HoldsLots')
  BY <1>3, ReceiveKeeps
<1> QED
  BY <1>1, <1>2, <1>3 DEF TransferStep

LEMMA NothingKeeps ==
  ASSUME LotInv, UNCHANGED vars
  PROVE  LotInv' /\ (HoldsLots => HoldsLots')
<1>1. UNCHANGED <<product, known, expires, stock, orders, moved, lotUnits, transfers>>
  BY DEF vars, lotVars
<1>2. LotTypes' /\ Counters'
  BY <1>1 DEF LotInv, LotTypes, Counters, Open
<1>3. UnitsConserved' /\ LotsTraceableAcross'
  BY <1>1, Balances, BalancesAfter DEF LotInv
<1>4. HoldsLots => HoldsLots'
  BY <1>1 DEF HoldsLots, LotsOnShelves, OrdersHoldTheirLots, RoadHoldsItsLots, Open, InTransit
<1> QED
  BY <1>1, <1>2, <1>3, <1>4, RoadsKept DEF LotInv

\* A step of Next, or none.
LEMMA SettledStep ==
  ASSUME Given, LotInv, HoldsLots, Next \/ UNCHANGED vars
  PROVE  LotInv' /\ HoldsLots'
BY NothingKeeps, StockStepKeeps, TransferStepKeeps DEF Next

\* The same with the switch.
LEMMA SwitchingStep ==
  ASSUME Given, LotInv, (SwitchNext /\ UNCHANGED transfers) \/ UNCHANGED vars
  PROVE  LotInv'
BY NothingKeeps, StockStepKeeps, SwitchKeeps DEF SwitchNext


\* What is sent arrives once or is known to be missing, the units of each lot
\* are known wherever they are, and no counter, lot or row of an order or of a
\* transfer gives up what it does not hold (lot-stock.ts,
\* stock-transfers.service.ts), while the lot tracking is settled.
THEOREM LotsStayTraceable ==
  ASSUME Given
  PROVE  Spec => [](/\ TransfersTypeOK /\ UnitsConserved /\ LotsTraceableAcross
                    /\ LotsOnShelves /\ OrdersHoldTheirLots)
<1>1. Init => LotInv /\ HoldsLots
  BY LotStart
<1>2. LotInv /\ HoldsLots /\ [Next]_vars => LotInv' /\ HoldsLots'
  BY SettledStep
<1>3. LotInv /\ HoldsLots => /\ TransfersTypeOK /\ UnitsConserved /\ LotsTraceableAcross
                             /\ LotsOnShelves /\ OrdersHoldTheirLots
  BY TypesGiveRows DEF LotInv, HoldsLots
<1> QED
  BY <1>1, <1>2, <1>3, PTL DEF Spec

-----------------------------------------------------------------------------
(* The order in which lots leave and come back, when nobody names a lot *)

\* What is taken of some lots is taken in the order of the rows.
LEMMA LotsTakenInOrder ==
  ASSUME LotsAssumption, NEW order, IsOrder(order), NEW lots \in LotRow, NEW q \in Nat,
         NEW a, a = Allocation(Rows(lots, NoLot, order), q),
         NEW x \in Lot, NEW y \in Lot, <<y, x>> \in order, TakenFrom(lots, a)[x] < lots[x]
  PROVE  TakenFrom(lots, a)[y] = 0
<1> DEFINE rows == Rows(lots, NoLot, order)
<1>1. lots \in [Lot -> Nat] /\ IsRows(rows, lots, NoLot, order)
  BY RowsAreOfLots DEF LotRow
<1>2. rows \in LotRows
  BY <1>1 DEF IsRows
<1>3. a = Allocation(rows, q)
  OBVIOUS
<1> HIDE DEF rows
<1>4. IsAllocation(a, rows, q)
  BY <1>2, <1>3, AllocationTakes
<1>5. a \in Allocations /\ \A k \in Lot : UnitsOf(a, k) \in 0..lots[k]
  BY <1>1, <1>4, UnitsOfRow
<1>6. /\ TakenFrom(lots, a)[x] = lots[x] - UnitsOf(a, x)
      /\ TakenFrom(lots, a)[y] = lots[y] - UnitsOf(a, y)
  BY <1>5, LotsMove
<1>7. lots[x] \in Nat /\ lots[y] \in Nat /\ UnitsOf(a, x) \in Nat
  BY <1>1, <1>5
<1>8. UnitsOf(a, x) > 0
  BY <1>6, <1>7
<1>9. UnitsOf(a, y) = lots[y]
  BY <1>1, <1>4, <1>8, TakenInOrder
<1> QED
  BY <1>6, <1>7, <1>9

\* A movement takes of the lots of a warehouse in the order of the strategy, ...
LEMMA WarehouseInOrder ==
  ASSUME Given, LotTypes, NEW w \in Warehouse, NEW q \in Nat, NEW x \in Lot, NEW y \in Lot,
         Leaves(expires, y, x),
         TakenFrom(stock[w].lots, LotsTaken(w, q, NoLot))[x] < stock[w].lots[x]
  PROVE  TakenFrom(stock[w].lots, LotsTaken(w, q, NoLot))[y] = 0
<1> DEFINE a == LotsTaken(w, q, NoLot)
           lots == stock[w].lots
<1>1. lots \in LotRow /\ LotsAssumption /\ expires \in [Lot -> Nat]
  BY RowsTyped
<1>2. lots[x] \in Nat
  BY <1>1 DEF LotRow
<1>3. ASSUME ~product.tracked PROVE FALSE
  <2>1. a = <<>>
    BY <1>3 DEF LotsTaken
  <2>2. TakenFrom(lots, a)[x] = lots[x] - UnitsOf(a, x) /\ UnitsOf(a, x) = 0
    BY <1>1, <2>1, NothingTaken, LotsMove
  <2> QED
    BY <1>2, <2>2
<1>4. a = Allocation(Rows(lots, NoLot, LeavingOrder(expires)), q)
  BY <1>3 DEF LotsTaken, TakeFromLots
<1>5. IsOrder(LeavingOrder(expires)) /\ <<y, x>> \in LeavingOrder(expires)
  BY <1>1, LeavingIsOrder DEF LeavingOrder
<1> HIDE DEF a, lots
<1>6. TakenFrom(lots, a)[x] < lots[x]
  BY DEF a, lots
<1>7. TakenFrom(lots, a)[y] = 0
  BY <1>1, <1>4, <1>5, <1>6, LotsTakenInOrder
<1> QED
  BY <1>7 DEF a, lots

\* ... and gives back those of an order in the opposite one.
LEMMA OrderInOrder ==
  ASSUME Given, LotTypes, NEW o \in Order, NEW q \in Nat, NEW x \in Lot, NEW y \in Lot,
         Leaves(expires, x, y),
         TakenFrom(orders[o].lots, LotsReturned(o, q, NoLot))[x] < orders[o].lots[x]
  PROVE  TakenFrom(orders[o].lots, LotsReturned(o, q, NoLot))[y] = 0
<1> DEFINE a == LotsReturned(o, q, NoLot)
           lots == orders[o].lots
<1>1. lots \in LotRow /\ LotsAssumption /\ expires \in [Lot -> Nat]
  BY RowsTyped
<1>2. lots[x] \in Nat
  BY <1>1 DEF LotRow
<1>3. ASSUME ~product.tracked PROVE FALSE
  <2>1. a = <<>>
    BY <1>3 DEF LotsReturned
  <2>2. TakenFrom(lots, a)[x] = lots[x] - UnitsOf(a, x) /\ UnitsOf(a, x) = 0
    BY <1>1, <2>1, NothingTaken, LotsMove
  <2> QED
    BY <1>2, <2>2
<1>4. a = Allocation(Rows(lots, NoLot, Reversed(LeavingOrder(expires))), q)
  BY <1>3 DEF LotsReturned, ReturnPickedLots
<1>5. IsOrder(Reversed(LeavingOrder(expires))) /\ <<y, x>> \in Reversed(LeavingOrder(expires))
  BY <1>1, LeavingIsOrder DEF LeavingOrder, Reversed
<1> HIDE DEF a, lots
<1>6. TakenFrom(lots, a)[x] < lots[x]
  BY DEF a, lots
<1>7. TakenFrom(lots, a)[y] = 0
  BY <1>1, <1>4, <1>5, <1>6, LotsTakenInOrder
<1> QED
  BY <1>7 DEF a, lots

\* What comes into lots takes nothing of any.
LEMMA MoreInLots ==
  ASSUME LotsAssumption, NEW lots \in LotRow, NEW a \in Allocations, NEW k \in Lot
  PROVE  ~(AddToLots(lots, a)[k] < lots[k])
<1>1. AddToLots(lots, a)[k] = lots[k] + UnitsOf(a, k) /\ UnitsOf(a, k) \in Nat
  BY LotsMove, UnitsOfNat
<1>2. lots[k] \in Nat
  BY DEF LotRow
<1> QED
  BY <1>1, <1>2

\* What becomes of the lots of one warehouse, or of one order.
TakenFirst(lots, after) ==
  \A x, y \in Lot : after[x] < lots[x] /\ Leaves(expires, y, x) => after[y] = 0

TakenLast(lots, after) ==
  \A x, y \in Lot : after[x] < lots[x] /\ Leaves(expires, x, y) => after[y] = 0

LEMMA WarehouseTakes ==
  ASSUME Given, LotTypes, NEW w \in Warehouse, TakenFirst(stock[w].lots, stock'[w].lots),
         \A v \in Warehouse : v # w => stock'[v] = stock[v]
  PROVE  LeavesInOrder
<1>1. \A v \in Warehouse, k \in Lot : ~(stock[v].lots[k] < stock[v].lots[k])
  BY RowsTyped DEF LotRow
<1> QED
  BY <1>1 DEF LeavesInOrder, TakenFirst

LEMMA OrderTakes ==
  ASSUME Given, LotTypes, NEW o \in Order, TakenLast(orders[o].lots, orders'[o].lots),
         \A p \in Order : p # o => orders'[p] = orders[p]
  PROVE  KeepsEarliest
<1>1. \A p \in Order, k \in Lot : ~(orders[p].lots[k] < orders[p].lots[k])
  BY RowsTyped DEF LotRow
<1> QED
  BY <1>1 DEF KeepsEarliest, TakenLast

LEMMA NothingTakes ==
  ASSUME Given, LotTypes
  PROVE  /\ stock' = stock => LeavesInOrder
         /\ orders' = orders => KeepsEarliest
<1>1. \A v \in Warehouse, k \in Lot : ~(stock[v].lots[k] < stock[v].lots[k])
  BY RowsTyped DEF LotRow
<1>2. \A p \in Order, k \in Lot : ~(orders[p].lots[k] < orders[p].lots[k])
  BY RowsTyped DEF LotRow
<1>3. stock' = stock => LeavesInOrder
  BY <1>1 DEF LeavesInOrder
<1>4. orders' = orders => KeepsEarliest
  BY <1>2 DEF KeepsEarliest
<1> QED
  BY <1>3, <1>4

\* A movement of a warehouse changes no order.
LEMMA MovesInOrder ==
  ASSUME Given, LotInv, NEW w \in Warehouse, NEW q \in Units,
         \/ \E l \in Lot \union {NoLot}, e \in Expiries : IncreaseStock(w, q, l, e)
         \/ DecreaseStock(w, q, NoLot)
  PROVE  LeavesInOrder /\ KeepsEarliest
<1>1. stock \in [Warehouse -> StockRow] /\ LotTypes /\ q \in Nat /\ stock[w].lots \in LotRow
  BY RowsTyped DEF LotInv, LotTypes, Units
<1>2. ASSUME NEW l \in Lot \union {NoLot}, NEW e \in Expiries, IncreaseStock(w, q, l, e)
      PROVE  LeavesInOrder /\ KeepsEarliest
  <2> DEFINE a == IF l = NoLot THEN <<>> ELSE <<[lot |-> l, quantity |-> q]>>
  <2>1. /\ stock' = [stock EXCEPT ![w].onHand = @ + q, ![w].lots = AddToLots(@, a)]
        /\ orders' = orders
    BY <1>2 DEF IncreaseStock
  <2>2. a \in Allocations
    BY LotsEnter
  <2> HIDE DEF a
  <2>3. stock'[w].lots = AddToLots(stock[w].lots, a)
        /\ \A v \in Warehouse : v # w => stock'[v] = stock[v]
    BY <1>1, <2>1 DEF StockRow
  <2>4. TakenFirst(stock[w].lots, stock'[w].lots)
    BY <1>1, <2>2, <2>3, MoreInLots DEF TakenFirst, Given
  <2> QED
    BY <1>1, <2>1, <2>3, <2>4, WarehouseTakes, OrderTakes, NothingTakes
<1>3. ASSUME DecreaseStock(w, q, NoLot) PROVE LeavesInOrder /\ KeepsEarliest
  <2> DEFINE a == LotsTaken(w, q, NoLot)
  <2>1. /\ stock' = [stock EXCEPT ![w].onHand = @ - q, ![w].lots = TakenFrom(@, a)]
        /\ orders' = orders
    BY <1>3 DEF DecreaseStock
  <2>2. TakenFirst(stock[w].lots, TakenFrom(stock[w].lots, a))
    BY <1>1, WarehouseInOrder DEF TakenFirst
  <2> HIDE DEF a
  <2>3. stock'[w].lots = TakenFrom(stock[w].lots, a)
        /\ \A v \in Warehouse : v # w => stock'[v] = stock[v]
    BY <1>1, <2>1 DEF StockRow
  <2> QED
    BY <1>1, <2>1, <2>2, <2>3, WarehouseTakes, OrderTakes, NothingTakes
<1> QED
  BY <1>2, <1>3

\* Reserving starts an order that holds nothing.
LEMMA ReservesInOrder ==
  ASSUME Given, LotInv, NEW w \in Warehouse, NEW q \in Units, NEW o \in Order, Reserve(o, w, q)
  PROVE  LeavesInOrder /\ KeepsEarliest
<1>1. /\ LotTypes /\ Counters /\ orders[o].lots \in LotRow
      /\ stock \in [Warehouse -> StockRow] /\ orders \in [Order -> OrderRow]
  BY RowsTyped DEF LotInv, LotTypes
<1>2. /\ orders[o].status = "none"
      /\ orders' = [orders EXCEPT ![o] =
           [NoOrder EXCEPT !.warehouse = w, !.reserved = q, !.status = "open"]]
      /\ stock' = [stock EXCEPT ![w].reserved = @ + q]
  BY DEF Reserve
<1>3. orders[o] = NoOrder
  BY <1>1, <1>2 DEF Counters
<1>4. /\ orders'[o].lots = NoOrder.lots
      /\ \A p \in Order : p # o => orders'[p] = orders[p]
      /\ stock'[w].lots = stock[w].lots /\ \A v \in Warehouse : v # w => stock'[v] = stock[v]
  BY <1>1, <1>2 DEF StockRow, NoOrder
<1>5. TakenLast(orders[o].lots, orders'[o].lots)
  BY <1>1, <1>3, <1>4 DEF TakenLast, LotRow
<1>6. TakenFirst(stock[w].lots, stock'[w].lots)
  BY <1>1, <1>4, RowsTyped DEF TakenFirst, LotRow
<1> QED
  BY <1>1, <1>4, <1>5, <1>6, WarehouseTakes, OrderTakes, NothingTakes

LEMMA PicksInOrder ==
  ASSUME Given, LotInv, NEW o \in Order, NEW q \in Units,
         Pick(o, q, NoLot) \/ Unpick(o, q, NoLot)
  PROVE  LeavesInOrder /\ KeepsEarliest
<1> DEFINE w == orders[o].warehouse
<1>1. /\ LotTypes /\ Counters /\ orders[o].lots \in LotRow /\ q \in Nat /\ LotsAssumption
      /\ stock \in [Warehouse -> StockRow] /\ orders \in [Order -> OrderRow]
  BY RowsTyped DEF LotInv, LotTypes, Units
<1>2. w \in Warehouse
  BY <1>1 DEF Counters, Pick, Unpick
<1>3. stock[w].lots \in LotRow
  BY <1>1, <1>2, RowsTyped
<1>4. ASSUME Pick(o, q, NoLot) PROVE LeavesInOrder /\ KeepsEarliest
  <2> DEFINE a == LotsTaken(w, q, NoLot)
  <2>1. /\ stock' = [stock EXCEPT ![w].picked = @ + q, ![w].lots = TakenFrom(@, a)]
        /\ orders' = [orders EXCEPT ![o].picked = @ + q, ![o].lots = AddToLots(@, a)]
    BY <1>4 DEF Pick
  <2>2. TakenFirst(stock[w].lots, TakenFrom(stock[w].lots, a))
    <3> HIDE DEF w
    <3> QED
      BY <1>1, <1>2, WarehouseInOrder DEF TakenFirst
  <2>3. a \in Allocations
    <3>1. a = LotsTaken(w, q, NoLot)
      OBVIOUS
    <3> HIDE DEF a, w
    <3> QED
      BY <1>1, <1>2, <3>1, LotsLeave
  <2> HIDE DEF a, w
  <2>4. /\ stock'[w].lots = TakenFrom(stock[w].lots, a)
        /\ \A v \in Warehouse : v # w => stock'[v] = stock[v]
        /\ orders'[o].lots = AddToLots(orders[o].lots, a)
        /\ \A p \in Order : p # o => orders'[p] = orders[p]
    BY <1>1, <1>2, <2>1 DEF StockRow, OrderRow
  <2>5. TakenLast(orders[o].lots, orders'[o].lots)
    BY <1>1, <2>3, <2>4, MoreInLots DEF TakenLast
  <2> QED
    BY <1>1, <1>2, <2>2, <2>4, <2>5, WarehouseTakes, OrderTakes, NothingTakes
<1>5. ASSUME Unpick(o, q, NoLot) PROVE LeavesInOrder /\ KeepsEarliest
  <2> DEFINE a == LotsReturned(o, q, NoLot)
  <2>1. /\ stock' = [stock EXCEPT ![w].picked = @ - q, ![w].lots = AddToLots(@, a)]
        /\ orders' = [orders EXCEPT ![o].picked = @ - q, ![o].lots = TakenFrom(@, a)]
    BY <1>5 DEF Unpick
  <2>2. TakenLast(orders[o].lots, TakenFrom(orders[o].lots, a))
    BY <1>1, OrderInOrder DEF TakenLast
  <2>3. a \in Allocations
    BY <1>1, LotsGoBack
  <2> HIDE DEF a, w
  <2>4. /\ stock'[w].lots = AddToLots(stock[w].lots, a)
        /\ \A v \in Warehouse : v # w => stock'[v] = stock[v]
        /\ orders'[o].lots = TakenFrom(orders[o].lots, a)
        /\ \A p \in Order : p # o => orders'[p] = orders[p]
    BY <1>1, <1>2, <2>1 DEF StockRow, OrderRow
  <2>5. TakenFirst(stock[w].lots, stock'[w].lots)
    BY <1>1, <1>3, <2>3, <2>4, MoreInLots DEF TakenFirst
  <2> QED
    BY <1>1, <1>2, <2>2, <2>4, <2>5, WarehouseTakes, OrderTakes, NothingTakes
<1> QED
  BY <1>4, <1>5

LEMMA EndsInOrder ==
  ASSUME Given, LotInv, NEW o \in Order, NEW q \in Nat, NEW status, End(o, q, status)
  PROVE  LeavesInOrder /\ KeepsEarliest
<1> DEFINE w == orders[o].warehouse
           rest == orders[o].picked - q
           a == IF rest > 0 THEN LotsReturned(o, rest, NoLot) ELSE <<>>
<1>1. /\ LotTypes /\ Counters /\ orders[o].lots \in LotRow /\ orders[o].picked \in Nat
      /\ LotsAssumption
      /\ stock \in [Warehouse -> StockRow] /\ orders \in [Order -> OrderRow]
  BY RowsTyped DEF LotInv, LotTypes
<1>2. w \in Warehouse
  BY <1>1 DEF Counters, End
<1>3. stock[w].lots \in LotRow
  BY <1>1, <1>2, RowsTyped
<1>4. /\ q <= orders[o].picked
      /\ stock' = [stock EXCEPT ![w] =
           [onHand |-> @.onHand - q,
            reserved |-> @.reserved - orders[o].reserved,
            picked |-> Greatest(0, @.picked - orders[o].picked),
            lots |-> AddToLots(@.lots, a)]]
      /\ orders' = [orders EXCEPT ![o].reserved = 0, ![o].status = status,
                                  ![o].lots = TakenFrom(@, a)]
  BY DEF End
<1>5. rest \in Nat /\ (a = LotsReturned(o, rest, NoLot) \/ a = <<>>)
  BY <1>1, <1>4
<1>6. a \in Allocations /\ TakenLast(orders[o].lots, TakenFrom(orders[o].lots, a))
  <2> HIDE DEF a, rest
  <2>1. a \in Allocations
    BY <1>1, <1>5, LotsGoBack
  <2>2. ASSUME a = <<>> PROVE TakenLast(orders[o].lots, TakenFrom(orders[o].lots, a))
    <3>1. \A k \in Lot : TakenFrom(orders[o].lots, a)[k] = orders[o].lots[k] - 0
      BY <1>1, <2>1, <2>2, NothingTaken, LotsMove
    <3> QED
      BY <1>1, <3>1 DEF TakenLast, LotRow
  <2>3. ASSUME a = LotsReturned(o, rest, NoLot)
        PROVE  TakenLast(orders[o].lots, TakenFrom(orders[o].lots, a))
    BY <1>1, <1>5, <2>3, OrderInOrder DEF TakenLast
  <2> QED
    BY <1>5, <2>1, <2>2, <2>3
<1> HIDE DEF a, w, rest
<1>7. /\ stock'[w].lots = AddToLots(stock[w].lots, a)
      /\ \A v \in Warehouse : v # w => stock'[v] = stock[v]
  BY <1>1, <1>2, <1>4
<1>8. /\ orders'[o].lots = TakenFrom(orders[o].lots, a)
      /\ \A p \in Order : p # o => orders'[p] = orders[p]
  BY <1>1, <1>4 DEF OrderRow
<1>9. TakenFirst(stock[w].lots, stock'[w].lots)
  BY <1>1, <1>3, <1>6, <1>7, MoreInLots DEF TakenFirst
<1> QED
  BY <1>1, <1>2, <1>6, <1>7, <1>8, <1>9, WarehouseTakes, OrderTakes, NothingTakes

\* Where no caller names a lot, lots leave in the order of the strategy, and
\* orders give them up in the opposite one.
LEMMA LotsInOrder ==
  ASSUME Given, LotInv, NamedLots = {0}, SwitchNext \/ UNCHANGED <<stock, orders>>
  PROVE  LeavesInOrder /\ KeepsEarliest
<1>1. LotTypes /\ NoLot = 0 /\ 0..MaxReceived \subseteq Nat
  BY DEF LotInv, NoLot
<1>2. ASSUME UNCHANGED <<stock, orders>> PROVE LeavesInOrder /\ KeepsEarliest
  BY <1>1, <1>2, WarehouseTakes, OrderTakes, NothingTakes
<1>3. ASSUME Switch PROVE LeavesInOrder /\ KeepsEarliest
  BY <1>2, <1>3 DEF Switch, CheckSwitch, WriteSwitch
<1>4. ASSUME NEW w \in Warehouse, NEW q \in Units,
             \/ \E l \in Lot \union {NoLot}, e \in Expiries : IncreaseStock(w, q, l, e)
             \/ \E l \in NamedLots : DecreaseStock(w, q, l)
      PROVE  LeavesInOrder /\ KeepsEarliest
  BY <1>1, <1>4, MovesInOrder
<1>5. ASSUME NEW w \in Warehouse, NEW q \in Units, NEW o \in Order, Reserve(o, w, q)
      PROVE  LeavesInOrder /\ KeepsEarliest
  BY <1>5, ReservesInOrder
<1>6. ASSUME NEW o \in Order, NEW q \in Units, NEW l \in NamedLots, Pick(o, q, l) \/ Unpick(o, q, l)
      PROVE  LeavesInOrder /\ KeepsEarliest
  BY <1>1, <1>6, PicksInOrder
<1>7. ASSUME NEW o \in Order, NEW q \in 0..MaxReceived, Ship(o, q)
      PROVE  LeavesInOrder /\ KeepsEarliest
  <2>1. q \in Nat
    BY <1>1
  <2> QED
    BY <1>7, <2>1, EndsInOrder DEF Ship
<1>8. ASSUME NEW o \in Order, Release(o) PROVE LeavesInOrder /\ KeepsEarliest
  <2>1. 0 \in Nat
    OBVIOUS
  <2> QED
    BY <1>8, <2>1, EndsInOrder DEF Release
<1> QED
  BY <1>2, <1>3, <1>4, <1>5, <1>6, <1>7, <1>8 DEF SwitchNext, StockStep

=============================================================================
