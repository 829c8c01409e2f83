------------------------------- MODULE Totals -------------------------------
(***************************************************************************)
(* Sums over numbered rows.  The service adds quantities over the rows of  *)
(* a table (sumByProduct, Prisma's _sum aggregate); the models number the  *)
(* rows 1..n and add a column of them with Total.  It is a recursive       *)
(* FUNCTION, not a RECURSIVE operator, so that ShelfTheorems can prove     *)
(* what it computes.                                                       *)
(***************************************************************************)
EXTENDS Integers

Total(f, n) ==
  LET partial[i \in 0..n] == IF i = 0 THEN 0 ELSE partial[i - 1] + f[i]
  IN  partial[n]

Least(a, b) == IF a <= b THEN a ELSE b

Greatest(a, b) == IF a >= b THEN a ELSE b

=============================================================================
