---------------------------- MODULE MCFulfilment ----------------------------
(***************************************************************************)
(* Small instances of Fulfilment for TLC.  Products and sales orders are   *)
(* interchangeable, so their permutations are symmetries.                  *)
(***************************************************************************)
EXTENDS Fulfilment, TLC

Symmetry == Permutations(Product) \cup Permutations(Sale)

=============================================================================
