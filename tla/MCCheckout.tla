----------------------------- MODULE MCCheckout ----------------------------
(* Checkout on small instances.                                             *)
EXTENDS Checkout, TLC

Symmetry == Permutations(Items \ Unpayable)

=============================================================================
