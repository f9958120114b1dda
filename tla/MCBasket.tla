----------------------------- MODULE MCBasket ------------------------------
(* Basket on small instances: phones and items are model values.           *)
EXTENDS Basket, TLC

Symmetry == Permutations(Phones) \cup Permutations(Items)

=============================================================================
