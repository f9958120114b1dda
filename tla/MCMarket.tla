------------------------------ MODULE MCMarket ------------------------------
(* Market on small instances: the users are model values.                   *)
EXTENDS Market, TLC

Symmetry == Permutations(Users)

=============================================================================
