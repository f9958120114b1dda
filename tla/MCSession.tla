----------------------------- MODULE MCSession -----------------------------
(* Session on small instances: phones and users are model values.          *)
EXTENDS Session, TLC

Symmetry == Permutations(Devices) \cup Permutations(Users)

=============================================================================
