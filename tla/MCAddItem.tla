----------------------------- MODULE MCAddItem -----------------------------
(* One form, with Presses, MaxPicks and MaxImages of the configuration.     *)
EXTENDS AddItem

=============================================================================
