----------------------------- MODULE MCPictures -----------------------------
(* Pictures on small instances: the items of a cell are model values.       *)
EXTENDS Pictures

=============================================================================
