--------------------------- MODULE MCDownloadItems ---------------------------
(* One call, for up to MaxIds items.                                        *)
EXTENDS DownloadItems

=============================================================================
