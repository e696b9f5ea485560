--------------------------- MODULE MCBlockDownload ---------------------------
(* A small instance of BlockDownload. *)
EXTENDS BlockDownload

=============================================================================
