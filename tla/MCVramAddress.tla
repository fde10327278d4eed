----------------------------- MODULE MCVramAddress -----------------------------
(* Small instances of VramAddress for TLC. *)
EXTENDS VramAddress
=============================================================================
