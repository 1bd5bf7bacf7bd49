--------------------------- MODULE MCServerPlayer ---------------------------
(* Small instances of ServerPlayer for TLC.                                *)
EXTENDS ServerPlayer
=============================================================================
