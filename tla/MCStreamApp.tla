---------------------------- MODULE MCStreamApp ----------------------------
(* Instances of StreamApp for TLC. *)
EXTENDS StreamApp
=============================================================================
