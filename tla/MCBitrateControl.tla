-------------------------- MODULE MCBitrateControl --------------------------
(* Instances of BitrateControl: the constants are plain numbers.           *)
EXTENDS BitrateControl
=============================================================================
