--------------------------- MODULE MCLineFailover ---------------------------
(* Instances of LineFailover for TLC: two adapters, short holds.           *)
EXTENDS LineFailover
=============================================================================
