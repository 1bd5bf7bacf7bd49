--------------------------- MODULE MCCommsEngine ---------------------------
(* One client with one party line, in a small instance for TLC.            *)
EXTENDS CommsEngine
=============================================================================
