--------------------------- MODULE MCRemoteSession ---------------------------
(* Instances of RemoteSession for TLC. *)
EXTENDS RemoteSession
=============================================================================
