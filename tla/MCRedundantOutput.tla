-------------------------- MODULE MCRedundantOutput --------------------------
(* Small instances of RedundantOutput: its constants are plain values.     *)
EXTENDS RedundantOutput
==============================================================================
