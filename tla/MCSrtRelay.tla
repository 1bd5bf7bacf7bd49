----------------------------- MODULE MCSrtRelay -----------------------------
(* Small instances of SrtRelay for TLC.                                    *)
EXTENDS SrtRelay

CONSTANTS q1, s1, arena, program

MCNameOf == [s \in Sockets |-> IF s \in {q1, s1} THEN program ELSE arena]
=============================================================================
