----------------------------- MODULE MCGateway -----------------------------
(* Instances of Gateway for TLC.                                           *)
EXTENDS Gateway

CONSTANTS red    \* a party line

\* Network audio, the PC's devices, and a stereo port of the interface, on one line.
MCPorts == {[chan |-> red, source |-> "rtp", stereo |-> FALSE],
            [chan |-> red, source |-> "device", stereo |-> FALSE],
            [chan |-> red, source |-> "asio", stereo |-> TRUE]}
=============================================================================
