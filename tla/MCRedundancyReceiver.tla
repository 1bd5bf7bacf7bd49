------------------------ MODULE MCRedundancyReceiver ------------------------
(* A small instance of RedundancyReceiver: one video packet, and two audio *)
(* packets of which one is stamped before it and one at the same time.     *)
EXTENDS RedundancyReceiver

MCSendAt == <<0, 0, 1>>
MCStream == <<"video", "audio", "audio">>
MCPts == <<3, 1, 3>>
=============================================================================
