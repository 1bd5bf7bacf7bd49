--------------------------- MODULE MCCommsRouting ---------------------------
(* Two people on one channel with talk and music, one of whom may only     *)
(* send, in a small instance of CommsRouting for TLC.                      *)
EXTENDS CommsRouting

CONSTANTS a, sp,                             \* the talker, the server player
          channel,
          aDirect, aTalk, aMusic, player1    \* the tracks

MCOwner == [s \in Sids |-> IF s = player1 THEN sp ELSE a]
MCKindOf == [s \in Sids |-> CASE s = aDirect -> "direct"
                              [] s = aTalk -> "ch"
                              [] OTHER -> "music"]
MCChanOf == [s \in Sids |-> channel]

TalkerRights == [p \in Conns |-> [x \in Chans |->
                   IF p = a THEN {"talk", "music"} ELSE Rights]]
WithMusic == [x \in Chans |-> "withMusic"]
=============================================================================
