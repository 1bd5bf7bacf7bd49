--------------------------- MODULE BitrateControl ---------------------------
(***************************************************************************)
(* Who decides the bitrate of a running encoder (src/cpp/src/main.cpp):    *)
(* the parent application writes "bitrate <kbps>" lines to stdin, the      *)
(* heartbeat loop turns them into a new ceiling and steps the rate down    *)
(* while the network queue drops packets and up again when it is clean,    *)
(* the video worker hands the latest value to the encoder between frames.  *)
(*                                                                         *)
(* The three threads share two atomic integers, 0 meaning "nothing asked". *)
(* One action per atomic access; the heartbeat's second is split at its    *)
(* two blocks.  The network is external: it gets in the way for a while,   *)
(* for good, or not any more.                                              *)
(***************************************************************************)
EXTENDS Naturals

CONSTANTS Bitrate,      \* --bitrate
          FloorPct,     \* --abr-floor-pct
          Abr,          \* --abr
          Live,         \* can the encoder change its rate (supports_live_bitrate)?
          Lines,        \* the rates that lines on stdin ask for
          MaxLines,     \* bound: how many lines
          MaxJams       \* bound: passing congestions

ASSUME BitrateAssumption ==
  /\ Bitrate \in Nat \ {0} /\ FloorPct \in 0..100
  /\ Abr \in BOOLEAN /\ Live \in BOOLEAN
  /\ \A kbps \in Lines : kbps \in Nat /\ 100 <= kbps  \* stdin_control_loop ignores
                                                      \* less (and more than 200000)
  /\ MaxLines \in Nat /\ MaxJams \in Nat

VARIABLES
  userReq,   \* g_user_bitrate_req
  encReq,    \* g_enc_bitrate_req
  beat,      \* the heartbeat thread: "user" or "abr", the block it does next
  ceiling, floor, current, streak,   \* the abr_ variables of the heartbeat
  taken,     \* the video worker's `want`: taken from encReq, not yet set
  target,    \* what set_bitrate was last called with
  dropping,  \* netq has dropped packets since its counter was last read
  congested, \* ... and what the heartbeat read this second (nd > abr_last_netq_drop)
  net,       \* the network: "fair" (may get in the way), "jammed" or "clear" for good
  lines, jams

heart == <<beat, congested, ceiling, floor, current, streak>>
rateVars == <<userReq, encReq, heart, taken, target, dropping, net, lines, jams>>

Kbps == Nat \ {0}
CleanSecondsBeforeUp == 5

RateTypeOK ==
  /\ userReq \in Nat /\ encReq \in Nat /\ taken \in Nat
  /\ beat \in {"user", "abr"}
  /\ ceiling \in Kbps /\ floor \in Kbps /\ current \in Kbps /\ target \in Kbps
  /\ streak \in 0..CleanSecondsBeforeUp
  /\ dropping \in BOOLEAN /\ congested \in BOOLEAN /\ net \in {"fair", "jammed", "clear"}
  /\ lines \in 0..MaxLines /\ jams \in 0..MaxJams

\* The encoder's own rate: one that cannot change it live keeps the first.
EncoderRate == IF Live THEN target ELSE Bitrate

Higher(m, n) == IF m >= n THEN m ELSE n
Lower(m, n) == IF m <= n THEN m ELSE n
FloorOf(kbps) == Higher(1, (kbps * FloorPct) \div 100)
SteppedDown == Higher(floor, (current * 80) \div 100)
SteppedUp == Lower(ceiling, (current * 105) \div 100)

RateInit ==
  /\ userReq = 0 /\ encReq = 0 /\ beat = "user"
  /\ ceiling = Bitrate /\ floor = FloorOf(Bitrate) /\ current = Bitrate /\ streak = 0
  /\ taken = 0 /\ target = Bitrate
  /\ dropping = FALSE /\ congested = FALSE /\ net = "fair" /\ lines = 0 /\ jams = 0

-----------------------------------------------------------------------------
\* stdin_control_loop reads a line.
Line(kbps) ==
  /\ lines < MaxLines /\ lines' = lines + 1
  /\ userReq' = kbps
  /\ UNCHANGED <<encReq, heart, taken, target, dropping, net, jams>>

\* The heartbeat's first block: it reads netq's counter, and a line that came in
\* since the last second.  A jammed network makes netq drop every second.
NewCeiling(want) ==
  /\ ceiling' = want /\ current' = want /\ floor' = FloorOf(want) /\ streak' = 0
  /\ encReq' = want

UserBlock ==
  /\ beat = "user"
  /\ net = "jammed" => dropping
  /\ congested' = (Abr /\ dropping) /\ dropping' = (dropping /\ ~Abr)
  /\ userReq' = 0
  /\ IF userReq # 0 /\ Live /\ userReq # ceiling THEN NewCeiling(userReq)
     ELSE UNCHANGED <<ceiling, floor, current, streak, encReq>>
  /\ beat' = "abr"
  /\ UNCHANGED <<taken, target, net, lines, jams>>

\* The second block: a step down, or after a clean streak a step up.
StepUnasked(kbps) ==  \* (variant: the encoder is not told)
  current' = kbps /\ UNCHANGED encReq
Step(kbps) == current' = kbps /\ encReq' = kbps

AbrBlock ==
  /\ beat = "abr"
  /\ IF ~Abr THEN UNCHANGED <<streak, current, encReq>>
     ELSE IF congested
     THEN /\ streak' = 0
          /\ IF SteppedDown < current THEN Step(SteppedDown)
             ELSE UNCHANGED <<current, encReq>>
     ELSE IF streak + 1 >= CleanSecondsBeforeUp /\ current < ceiling
     THEN /\ streak' = 0
          /\ IF SteppedUp > current THEN Step(SteppedUp)
             ELSE UNCHANGED <<current, encReq>>
     ELSE \* only compared with CleanSecondsBeforeUp
          /\ streak' = Lower(streak + 1, CleanSecondsBeforeUp)
          /\ UNCHANGED <<current, encReq>>
  /\ beat' = "user"
  /\ UNCHANGED <<userReq, congested, ceiling, floor, taken, target, dropping,
                 net, lines, jams>>

\* The video worker, between two frames: exchange, then set_bitrate.
Take ==
  /\ encReq # 0 /\ taken = 0
  /\ taken' = encReq /\ encReq' = 0
  /\ UNCHANGED <<userReq, heart, target, dropping, net, lines, jams>>

SetBitrateClearing ==  \* (variant: what was asked since is lost)
  /\ taken # 0
  /\ target' = taken /\ taken' = 0 /\ encReq' = 0
  /\ UNCHANGED <<userReq, heart, dropping, net, lines, jams>>
SetBitrate ==
  /\ taken # 0
  /\ target' = taken /\ taken' = 0
  /\ UNCHANGED <<userReq, encReq, heart, dropping, net, lines, jams>>

\* External: packets pile up in netq and are dropped.
Congestion ==
  /\ ~dropping
  /\ \/ net = "jammed" /\ UNCHANGED jams
     \/ net = "fair" /\ jams < MaxJams /\ jams' = jams + 1
  /\ dropping' = TRUE
  /\ UNCHANGED <<userReq, encReq, heart, taken, target, net, lines>>

Settles(how) ==
  /\ net = "fair" /\ net' = how
  /\ UNCHANGED <<userReq, encReq, heart, taken, target, dropping, lines, jams>>

-----------------------------------------------------------------------------
RateNext ==
  \/ \E kbps \in Lines : Line(kbps)
  \/ UserBlock \/ AbrBlock \/ Take \/ SetBitrate
  \/ Congestion \/ \E how \in {"jammed", "clear"} : Settles(how)

RateSpec == RateInit /\ [][RateNext]_rateVars

(* Fairness: seconds go by, frames keep coming, and a jammed network is one *)
(* that makes packets pile up.                                              *)
RateFairSpec ==
  RateSpec /\ WF_rateVars(UserBlock) /\ WF_rateVars(AbrBlock) /\ WF_rateVars(Take) /\ WF_rateVars(SetBitrate)
       /\ WF_rateVars(net = "jammed" /\ Congestion)

-----------------------------------------------------------------------------
(* Properties.                                                             *)

\* The rate stays between the floor and the ceiling of the latest line.
WithinLimits == floor <= current /\ current <= ceiling /\ floor = FloorOf(ceiling)

\* The latest decision of the heartbeat is never lost on its way: it waits to be
\* taken, is in the hand of the video worker, or has been set.
LatestIsOnItsWay ==
  current = IF encReq # 0 THEN encReq ELSE IF taken # 0 THEN taken ELSE target

\* On a network that stays jammed the encoder comes down to the floor
\* (main.cpp:238, "steps down under real network congestion").
StepsDown == Abr /\ net = "jammed" ~> EncoderRate = FloorOf(ceiling)

\* Once conditions are clean it goes all the way back to the ceiling
\* (main.cpp:238-239, "back up gradually once clean").
BacksUp == Abr /\ net = "clear" ~> EncoderRate = ceiling

\* At every moment between two steps of the three threads the rate is within the
\* limits of the latest line and the decision for it has not been lost.
RateIsSound == WithinLimits /\ LatestIsOnItsWay

\* The rate follows the network, down to the floor and back up to the ceiling.
FollowsTheNetwork == StepsDown /\ BacksUp
=============================================================================
