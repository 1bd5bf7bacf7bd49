---------------------------- MODULE OrderedMerge ----------------------------
(***************************************************************************)
(* What a receiver of two redundant paths promises (the comment on         *)
(* RedundancyReceiver, src/cpp/include/redundancy.h): the packets that     *)
(* arrive by at least one path come out once each, and those of one stream *)
(* in presentation order.                                                  *)
(***************************************************************************)
EXTENDS Sequences, Functions

CONSTANTS Packets,  \* what was sent
          Stream,   \* Stream[k]: the stream index of packet k
          Pts       \* Pts[k]: its presentation time

VARIABLES arrived,  \* packets that came in by some path
          emitted   \* packets handed on, in the order they were

Init == arrived = {} /\ emitted = <<>>

Arrive(k) ==
  /\ arrived' = arrived \cup {k}
  /\ UNCHANGED emitted

Emit(k) ==
  /\ k \in arrived \ Range(emitted)
  /\ \A j \in Range(emitted) : Stream[j] = Stream[k] => Pts[j] < Pts[k]
  /\ emitted' = Append(emitted, k)
  /\ UNCHANGED arrived

Next == \E k \in Packets : Arrive(k) \/ Emit(k)

Spec == Init /\ [][Next]_<<arrived, emitted>>
=============================================================================
