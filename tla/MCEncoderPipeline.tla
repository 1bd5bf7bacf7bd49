------------------------- MODULE MCEncoderPipeline -------------------------
(* Instances of EncoderPipeline.                                           *)
EXTENDS EncoderPipeline
ThreeAndOne == [video |-> 3, audio |-> 1]
=============================================================================
