--------------------------- MODULE Encoder_proofs ---------------------------
(***************************************************************************)
(* Proofs about three parts of the encoder program: its redundant output   *)
(* (RedundantOutput), its bit rate (BitrateControl) and the threads and    *)
(* queues in between (EncoderPipeline).                                    *)
(*                                                                         *)
(* Output: for any number of paths and writers, any threshold.  The        *)
(* inductive invariant adds to NeverStranded who may hold the lock and     *)
(* where the failures of a connection are: counted, or in the hand of a    *)
(* writer that has not counted its own yet.                                *)
(*                                                                         *)
(* Bit rate: for every bitrate, floor and set of lines.                    *)
(*                                                                         *)
(* Pipeline: for any capacities and any number of frames.  The inductive   *)
(* invariant takes Path apart: each of the five places on the way holds    *)
(* its frames in order, and all of them older than those of the place      *)
(* behind it; what each worker holds, has waiting and has lost adds up;    *)
(* and how far main is says who has not begun, what is closed and who has  *)
(* ended.                                                                  *)
(***************************************************************************)
EXTENDS RedundantOutput, BitrateControl, EncoderPipeline,
        FiniteSetTheorems, SequenceTheorems, TLAPS

-----------------------------------------------------------------------------
(* The redundant output.                                                   *)

\* The writers whose failed write on p is not counted yet.
Uncounted(p) == {w \in Writers : at[w] = p /\ step[w] = "failed"}

\* Who holds the lock of a path has a connection, and none is being taken down.
HoldersInv ==
  \A w \in Writers : step[w] \in {"in", "ok", "failed", "over"} =>
                       out[at[w]] /\ r[at[w]] # "trailer"

\* While a connection is being made there is none, and nobody asked for another;
\* the flag connected_ goes down before the connection does.
ConnectingInv ==
  \A p \in Paths : /\ r[p] \in {"backoff", "connect"} => ~out[p] /\ ~need[p]
                   /\ r[p] = "trailer" => ~connected[p]

\* Every failure that is counted or about to be was one of this connection.
CountInv ==
  \A p \in Paths : bad[p] < Threshold => failures[p] + Cardinality(Uncounted(p)) <= bad[p]

\* Whoever asks for a new connection has reason to.
CauseInv ==
  /\ \A w \in Writers : step[w] = "over" => bad[at[w]] >= Threshold
  /\ \A p \in Paths : need[p] /\ out[p] /\ r[p] # "trailer" => bad[p] >= Threshold

IInv == TypeOK /\ NeverStranded /\ HoldersInv /\ ConnectingInv /\ CountInv /\ CauseInv
-----------------------------------------------------------------------------
\* UpTo stops at the threshold and changes nothing below it.
LEMMA UpToFacts ==
  ASSUME NEW n \in Nat
  PROVE  /\ UpTo(n) \in 0..Threshold
         /\ UpTo(n) <= n
         /\ UpTo(n) < Threshold => UpTo(n) = n
BY OutputAssumption DEF UpTo

LEMMA InitType == Init => TypeOK
<1>1. 0 \in 0..Threshold /\ 0 \in Nat
  BY OutputAssumption
<1> SUFFICES ASSUME Init PROVE TypeOK
  OBVIOUS
<1>2. /\ failures \in [Paths -> 0..Threshold] /\ bad \in [Paths -> 0..Threshold]
      /\ deaths \in [Paths -> Nat]
  BY <1>1, Zenon DEF Init
<1>3. /\ out \in [Paths -> BOOLEAN] /\ dead \in [Paths -> BOOLEAN]
      /\ need \in [Paths -> BOOLEAN] /\ connected \in [Paths -> BOOLEAN]
      /\ everUp \in [Paths -> BOOLEAN] /\ stop \in BOOLEAN
  BY Zenon DEF Init
<1>4. /\ at \in [Writers -> Paths \cup {0}]
      /\ step \in [Writers -> {"idle", "lock", "in", "ok", "failed", "over"}]
      /\ \A w \in Writers : at[w] = 0 <=> step[w] = "idle"
      /\ r \in [Paths -> {"wait", "trailer", "backoff", "connect", "ended"}]
  BY DEF Init
<1> QED
  BY <1>2, <1>3, <1>4, Zenon DEF TypeOK

\* A writer that is not idle is at a path, and the counts of that path are numbers.
LEMMA AtPath ==
  ASSUME TypeOK, NEW w \in Writers, step[w] # "idle"
  PROVE  /\ at[w] \in Paths
         /\ failures[at[w]] \in Nat /\ failures[at[w]] + 1 \in Nat
         /\ bad[at[w]] \in Nat /\ bad[at[w]] + 1 \in Nat
<1>1. at[w] \in Paths
  <2>1. at[w] \in Paths \cup {0}
    BY DEF TypeOK
  <2>2. at[w] # 0
    BY DEF TypeOK
  <2> QED
    BY <2>1, <2>2
<1>2. failures[at[w]] \in 0..Threshold /\ bad[at[w]] \in 0..Threshold
  BY <1>1 DEF TypeOK
<1> QED
  BY <1>1, <1>2, OutputAssumption

\* The type invariant: no action leads outside the sets of TypeOK.
THEOREM OutputTypeCorrect == Spec => []TypeOK
<1>1. Init => TypeOK
  BY InitType
<1>2. TypeOK /\ [Next]_vars => TypeOK'
  <2> SUFFICES ASSUME TypeOK, [Next]_vars PROVE TypeOK'
    OBVIOUS
  <2> USE OutputAssumption DEF TypeOK
  <2>1. ASSUME NEW w \in Writers, NextPacket(w) PROVE TypeOK'
    BY <2>1 DEF NextPacket, GoTo, link
  <2>2. ASSUME NEW w \in Writers, Enter(w) PROVE TypeOK'
    BY <2>2 DEF Enter, GoTo, link
  <2>3. ASSUME NEW w \in Writers, WriteOk(w) PROVE TypeOK'
    BY <2>3 DEF WriteOk, link
  <2>4. ASSUME NEW w \in Writers, WriteFails(w) PROVE TypeOK'
    <3>1. bad[at[w]] + 1 \in Nat
      BY <2>4, AtPath DEF WriteFails
    <3>2. UpTo(bad[at[w]] + 1) \in 0..Threshold
      BY <3>1, UpToFacts
    <3> QED
      BY <2>4, <3>2 DEF WriteFails, link
  <2>5. ASSUME NEW w \in Writers, Reset(w) PROVE TypeOK'
    BY <2>5 DEF Reset, GoTo, link
  <2>6. ASSUME NEW w \in Writers, Count(w) PROVE TypeOK'
    <3>1. failures[at[w]] + 1 \in Nat
      BY <2>6, AtPath DEF Count
    <3>2. UpTo(failures[at[w]] + 1) \in 0..Threshold
      BY <3>1, UpToFacts
    <3> QED
      BY <2>6, <3>2 DEF Count, GoTo, link
  <2>7. ASSUME NEW w \in Writers, Signal(w) PROVE TypeOK'
    BY <2>7 DEF Signal, GoTo, link
  <2>8. ASSUME NEW p \in Paths, TakeDown(p) PROVE TypeOK'
    BY <2>8 DEF TakeDown, writers
  <2>9. ASSUME NEW p \in Paths, TornDown(p) PROVE TypeOK'
    BY <2>9 DEF TornDown, writers
  <2>10. ASSUME NEW p \in Paths, BackedOff(p) PROVE TypeOK'
    BY <2>10 DEF BackedOff, writers
  <2>11. ASSUME NEW p \in Paths, Connected(p) PROVE TypeOK'
    BY <2>11 DEF Connected, writers
  <2>12. ASSUME NEW p \in Paths, ConnectFails(p) PROVE TypeOK'
    BY <2>12 DEF ConnectFails, writers
  <2>13. ASSUME NEW p \in Paths, End(p) PROVE TypeOK'
    BY <2>13 DEF End, writers
  <2>14. ASSUME NEW p \in Paths, Dies(p) PROVE TypeOK'
    BY <2>14 DEF Dies, writers
  <2>15. CASE Destroy
    BY <2>15 DEF Destroy
  <2>16. CASE UNCHANGED vars
    BY <2>16 DEF vars
  <2> QED
    BY <2>1, <2>2, <2>3, <2>4, <2>5, <2>6, <2>7, <2>8, <2>9, <2>10, <2>11, <2>12,
       <2>13, <2>14, <2>15, <2>16 DEF Next, Write, Reconnect
<1> QED
  BY <1>1, <1>2, PTL DEF Spec

-----------------------------------------------------------------------------
\* The writers of a path are finitely many.
LEMMA UncountedFinite ==
  ASSUME NEW p
  PROVE  IsFiniteSet(Uncounted(p)) /\ Cardinality(Uncounted(p)) \in Nat
BY OutputAssumption, FS_Subset, FS_CardinalityType DEF Uncounted

\* A writer that fails joins those who have to count, one that counts leaves them.
LEMMA OneMore ==
  ASSUME TypeOK, NEW w \in Writers, WriteFails(w), NEW p \in Paths
  PROVE  Cardinality(Uncounted(p))' =
           Cardinality(Uncounted(p)) + (IF p = at[w] THEN 1 ELSE 0)
<1>1. Uncounted(p)' = IF p = at[w] THEN Uncounted(p) \cup {w} ELSE Uncounted(p)
  BY DEF Uncounted, WriteFails, TypeOK
<1>2. w \notin Uncounted(p)
  BY DEF Uncounted, WriteFails
<1> QED
  BY <1>1, <1>2, UncountedFinite, FS_AddElement

LEMMA OneLess ==
  ASSUME TypeOK, NEW w \in Writers, Count(w), NEW p \in Paths
  PROVE  Cardinality(Uncounted(p))' =
           Cardinality(Uncounted(p)) - (IF p = at[w] THEN 1 ELSE 0)
<1>1. Uncounted(p)' = IF p = at[w] THEN Uncounted(p) \ {w} ELSE Uncounted(p)
  BY DEF Uncounted, Count, GoTo, TypeOK
<1>2. p = at[w] => w \in Uncounted(p)
  BY DEF Uncounted, Count
<1>3. IsFiniteSet(Uncounted(p)) /\ Cardinality(Uncounted(p)) \in Nat
  BY UncountedFinite
<1>4. CASE p = at[w]
  <2>1. Cardinality(Uncounted(p) \ {w}) = Cardinality(Uncounted(p)) - 1
    BY <1>2, <1>3, <1>4, FS_RemoveElement
  <2> QED
    BY <1>1, <1>4, <2>1
<1>5. CASE p # at[w]
  BY <1>1, <1>3, <1>5
<1> QED
  BY <1>4, <1>5

\* Nobody else changes what there is to count.
LEMMA Same ==
  ASSUME TypeOK, NEW p \in Paths,
         \/ UNCHANGED <<at, step>>
         \/ \E w \in Writers : NextPacket(w) \/ Enter(w) \/ WriteOk(w) \/ Reset(w) \/ Signal(w)
  PROVE  Cardinality(Uncounted(p))' = Cardinality(Uncounted(p))
<1>1. CASE UNCHANGED <<at, step>>
  BY <1>1 DEF Uncounted
<1>2. ASSUME NEW w \in Writers,
             NextPacket(w) \/ Enter(w) \/ WriteOk(w) \/ Reset(w) \/ Signal(w)
      PROVE  Uncounted(p)' = Uncounted(p)
  BY <1>2 DEF Uncounted, NextPacket, Enter, WriteOk, Reset, Signal, GoTo, TypeOK
<1> QED
  BY <1>1, <1>2

-----------------------------------------------------------------------------
\* The inductive invariant.
LEMMA IInvInit == Init => IInv
<1> SUFFICES ASSUME Init PROVE IInv
  OBVIOUS
<1>1. TypeOK
  BY InitType
<1>2. CountInv
  <2>1. \A p : Uncounted(p) = {}
    BY DEF Init, Uncounted
  <2> QED
    BY <2>1, FS_EmptySet DEF Init, CountInv
<1> QED
  BY <1>1, <1>2 DEF Init, IInv, NeverStranded, HoldersInv, ConnectingInv, CauseInv

LEMMA WriterStep ==
  ASSUME IInv, TypeOK', NEW w \in Writers, NextPacket(w) \/ Write(w)
  PROVE  IInv'
<1> USE OutputAssumption DEF IInv, TypeOK
<1>1. CASE NextPacket(w)
  <2>1. CountInv'
    BY <1>1, Same DEF CountInv, NextPacket, link
  <2> QED
    BY <1>1, <2>1 DEF NextPacket, GoTo, link, NeverStranded, HoldersInv, ConnectingInv, CauseInv
<1>2. CASE Enter(w)
  <2>1. CountInv'
    BY <1>2, Same DEF CountInv, Enter, link
  <2> QED
    BY <1>2, <2>1 DEF Enter, Exclusive, GoTo, link, NeverStranded, HoldersInv, ConnectingInv, CauseInv
<1>3. CASE WriteOk(w)
  <2>1. CountInv'
    BY <1>3, Same DEF CountInv, WriteOk, link
  <2> QED
    BY <1>3, <2>1 DEF WriteOk, link, NeverStranded, HoldersInv, ConnectingInv, CauseInv
<1>4. CASE WriteFails(w)
  <2> DEFINE b == bad[at[w]]
  <2>1. b \in Nat /\ at[w] \in Paths
    BY <1>4, AtPath DEF WriteFails
  <2>2. /\ UpTo(b + 1) \in 0..Threshold
        /\ UpTo(b + 1) < Threshold => UpTo(b + 1) = b + 1
        /\ b >= Threshold => UpTo(b + 1) >= Threshold
    BY <2>1 DEF UpTo
  <2>3. CountInv'
    <3> SUFFICES ASSUME NEW q \in Paths, bad'[q] < Threshold
                 PROVE  failures'[q] + Cardinality(Uncounted(q))' <= bad'[q]
      BY DEF CountInv
    <3>1. Cardinality(Uncounted(q))' = Cardinality(Uncounted(q)) + (IF q = at[w] THEN 1 ELSE 0)
      BY <1>4, OneMore
    <3>2. Cardinality(Uncounted(q)) \in Nat
      BY UncountedFinite
    <3>3. failures'[q] = failures[q] /\ failures[q] \in Nat /\ bad[q] \in Nat
      BY <1>4 DEF WriteFails
    <3>4. bad'[q] = IF q = at[w] THEN UpTo(b + 1) ELSE bad[q]
      BY <1>4 DEF WriteFails
    <3> QED
      BY <2>1, <2>2, <3>1, <3>2, <3>3, <3>4 DEF CountInv
  <2>4. CauseInv'
    <3>1. bad' = [bad EXCEPT ![at[w]] = UpTo(b + 1)]
      BY <1>4 DEF WriteFails
    <3> QED
      BY <1>4, <2>1, <2>2, <3>1 DEF WriteFails, link, CauseInv
  <2> QED
    BY <1>4, <2>3, <2>4 DEF WriteFails, link, NeverStranded, HoldersInv, ConnectingInv
<1>5. CASE Reset(w)
  <2>1. CountInv'
    <3>1. \A q \in Paths : /\ Cardinality(Uncounted(q))' = Cardinality(Uncounted(q))
                            /\ Cardinality(Uncounted(q)) \in Nat
      BY <1>5, Same, UncountedFinite
    <3>2. \A q \in Paths : failures'[q] <= failures[q] /\ failures'[q] \in Nat
      BY <1>5 DEF Reset
    <3> QED
      BY <1>5, <3>1, <3>2 DEF CountInv, Reset, link
  <2> QED
    BY <1>5, <2>1 DEF Reset, GoTo, link, NeverStranded, HoldersInv, ConnectingInv, CauseInv
<1>6. CASE Count(w)
  <2>0. at[w] \in Paths /\ failures[at[w]] \in Nat /\ bad[at[w]] \in Nat
    BY <1>6, AtPath DEF Count
  <2>1. CountInv'
    <3> SUFFICES ASSUME NEW q \in Paths, bad'[q] < Threshold
                 PROVE  failures'[q] + Cardinality(Uncounted(q))' <= bad'[q]
      BY DEF CountInv
    <3>1. Cardinality(Uncounted(q))' = Cardinality(Uncounted(q)) - (IF q = at[w] THEN 1 ELSE 0)
      BY <1>6, OneLess
    <3>2. Cardinality(Uncounted(q)) \in Nat
      BY UncountedFinite
    <3>3. bad'[q] = bad[q] /\ failures[q] \in Nat /\ bad[q] \in Nat
      BY <1>6 DEF Count, link
    <3>4. failures'[q] = IF q = at[w] THEN UpTo(failures[q] + 1) ELSE failures[q]
      BY <1>6 DEF Count
    <3>5. UpTo(failures[q] + 1) \in Nat /\ UpTo(failures[q] + 1) <= failures[q] + 1
      BY <3>3, UpToFacts
    <3> QED
      BY <3>1, <3>2, <3>3, <3>4, <3>5 DEF CountInv
  <2>2. failures[at[w]] + 1 >= Threshold => bad[at[w]] >= Threshold
    <3>1. w \in Uncounted(at[w])
      BY <1>6 DEF Uncounted, Count
    <3>2. Cardinality(Uncounted(at[w])) >= 1
      BY <3>1, UncountedFinite, FS_EmptySet
    <3>3. Cardinality(Uncounted(at[w])) \in Nat
      BY UncountedFinite
    <3>4. bad[at[w]] < Threshold =>
            failures[at[w]] + Cardinality(Uncounted(at[w])) <= bad[at[w]]
      BY <2>0, Zenon DEF CountInv
    <3> HIDE DEF IInv, TypeOK
    <3> QED
      BY <2>0, <3>2, <3>3, <3>4
  <2>3. CauseInv'
    BY <1>6, <2>2 DEF CauseInv, Count, GoTo, link
  <2> QED
    BY <1>6, <2>1, <2>3 DEF Count, GoTo, link, NeverStranded, HoldersInv, ConnectingInv
<1>7. CASE Signal(w)
  <2>1. CountInv'
    BY <1>7, Same DEF CountInv, Signal, link
  <2> QED
    BY <1>7, <2>1 DEF Signal, GoTo, link, NeverStranded, HoldersInv, ConnectingInv, CauseInv
<1> QED
  BY <1>1, <1>2, <1>3, <1>4, <1>5, <1>6, <1>7 DEF Write

LEMMA ReconnectStep ==
  ASSUME IInv, TypeOK', NEW p \in Paths, Reconnect(p) \/ ConnectFails(p) \/ Dies(p)
  PROVE  IInv'
<1> USE OutputAssumption DEF IInv, TypeOK, writers
<1>0. \A q \in Paths : Cardinality(Uncounted(q))' = Cardinality(Uncounted(q))
  BY Same DEF Reconnect, TakeDown, TornDown, BackedOff, Connected, End, ConnectFails, Dies
<1>1. CASE TakeDown(p)
  BY <1>0, <1>1 DEF TakeDown, Shared, Holding, NeverStranded, HoldersInv, ConnectingInv,
                    CountInv, CauseInv
<1>2. CASE TornDown(p)
  BY <1>0, <1>2 DEF TornDown, NeverStranded, HoldersInv, ConnectingInv, CountInv, CauseInv
<1>3. CASE BackedOff(p)
  BY <1>0, <1>3 DEF BackedOff, NeverStranded, HoldersInv, ConnectingInv, CountInv, CauseInv
<1>4. CASE Connected(p)
  <2>1. \A w \in Writers : ~Holding(w, p)
    BY <1>4 DEF Connected, Shared
  <2>2. Uncounted(p) = {}
    BY <2>1 DEF Uncounted, Holding
  <2>3. CountInv'
    <3>1. Cardinality(Uncounted(p)) = 0
      BY <2>2, FS_EmptySet
    <3> QED
      BY <1>0, <1>4, <3>1 DEF Connected, CountInv
  <2>4. CauseInv'
    BY <1>4, <2>1 DEF Connected, Holding, CauseInv, ConnectingInv
  <2> QED
    BY <1>4, <2>1, <2>3, <2>4 DEF Connected, Holding, NeverStranded, HoldersInv, ConnectingInv
<1>5. CASE ConnectFails(p)
  BY <1>0, <1>5 DEF ConnectFails, NeverStranded, HoldersInv, ConnectingInv, CountInv, CauseInv
<1>6. CASE End(p)
  BY <1>0, <1>6 DEF End, NeverStranded, HoldersInv, ConnectingInv, CountInv, CauseInv
<1>7. CASE Dies(p)
  BY <1>0, <1>7 DEF Dies, NeverStranded, HoldersInv, ConnectingInv, CountInv, CauseInv
<1> QED
  BY <1>1, <1>2, <1>3, <1>4, <1>5, <1>6, <1>7 DEF Reconnect

\* Whatever the threads do, IInv stays.
LEMMA IInvStep == IInv /\ TypeOK' /\ [Next]_vars => IInv'
<1> SUFFICES ASSUME IInv, TypeOK', [Next]_vars PROVE IInv'
  OBVIOUS
<1>1. CASE Destroy
  BY <1>1, Same DEF IInv, Destroy, NeverStranded, HoldersInv, ConnectingInv, CountInv, CauseInv
<1>2. CASE UNCHANGED vars
  BY <1>2, Same DEF IInv, vars, NeverStranded, HoldersInv, ConnectingInv, CountInv, CauseInv
<1> QED
  BY <1>1, <1>2, WriterStep, ReconnectStep DEF Next

THEOREM OutputInvariant == Spec => []IInv
BY IInvInit, IInvStep, OutputTypeCorrect, PTL DEF Spec

\* The reconnect thread never sleeps without a connection unless it was asked to
\* make one, for every number of paths and writers.
THEOREM NobodyIsStranded == Spec => []NeverStranded
<1>1. IInv => NeverStranded
  BY DEF IInv
<1> QED
  BY <1>1, OutputInvariant, PTL

\* A connection is only ever given up for failures of its own.
THEOREM GivenUpForCause == Spec => TornDownForCause
<1>1. IInv /\ [Next]_vars =>
        [\A p \in Paths : TakeDown(p) /\ out[p] => bad[p] >= Threshold]_vars
  BY DEF IInv, CauseInv, TakeDown
<1> QED
  BY <1>1, OutputInvariant, PTL DEF Spec, TornDownForCause

\* For every number of paths and writers a path is neither given up without a
\* cause nor left down without anyone asked to bring it up.
THEOREM PathsAreKept == Spec => KeptForCause
BY NobodyIsStranded, GivenUpForCause DEF KeptForCause

-----------------------------------------------------------------------------
(* The bit rate.                                                           *)

\* The inductive invariant: the limits and the way of the latest value need
\* each other's types only, and no further strengthening.
RateInv == RateTypeOK /\ WithinLimits /\ LatestIsOnItsWay

\* A percentage of a number is no more than the number.
LEMMA Percentage ==
  ASSUME NEW k \in Nat, NEW p \in 0..100
  PROVE  (k * p) \div 100 \in Nat /\ (k * p) \div 100 <= k
<1>1. k * p \in Nat /\ k * p <= k * 100
  <2>1. PICK d \in Nat : p + d = 100
    <3>1. 100 - p \in Nat /\ p + (100 - p) = 100 OBVIOUS
    <3> QED BY <3>1
  <2>2. k * 100 = k * p + k * d BY <2>1
  <2>3. k * p \in Nat /\ k * d \in Nat BY <2>1
  <2> QED BY <2>2, <2>3
<1>2. \A m \in Nat : m <= k * 100 => m \div 100 \in Nat /\ m \div 100 <= k
  OBVIOUS
<1> QED BY <1>1, <1>2

\* The floor of a ceiling is a rate and lies under it.
LEMMA FloorIsUnder ==
  ASSUME NEW k \in Kbps
  PROVE  FloorOf(k) \in Kbps /\ FloorOf(k) <= k
<1>1. FloorPct \in 0..100 BY BitrateAssumption
<1>2. k \in Nat /\ k >= 1 BY DEF Kbps
<1>3. (k * FloorPct) \div 100 \in Nat /\ (k * FloorPct) \div 100 <= k
  BY <1>1, <1>2, Percentage
<1> QED BY <1>2, <1>3 DEF FloorOf, Higher, Kbps

\* A step down ends between the floor and where it started, one up between
\* where it started and the ceiling.
LEMMA StepsStayBetween ==
  ASSUME RateTypeOK, WithinLimits
  PROVE  /\ SteppedDown \in Kbps /\ floor <= SteppedDown /\ SteppedDown <= current
         /\ SteppedUp \in Kbps /\ current <= SteppedUp /\ SteppedUp <= ceiling
<1>1. current \in Nat /\ floor \in Nat /\ ceiling \in Nat /\ 1 <= floor /\ 1 <= current /\ 1 <= ceiling
  BY DEF RateTypeOK, Kbps
<1>2. floor <= current /\ current <= ceiling BY DEF WithinLimits
<1>3. (current * 80) \div 100 \in Nat /\ (current * 80) \div 100 <= current BY <1>1
<1>4. (current * 105) \div 100 \in Nat /\ current <= (current * 105) \div 100 BY <1>1
<1> QED BY <1>1, <1>2, <1>3, <1>4 DEF SteppedDown, SteppedUp, Higher, Lower, Kbps

LEMMA RateInvInit ==
  ASSUME RateInit
  PROVE  RateInv
<1>1. Bitrate \in Kbps BY BitrateAssumption, Zenon DEF Kbps
<1>2. FloorOf(Bitrate) \in Kbps /\ FloorOf(Bitrate) <= Bitrate BY <1>1, FloorIsUnder
<1>3. 0 \in 0..MaxLines /\ 0 \in 0..MaxJams BY BitrateAssumption
<1>4. 0 \in 0..CleanSecondsBeforeUp /\ 0 \in Nat BY DEF CleanSecondsBeforeUp
<1>5. RateTypeOK BY <1>1, <1>2, <1>3, <1>4 DEF RateTypeOK, RateInit
<1>6. Bitrate <= Bitrate BY <1>1 DEF Kbps
<1>7. WithinLimits BY <1>2, <1>6 DEF WithinLimits, RateInit
<1>8. LatestIsOnItsWay BY DEF LatestIsOnItsWay, RateInit
<1> QED BY <1>5, <1>7, <1>8 DEF RateInv

LEMMA RateInvStep ==
  ASSUME RateInv, [RateNext]_rateVars
  PROVE  RateInv'
<1> USE DEF RateInv
<1>1. ASSUME NEW kbps \in Lines, Line(kbps) PROVE RateInv'
  <2>1. kbps \in Nat BY BitrateAssumption, Zenon
  <2>2. lines' \in 0..MaxLines
    <3>1. MaxLines \in Nat BY BitrateAssumption, Zenon
    <3> QED BY <1>1, <3>1 DEF Line, RateTypeOK
  <2>3. RateTypeOK' BY <1>1, <2>1, <2>2 DEF Line, RateTypeOK, heart
  <2>4. WithinLimits' BY <1>1 DEF Line, WithinLimits, heart
  <2>5. LatestIsOnItsWay' BY <1>1 DEF Line, LatestIsOnItsWay, heart
  <2> QED BY <2>3, <2>4, <2>5
<1>2. ASSUME UserBlock PROVE RateInv'
  <2>1. congested' \in BOOLEAN /\ dropping' \in BOOLEAN BY <1>2 DEF UserBlock
  <2>2. CASE userReq # 0 /\ Live /\ userReq # ceiling
    <3>1. userReq \in Kbps BY <2>2 DEF RateTypeOK, Kbps
    <3>2. /\ ceiling' = userReq /\ current' = userReq /\ floor' = FloorOf(userReq)
          /\ streak' = 0 /\ encReq' = userReq
      BY <1>2, <2>2 DEF UserBlock, NewCeiling
    <3>3. FloorOf(userReq) \in Kbps /\ FloorOf(userReq) <= userReq BY <3>1, FloorIsUnder
    <3>4. RateTypeOK'
      BY <1>2, <2>1, <3>1, <3>2, <3>3 DEF UserBlock, RateTypeOK, Kbps, CleanSecondsBeforeUp
    <3>5. userReq <= userReq BY <3>1 DEF Kbps
    <3>6. WithinLimits' BY <3>2, <3>3, <3>5 DEF WithinLimits
    <3>7. LatestIsOnItsWay' BY <2>2, <3>2 DEF LatestIsOnItsWay
    <3> QED BY <3>4, <3>6, <3>7
  <2>3. CASE ~(userReq # 0 /\ Live /\ userReq # ceiling)
    <3>1. UNCHANGED <<ceiling, floor, current, streak, encReq>> BY <1>2, <2>3 DEF UserBlock
    <3>2. RateTypeOK' BY <1>2, <2>1, <3>1 DEF UserBlock, RateTypeOK
    <3>3. WithinLimits' BY <3>1 DEF WithinLimits
    <3>4. LatestIsOnItsWay' BY <1>2, <3>1 DEF UserBlock, LatestIsOnItsWay
    <3> QED BY <3>2, <3>3, <3>4
  <2> QED BY <2>2, <2>3
<1>3. ASSUME AbrBlock PROVE RateInv'
  <2>1. UNCHANGED <<userReq, congested, ceiling, floor, taken, target, dropping, net, lines, jams>>
        /\ beat' = "user"
    BY <1>3 DEF AbrBlock
  <2>2. streak' \in 0..CleanSecondsBeforeUp
    BY <1>3 DEF AbrBlock, RateTypeOK, CleanSecondsBeforeUp, Lower
  <2>3. \/ UNCHANGED <<current, encReq>>
        \/ current' = SteppedDown /\ encReq' = SteppedDown
        \/ current' = SteppedUp /\ encReq' = SteppedUp
    BY <1>3 DEF AbrBlock, Step
  <2>4. CASE UNCHANGED <<current, encReq>>
    BY <2>1, <2>2, <2>4 DEF RateTypeOK, WithinLimits, LatestIsOnItsWay
  <2>5. ASSUME NEW k, k \in Kbps, floor <= k, k <= ceiling, current' = k, encReq' = k
        PROVE  RateInv'
    <3>1. k \in Nat /\ k # 0 BY <2>5 DEF Kbps
    <3>2. RateTypeOK' BY <2>1, <2>2, <2>5, <3>1 DEF RateTypeOK
    <3>3. WithinLimits' BY <2>1, <2>5 DEF WithinLimits
    <3>4. LatestIsOnItsWay' BY <2>5, <3>1 DEF LatestIsOnItsWay
    <3> QED BY <3>2, <3>3, <3>4
  <2>6. /\ SteppedDown \in Kbps /\ floor <= SteppedDown /\ SteppedDown <= ceiling
        /\ SteppedUp \in Kbps /\ floor <= SteppedUp /\ SteppedUp <= ceiling
    BY StepsStayBetween DEF WithinLimits, RateTypeOK, Kbps
  <2>7. CASE current' = SteppedDown /\ encReq' = SteppedDown BY <2>5, <2>6, <2>7
  <2>8. CASE current' = SteppedUp /\ encReq' = SteppedUp BY <2>5, <2>6, <2>8
  <2> QED BY <2>3, <2>4, <2>7, <2>8
<1>4. CASE Take
  BY <1>4 DEF Take, RateTypeOK, WithinLimits, LatestIsOnItsWay, heart
<1>5. CASE SetBitrate
  BY <1>5 DEF SetBitrate, RateTypeOK, WithinLimits, LatestIsOnItsWay, heart, Kbps
<1>6. CASE Congestion
  <2>1. jams' \in 0..MaxJams
    <3>1. MaxJams \in Nat BY BitrateAssumption, Zenon
    <3> QED BY <1>6, <3>1 DEF Congestion, RateTypeOK
  <2> QED BY <1>6, <2>1 DEF Congestion, RateTypeOK, WithinLimits, LatestIsOnItsWay, heart
<1>7. ASSUME NEW how \in {"jammed", "clear"}, Settles(how) PROVE RateInv'
  BY <1>7 DEF Settles, RateTypeOK, WithinLimits, LatestIsOnItsWay, heart
<1>8. CASE UNCHANGED rateVars
  BY <1>8 DEF rateVars, heart, RateTypeOK, WithinLimits, LatestIsOnItsWay
<1> QED BY <1>1, <1>2, <1>3, <1>4, <1>5, <1>6, <1>7, <1>8 DEF RateNext

LEMMA RateInvariant == RateSpec => []RateInv
<1>1. RateInit => RateInv BY RateInvInit
<1>2. RateInv /\ [RateNext]_rateVars => RateInv' BY RateInvStep
<1> QED BY <1>1, <1>2, PTL DEF RateSpec

\* The values of the shared atomics and of the three threads stay well-formed.
THEOREM BitrateTypeCorrect == RateSpec => []RateTypeOK
<1>1. RateInv => RateTypeOK BY DEF RateInv
<1> QED BY <1>1, RateInvariant, PTL

\* Whatever lines come in and however the network behaves, the rate stays
\* between the floor and the ceiling of the latest line, and no decision of the
\* heartbeat is lost between the two atomics and the encoder.
THEOREM RateStaysSound == RateSpec => []RateIsSound
<1>1. RateInv => RateIsSound BY DEF RateInv, RateIsSound
<1> QED BY <1>1, RateInvariant, PTL

-----------------------------------------------------------------------------
(* The pipeline: sequences of frames.                                      *)

\* Every frame of kind k in A was captured before those in B.
Before(A, B, k) == \A f \in A, h \in B : f.kind = k /\ h.kind = k => f.n < h.n

\* The frames of a sequence.
LEMMA RangeIs ==
  ASSUME NEW s \in Seq(Frames)
  PROVE  Range(s) = {s[i] : i \in 1..Len(s)} /\ Range(s) \subseteq Frames /\ DOMAIN s = 1..Len(s)
BY RangeEquality, LenProperties DEF Range

LEMMA TailFacts ==
  ASSUME NEW s \in Seq(Frames), s # <<>>, NEW k \in Kinds
  PROVE  /\ Tail(s) \in Seq(Frames) /\ Len(Tail(s)) = Len(s) - 1 /\ Len(s) > 0
         /\ \A i \in 1..Len(Tail(s)) : Tail(s)[i] = s[i + 1]
         /\ Head(s) \in Frames /\ Head(s) = s[1]
         /\ Range(s) = {Head(s)} \cup Range(Tail(s))
         /\ Ascending(s, k) => Ascending(Tail(s), k) /\ Before({Head(s)}, Range(Tail(s)), k)
<1>1. /\ Tail(s) \in Seq(Frames) /\ Len(Tail(s)) = Len(s) - 1 /\ Len(s) > 0 /\ Len(s) \in Nat
      /\ \A i \in 1..Len(Tail(s)) : Tail(s)[i] = s[i + 1]
      /\ Head(s) \in Frames /\ Head(s) = s[1]
  BY HeadTailProperties, EmptySeq, LenProperties
<1>2. Range(s) = {Head(s)} \cup Range(Tail(s))
  <2>1. \A i \in 1..Len(s) : i = 1 \/ (i - 1 \in 1..Len(Tail(s)) /\ s[i] = Tail(s)[i - 1])
    BY <1>1
  <2>2. \A i \in 1..Len(Tail(s)) : i + 1 \in 1..Len(s) BY <1>1
  <2>3. 1 \in 1..Len(s) BY <1>1
  <2>4. Range(s) = {s[i] : i \in 1..Len(s)} BY RangeIs
  <2>5. Range(Tail(s)) = {Tail(s)[i] : i \in 1..Len(Tail(s))} BY <1>1, RangeIs
  <2> QED BY <1>1, <2>1, <2>2, <2>3, <2>4, <2>5
<1>3. ASSUME Ascending(s, k) PROVE Ascending(Tail(s), k) /\ Before({Head(s)}, Range(Tail(s)), k)
  <2>1. DOMAIN s = 1..Len(s) /\ DOMAIN Tail(s) = 1..Len(Tail(s)) BY <1>1, RangeIs
  <2>2. Ascending(Tail(s), k)
    <3> SUFFICES ASSUME NEW i \in 1..Len(Tail(s)), NEW j \in 1..Len(Tail(s)), i < j,
                        Tail(s)[i].kind = k, Tail(s)[j].kind = k
                 PROVE  Tail(s)[i].n < Tail(s)[j].n
      BY <2>1 DEF Ascending
    <3>1. i + 1 \in DOMAIN s /\ j + 1 \in DOMAIN s /\ i + 1 < j + 1 BY <1>1, <2>1
    <3> QED BY <1>1, <1>3, <3>1 DEF Ascending
  <2>3. ASSUME NEW h \in Range(Tail(s)), Head(s).kind = k, h.kind = k PROVE Head(s).n < h.n
    <3>1. PICK j \in 1..Len(Tail(s)) : h = Tail(s)[j] BY <1>1, RangeIs
    <3>2. 1 \in DOMAIN s /\ j + 1 \in DOMAIN s /\ 1 < j + 1 /\ h = s[j + 1] BY <1>1, <2>1, <3>1
    <3> QED BY <1>1, <1>3, <2>3, <3>2 DEF Ascending
  <2> QED BY <2>2, <2>3 DEF Before
<1> QED BY <1>1, <1>2, <1>3

LEMMA AppendFacts ==
  ASSUME NEW s \in Seq(Frames), NEW f \in Frames, NEW k \in Kinds
  PROVE  /\ Append(s, f) \in Seq(Frames) /\ Len(Append(s, f)) = Len(s) + 1
         /\ \A i \in 1..Len(s) : Append(s, f)[i] = s[i]
         /\ Append(s, f)[Len(s) + 1] = f
         /\ Range(Append(s, f)) = Range(s) \cup {f}
         /\ Ascending(s, k) /\ Before(Range(s), {f}, k) => Ascending(Append(s, f), k)
<1>1. /\ Append(s, f) \in Seq(Frames) /\ Len(Append(s, f)) = Len(s) + 1 /\ Len(s) \in Nat
      /\ \A i \in 1..Len(s) : Append(s, f)[i] = s[i]
      /\ Append(s, f)[Len(s) + 1] = f
  BY AppendProperties, LenProperties
<1>2. Range(Append(s, f)) = Range(s) \cup {f}
  <2>1. \A i \in 1..Len(s) + 1 : i \in 1..Len(s) \/ i = Len(s) + 1 BY <1>1
  <2>2. \A i \in 1..Len(s) : i \in 1..Len(s) + 1 BY <1>1
  <2>3. Len(s) + 1 \in 1..Len(s) + 1 BY <1>1
  <2>4. Range(s) = {s[i] : i \in 1..Len(s)} BY RangeIs
  <2>5. Range(Append(s, f)) = {Append(s, f)[i] : i \in 1..Len(s) + 1} BY <1>1, RangeIs
  <2> QED BY <1>1, <2>1, <2>2, <2>3, <2>4, <2>5
<1>3. ASSUME Ascending(s, k), Before(Range(s), {f}, k) PROVE Ascending(Append(s, f), k)
  <2>1. DOMAIN s = 1..Len(s) /\ DOMAIN Append(s, f) = 1..Len(s) + 1 BY <1>1, RangeIs
  <2> SUFFICES ASSUME NEW i \in 1..Len(s) + 1, NEW j \in 1..Len(s) + 1, i < j,
                      Append(s, f)[i].kind = k, Append(s, f)[j].kind = k
               PROVE  Append(s, f)[i].n < Append(s, f)[j].n
    BY <2>1 DEF Ascending
  <2>2. i \in 1..Len(s) BY <1>1
  <2>3. CASE j \in 1..Len(s) BY <1>1, <1>3, <2>1, <2>2, <2>3 DEF Ascending
  <2>4. CASE j = Len(s) + 1
    <3>1. s[i] \in Range(s) BY <2>2, RangeIs
    <3> QED BY <1>1, <1>3, <2>2, <2>4, <3>1 DEF Before
  <2> QED BY <1>1, <2>3, <2>4
<1> QED BY <1>1, <1>2, <1>3

LEMMA ConcatFacts ==
  ASSUME NEW s \in Seq(Frames), NEW t \in Seq(Frames), NEW k \in Kinds
  PROVE  /\ s \o t \in Seq(Frames) /\ Len(s \o t) = Len(s) + Len(t)
         /\ Range(s \o t) = Range(s) \cup Range(t)
         /\ Ascending(s, k) /\ Ascending(t, k) /\ Before(Range(s), Range(t), k)
              => Ascending(s \o t, k)
<1>1. /\ s \o t \in Seq(Frames) /\ Len(s \o t) = Len(s) + Len(t) /\ Len(s) \in Nat /\ Len(t) \in Nat
      /\ \A i \in 1..Len(s) + Len(t) : (s \o t)[i] = IF i <= Len(s) THEN s[i] ELSE t[i - Len(s)]
  BY ConcatProperties, LenProperties
<1>2. Range(s \o t) = Range(s) \cup Range(t) BY RangeConcatenation
<1>3. ASSUME Ascending(s, k), Ascending(t, k), Before(Range(s), Range(t), k)
      PROVE  Ascending(s \o t, k)
  <2>1. /\ DOMAIN s = 1..Len(s) /\ DOMAIN t = 1..Len(t) /\ DOMAIN (s \o t) = 1..Len(s) + Len(t)
        /\ \A i \in 1..Len(s) : s[i] \in Range(s)
        /\ \A i \in 1..Len(t) : t[i] \in Range(t)
    BY <1>1, RangeIs
  <2> SUFFICES ASSUME NEW i \in 1..Len(s) + Len(t), NEW j \in 1..Len(s) + Len(t), i < j,
                      (s \o t)[i].kind = k, (s \o t)[j].kind = k
               PROVE  (s \o t)[i].n < (s \o t)[j].n
    BY <2>1 DEF Ascending
  <2>2. CASE j <= Len(s)
    <3>1. (s \o t)[i] = s[i] /\ (s \o t)[j] = s[j] /\ i \in 1..Len(s) /\ j \in 1..Len(s)
      BY <1>1, <2>2
    <3> QED BY <1>3, <2>1, <3>1 DEF Ascending
  <2>3. CASE i > Len(s)
    <3>1. /\ (s \o t)[i] = t[i - Len(s)] /\ (s \o t)[j] = t[j - Len(s)]
          /\ i - Len(s) \in 1..Len(t) /\ j - Len(s) \in 1..Len(t) /\ i - Len(s) < j - Len(s)
      BY <1>1, <2>3
    <3> QED BY <1>3, <2>1, <3>1 DEF Ascending
  <2>4. CASE i <= Len(s) /\ j > Len(s)
    <3>1. /\ (s \o t)[i] = s[i] /\ (s \o t)[j] = t[j - Len(s)]
          /\ i \in 1..Len(s) /\ j - Len(s) \in 1..Len(t)
      BY <1>1, <2>4
    <3> QED BY <1>3, <2>1, <3>1 DEF Before
  <2> QED BY <1>1, <2>2, <2>3, <2>4
<1> QED BY <1>1, <1>2, <1>3

\* A worker's hand is empty or holds one frame.
LEMMA HandFacts ==
  ASSUME NEW s \in Seq(Frames), Len(s) = 0 \/ Len(s) = 1
  PROVE  /\ \A k \in Kinds : Ascending(s, k)
         /\ Len(s) = 0 => s = <<>> /\ Range(s) = {}
         /\ Len(s) = 1 => s = <<s[1]>> /\ s[1] \in Frames /\ Range(s) = {s[1]}
<1>1. Range(s) = {s[i] : i \in 1..Len(s)} /\ DOMAIN s = 1..Len(s) /\ Len(s) \in Nat
  BY RangeIs, LenProperties
<1>2. \A k \in Kinds : Ascending(s, k) BY <1>1 DEF Ascending
<1>3. Len(s) = 0 => s = <<>> /\ Range(s) = {} BY <1>1, EmptySeq
<1>4. ASSUME Len(s) = 1 PROVE s = <<s[1]>> /\ s[1] \in Frames /\ Range(s) = {s[1]}
  <2>1. 1..Len(s) = {1} BY <1>4
  <2>2. s[1] \in Frames BY <2>1, ElementOfSeq
  <2>3. <<s[1]>> \in Seq(Frames) /\ Len(<<s[1]>>) = 1 /\ <<s[1]>>[1] = s[1] BY <2>2
  <2>4. s = <<s[1]>> BY <1>4, <2>1, <2>3, SeqEqual
  <2> QED BY <1>1, <2>1, <2>2, <2>4
<1> QED BY <1>2, <1>3, <1>4

-----------------------------------------------------------------------------
(* The pipeline: its inductive invariant.                                  *)

Encoder(k) == IF k = "video" THEN "vworker" ELSE "aworker"

\* How far main is with its Script says who has not begun, what is closed, and who
\* has ended.
ScriptInv ==
  /\ main <= 1 => place["netout"] = "unborn"
  /\ main <= 4 => place["pworker"] = "unborn"
  /\ main <= 5 => place["vworker"] = "unborn"
  /\ main <= 6 => place["aworker"] = "unborn"
  /\ capturing => main <= 8
  /\ closed["vq"] => main > 9
  /\ closed["aq"] => main > 10
  /\ main > 12 => place["vworker"] = "done"
  /\ main > 14 => place["aworker"] = "done"
  /\ closed["netq"] \/ closed["previewq"] => main > 14

\* As far as an encoder, a kind of frame has a way of its own.
KindInv ==
  \A k \in Kinds : \A f \in Range(hand[Encoder(k)]) \cup Range(queue[CaptureQueue[k]]) :
    f.kind = k

\* Frames of one kind in five places, the oldest in o; n is the latest of all.
Chain(o, m, q, h, c, k, n) ==
  /\ Before(o, m \cup q \cup h \cup c, k) /\ Before(m, q \cup h \cup c, k)
  /\ Before(q, h \cup c, k) /\ Before(h, c, k)
  /\ \A f \in o \cup m \cup q \cup h \cup c : f.kind = k => f.n <= n

\* Each place on the way holds its frames in the order captured, and all of them
\* older ones than the place before it.
OrderInv ==
  \A k \in Kinds :
    /\ Ascending(sent, k) /\ Ascending(queue["netq"], k) /\ Ascending(queue[CaptureQueue[k]], k)
    /\ Chain(Range(sent), Range(hand["netout"]), Range(queue["netq"]),
             Range(hand[Encoder(k)]), Range(queue[CaptureQueue[k]]), k, captured[k])

\* (A name of its own, for the provers: they take a sum of lengths apart.)
Size(s) == Len(s)

\* What w holds, may still take, and will not get any more.
Share(w) == Size(hand[w]) + Size(queue[Source[w]]) + dropped[Source[w]]

CountedInv ==
  captured["video"] + captured["audio"] =
    Size(sent) + Share("netout") + Share("vworker") + Share("aworker") + cleared

PipelineInv ==
  PipelineTypeOK /\ ScriptInv /\ KindInv /\ OrderInv /\ LatestAreKept /\ CountedInv

-----------------------------------------------------------------------------
(* The pipeline: what its operations do.                                   *)

LEMMA PipelineNames ==
  /\ Queues = {"vq", "aq", "netq", "previewq"} /\ Workers = {"vworker", "aworker", "pworker", "netout"}
  /\ \A k \in Kinds : Encoder(k) \in Workers \ {"netout", "pworker"}
                      /\ CaptureQueue[k] \in Queues \ {"netq", "previewq"}
  /\ \A w \in Workers : Source[w] \in Queues
  /\ \A q \in Queues : Capacity[q] \in Nat \ {0}
BY CapacityAssumption DEF Queues, Workers, Kinds, Encoder, CaptureQueue, Source, Capacity

LEMMA ScriptIs ==
  /\ Len(Startup) = 7 /\ Len(Script) = 20
  /\ Script[1] = Start("netout") /\ Script[2] = Clear("vq") /\ Script[3] = Clear("aq")
  /\ Script[4] = Start("pworker") /\ Script[5] = Start("vworker") /\ Script[6] = Start("aworker")
  /\ Script[7] = AwaitStop /\ Script[8] = StopCapture
  /\ Script[9] = Close("vq") /\ Script[10] = Close("aq")
  /\ Script[11] = Stop("vworker") /\ Script[12] = Join("vworker")
  /\ Script[13] = Stop("aworker") /\ Script[14] = Join("aworker")
  /\ Script[15] = Close("netq") /\ Script[16] = Close("previewq")
  /\ Script[17] = Stop("pworker") /\ Script[18] = Join("pworker")
  /\ Script[19] = Stop("netout") /\ Script[20] = Join("netout")
BY DEF Script, Startup, Start, Clear, Close, Stop, Join, AwaitStop, StopCapture

\* A push into an open queue adds the frame and drops at most the oldest one,
\* which it counts.
LEMMA PushFacts ==
  ASSUME PipelineTypeOK, NEW q \in Queues, NEW f \in Frames, Push(q, f)
  PROVE  /\ queue' \in [Queues -> Seq(Frames)] /\ dropped' \in [Queues -> Nat] /\ closed' = closed
         /\ \A y \in Queues : Len(queue'[y]) <= Capacity[y]
         /\ \A y \in Queues \ {q} : queue'[y] = queue[y] /\ dropped'[y] = dropped[y]
         /\ Range(queue'[q]) \subseteq Range(queue[q]) \cup {f}
         /\ \A k \in Kinds : Ascending(queue[q], k) /\ Before(Range(queue[q]), {f}, k)
                               => Ascending(queue'[q], k)
         /\ ~closed[q] =>
              /\ Len(queue'[q]) + dropped'[q] = Len(queue[q]) + dropped[q] + 1
              /\ \A i \in 1..Len(queue'[q]) :
                   \/ i = Len(queue'[q]) /\ queue'[q][i] = f
                   \/ LET j == i + Len(queue[q]) + 1 - Len(queue'[q])
                      IN i < Len(queue'[q]) /\ j \in 1..Len(queue[q]) /\ queue'[q][i] = queue[q][j]
<1> DEFINE s == queue[q]
<1>1. s \in Seq(Frames) /\ Len(s) \in Nat /\ Capacity[q] \in Nat \ {0} /\ closed' = closed
      /\ Len(s) <= Capacity[q]
  BY PipelineNames, LenProperties DEF PipelineTypeOK, Push
<1>2. CASE closed[q]
  <2>1. UNCHANGED <<queue, dropped>> BY <1>2 DEF Push
  <2> QED BY <1>1, <1>2, <2>1 DEF PipelineTypeOK
<1>3. CASE ~closed[q] /\ Len(s) < Capacity[q]
  <2>1. queue' = [queue EXCEPT ![q] = Append(s, f)] /\ dropped' = dropped BY <1>3 DEF Push
  <2>2. \A k \in Kinds :
          /\ Append(s, f) \in Seq(Frames) /\ Len(Append(s, f)) = Len(s) + 1
          /\ \A i \in 1..Len(s) : Append(s, f)[i] = s[i]
          /\ Append(s, f)[Len(s) + 1] = f
          /\ Range(Append(s, f)) = Range(s) \cup {f}
          /\ Ascending(s, k) /\ Before(Range(s), {f}, k) => Ascending(Append(s, f), k)
    BY <1>1, AppendFacts
  <2>3. queue'[q] = Append(s, f) /\ \A y \in Queues \ {q} : queue'[y] = queue[y]
    BY <2>1 DEF PipelineTypeOK
  <2>4. Append(s, f) \in Seq(Frames) /\ Len(Append(s, f)) = Len(s) + 1
    BY <2>2 DEF Kinds
  <2>5. queue' \in [Queues -> Seq(Frames)] BY <2>1, <2>4 DEF PipelineTypeOK
  <2>6. \A y \in Queues : Len(queue'[y]) <= Capacity[y]
    <3>1. \A y \in Queues \ {q} : Len(queue'[y]) <= Capacity[y] BY <2>3 DEF PipelineTypeOK
    <3>2. Len(queue'[q]) <= Capacity[q] BY <1>1, <1>3, <2>3, <2>4
    <3> QED BY <3>1, <3>2
  <2>7. \A i \in 1..Len(queue'[q]) :
          \/ i = Len(queue'[q]) /\ queue'[q][i] = f
          \/ LET j == i + Len(s) + 1 - Len(queue'[q])
             IN i < Len(queue'[q]) /\ j \in 1..Len(s) /\ queue'[q][i] = s[j]
    <3> SUFFICES ASSUME NEW i \in 1..Len(s) + 1
                 PROVE  \/ i = Len(s) + 1 /\ Append(s, f)[i] = f
                        \/ i < Len(s) + 1 /\ i \in 1..Len(s) /\ Append(s, f)[i] = s[i]
      BY <1>1, <2>3, <2>4
    <3>1. Append(s, f)[Len(s) + 1] = f /\ \A j \in 1..Len(s) : Append(s, f)[j] = s[j]
      BY <2>2 DEF Kinds
    <3> QED BY <1>1, <3>1
  <2>8. Range(queue'[q]) \subseteq Range(s) \cup {f}
    BY <2>2, <2>3 DEF Kinds
  <2>9. \A k \in Kinds : Ascending(s, k) /\ Before(Range(s), {f}, k) => Ascending(queue'[q], k)
    BY <2>2, <2>3
  <2>10. dropped' \in [Queues -> Nat] /\ dropped'[q] \in Nat BY <2>1 DEF PipelineTypeOK
  <2>11. Len(queue'[q]) + dropped'[q] = Len(s) + dropped[q] + 1 BY <1>1, <2>1, <2>3, <2>4, <2>10
  <2> QED BY <1>1, <1>3, <2>1, <2>3, <2>5, <2>6, <2>7, <2>8, <2>9, <2>10, <2>11
<1>4. CASE ~closed[q] /\ ~(Len(s) < Capacity[q])
  <2> DEFINE t == Tail(s)
  <2>1. queue' = [queue EXCEPT ![q] = Append(t, f)] /\ dropped' = [dropped EXCEPT ![q] = @ + 1]
    BY <1>4 DEF Push
  <2>2. s # <<>> BY <1>1, <1>4
  <2>3. \A k \in Kinds :
          /\ t \in Seq(Frames) /\ Len(t) = Len(s) - 1 /\ \A i \in 1..Len(t) : t[i] = s[i + 1]
          /\ Range(s) = {Head(s)} \cup Range(t)
          /\ Ascending(s, k) => Ascending(t, k)
    BY <1>1, <2>2, TailFacts
  <2>4. t \in Seq(Frames) /\ Len(t) = Len(s) - 1 /\ Range(t) \subseteq Range(s)
        /\ \A i \in 1..Len(t) : t[i] = s[i + 1]
    BY <2>3 DEF Kinds
  <2>5. \A k \in Kinds :
          /\ Append(t, f) \in Seq(Frames) /\ Len(Append(t, f)) = Len(t) + 1
          /\ \A i \in 1..Len(t) : Append(t, f)[i] = t[i]
          /\ Append(t, f)[Len(t) + 1] = f
          /\ Range(Append(t, f)) = Range(t) \cup {f}
          /\ Ascending(t, k) /\ Before(Range(t), {f}, k) => Ascending(Append(t, f), k)
    BY <2>4, AppendFacts
  <2>6. queue'[q] = Append(t, f) /\ \A y \in Queues \ {q} : queue'[y] = queue[y]
    BY <2>1 DEF PipelineTypeOK
  <2>7. Append(t, f) \in Seq(Frames) /\ Len(Append(t, f)) = Len(s)
    BY <1>1, <2>4, <2>5 DEF Kinds
  <2>8. queue' \in [Queues -> Seq(Frames)] BY <2>1, <2>7 DEF PipelineTypeOK
  <2>9. \A y \in Queues : Len(queue'[y]) <= Capacity[y]
    BY <1>1, <2>6, <2>7 DEF PipelineTypeOK
  <2>10. \A i \in 1..Len(queue'[q]) :
           \/ i = Len(queue'[q]) /\ queue'[q][i] = f
           \/ LET j == i + Len(s) + 1 - Len(queue'[q])
              IN i < Len(queue'[q]) /\ j \in 1..Len(s) /\ queue'[q][i] = s[j]
    <3> SUFFICES ASSUME NEW i \in 1..Len(s)
                 PROVE  \/ i = Len(s) /\ Append(t, f)[i] = f
                        \/ i < Len(s) /\ i + 1 \in 1..Len(s) /\ Append(t, f)[i] = s[i + 1]
      <4>1. Len(queue'[q]) = Len(s) /\ queue'[q] = Append(t, f) BY <2>6, <2>7
      <4>2. \A m \in Nat : \A i \in 1..m : i + m + 1 - m = i + 1 OBVIOUS
      <4>3. \A i \in 1..Len(s) : i + Len(s) + 1 - Len(s) = i + 1 BY <1>1, <4>2
      <4> QED BY <4>1, <4>3
    <3>1. Append(t, f)[Len(t) + 1] = f /\ \A j \in 1..Len(t) : Append(t, f)[j] = t[j]
      BY <2>5 DEF Kinds
    <3>2. CASE i = Len(s) BY <1>1, <2>4, <3>1, <3>2
    <3>3. CASE i < Len(s)
      <4>1. i \in 1..Len(t) BY <1>1, <2>4, <3>3
      <4> QED BY <1>1, <2>4, <3>1, <3>3, <4>1
    <3> QED BY <1>1, <3>2, <3>3
  <2>11. Range(queue'[q]) \subseteq Range(s) \cup {f}
    BY <2>4, <2>5, <2>6 DEF Kinds
  <2>12. \A k \in Kinds : Ascending(s, k) /\ Before(Range(s), {f}, k) => Ascending(queue'[q], k)
    BY <2>3, <2>4, <2>5, <2>6 DEF Before
  <2>13. /\ dropped' \in [Queues -> Nat] /\ dropped'[q] = dropped[q] + 1 /\ dropped[q] \in Nat
         /\ \A y \in Queues \ {q} : dropped'[y] = dropped[y]
    BY <2>1 DEF PipelineTypeOK
  <2>14. Len(queue'[q]) + dropped'[q] = Len(s) + dropped[q] + 1
    <3>1. Len(queue'[q]) = Len(s) BY <2>6, <2>7
    <3> QED BY <1>1, <2>13, <3>1
  <2> QED BY <1>1, <1>4, <2>6, <2>8, <2>9, <2>10, <2>11, <2>12, <2>13, <2>14
<1> QED BY <1>2, <1>3, <1>4

\* A worker that takes a frame takes the oldest one.
LEMMA TakesFacts ==
  ASSUME PipelineTypeOK, NEW w \in Workers, Takes(w)
  PROVE  LET s == queue[Source[w]] IN
         /\ s \in Seq(Frames) /\ s # <<>> /\ hand[w] = <<>> /\ Head(s) \in Frames
         /\ queue' \in [Queues -> Seq(Frames)] /\ hand' \in [Workers -> Seq(Frames)]
         /\ queue'[Source[w]] = Tail(s) /\ hand'[w] = <<Head(s)>>
         /\ \A y \in Queues \ {Source[w]} : queue'[y] = queue[y]
         /\ \A v \in Workers \ {w} : hand'[v] = hand[v]
         /\ Len(Tail(s)) = Len(s) - 1 /\ Len(s) \in Nat /\ Len(hand'[w]) = 1
         /\ Range(hand[w]) = {} /\ Range(hand'[w]) = {Head(s)}
         /\ Range(s) = {Head(s)} \cup Range(Tail(s))
         /\ \A i \in 1..Len(Tail(s)) : Tail(s)[i] = s[i + 1]
         /\ \A k \in Kinds : Ascending(s, k) =>
              Ascending(Tail(s), k) /\ Before({Head(s)}, Range(Tail(s)), k)
<1> DEFINE s == queue[Source[w]]
<1>1. s \in Seq(Frames) /\ s # <<>> /\ hand[w] \in Seq(Frames) /\ Source[w] \in Queues /\ Len(s) \in Nat
  BY PipelineNames, LenProperties DEF PipelineTypeOK, Takes
<1>2. Len(hand[w]) = 0 BY DEF PipelineTypeOK, Takes
<1>3. \A k \in Kinds :
        /\ Tail(s) \in Seq(Frames) /\ Len(Tail(s)) = Len(s) - 1
        /\ \A i \in 1..Len(Tail(s)) : Tail(s)[i] = s[i + 1]
        /\ Head(s) \in Frames /\ Range(s) = {Head(s)} \cup Range(Tail(s))
        /\ Ascending(s, k) => Ascending(Tail(s), k) /\ Before({Head(s)}, Range(Tail(s)), k)
  BY <1>1, TailFacts
<1>4. /\ Tail(s) \in Seq(Frames) /\ Len(Tail(s)) = Len(s) - 1
      /\ \A i \in 1..Len(Tail(s)) : Tail(s)[i] = s[i + 1]
      /\ Head(s) \in Frames /\ Range(s) = {Head(s)} \cup Range(Tail(s))
  BY <1>3 DEF Kinds
<1>5. /\ queue' = [queue EXCEPT ![Source[w]] = Tail(s)] /\ hand' = [hand EXCEPT ![w] = <<Head(s)>>]
  BY DEF Takes
<1>6. <<Head(s)>> \in Seq(Frames) /\ Len(<<Head(s)>>) = 1 /\ <<Head(s)>>[1] = Head(s) BY <1>4
<1>7. hand[w] = <<>> /\ Range(hand[w]) = {} /\ Range(<<Head(s)>>) = {Head(s)}
  <2>1. hand[w] = <<>> /\ Range(hand[w]) = {} BY <1>1, <1>2, HandFacts
  <2>2. Range(<<Head(s)>>) = {<<Head(s)>>[1]} BY <1>6, HandFacts
  <2> QED BY <1>6, <2>1, <2>2
<1>8. queue' \in [Queues -> Seq(Frames)] /\ queue'[Source[w]] = Tail(s)
      /\ \A y \in Queues \ {Source[w]} : queue'[y] = queue[y]
  BY <1>1, <1>4, <1>5 DEF PipelineTypeOK
<1>9. hand' \in [Workers -> Seq(Frames)] /\ hand'[w] = <<Head(s)>>
      /\ \A v \in Workers \ {w} : hand'[v] = hand[v]
  BY <1>5, <1>6 DEF PipelineTypeOK
<1> QED BY <1>1, <1>3, <1>4, <1>6, <1>7, <1>8, <1>9

\* A worker that goes back to the top of its loop has dealt with its frame.
LEMMA BackFacts ==
  ASSUME PipelineTypeOK, NEW w \in Workers, place[w] \in {"work", "encode"}, BackToTop(w)
  PROVE  /\ hand[w][1] \in Frames /\ Len(hand[w]) = 1 /\ Range(hand[w]) = {hand[w][1]}
         /\ hand' \in [Workers -> Seq(Frames)] /\ hand'[w] = <<>> /\ Len(hand'[w]) = 0
         /\ Range(hand'[w]) = {}
         /\ \A v \in Workers \ {w} : hand'[v] = hand[v]
         /\ place'[w] = "top" /\ \A v \in Workers \ {w} : place'[v] = place[v]
         /\ place' \in [Workers -> {"unborn", "top", "pop", "work", "encode", "done"}]
<1>1. hand[w] \in Seq(Frames) /\ Len(hand[w]) = 1 BY DEF PipelineTypeOK
<1>2. <<>> \in Seq(Frames) /\ Len(<<>>) = 0 BY EmptySeq
<1>3. hand[w][1] \in Frames /\ Range(hand[w]) = {hand[w][1]} /\ Range(<<>>) = {}
  <2>1. hand[w][1] \in Frames /\ Range(hand[w]) = {hand[w][1]} BY <1>1, HandFacts
  <2>2. Range(<<>>) = {} BY <1>2, HandFacts
  <2> QED BY <2>1, <2>2
<1> QED BY <1>1, <1>2, <1>3 DEF BackToTop, PipelineTypeOK

\* The ways in which the frames of one kind move on.
LEMMA ChainMoves ==
  ASSUME NEW o \in SUBSET Frames, NEW m \in SUBSET Frames, NEW q \in SUBSET Frames,
         NEW h \in SUBSET Frames, NEW c \in SUBSET Frames, NEW k \in Kinds, NEW n \in Nat,
         Chain(o, m, q, h, c, k, n), NEW x \in Frames
  PROVE  /\ \A d \in SUBSET c : Chain(o, m, q, h, d, k, n)
         /\ x.n = n + 1 => \A d \in SUBSET (c \cup {x}) : Chain(o, m, q, h, d, k, n + 1)
         /\ \A d : h = {} /\ c = {x} \cup d /\ Before({x}, d, k) => Chain(o, m, q, {x}, d, k, n)
         /\ h = {x} => \A d \in SUBSET (q \cup {x}) : Chain(o, m, d, {}, c, k, n)
         /\ x.kind # k => \A d \in SUBSET (q \cup {x}) : Chain(o, m, d, h, c, k, n)
         /\ \A d : m = {} /\ q = {x} \cup d /\ Before({x}, d, k) => Chain(o, {x}, d, h, c, k, n)
         /\ Chain(o \cup m, {}, q, h, c, k, n)
<1>1. \A f \in Frames : f.n \in Nat BY DEF Frames
<1>2. \A d \in SUBSET c : Chain(o, m, q, h, d, k, n) BY <1>1 DEF Chain, Before
<1>3. ASSUME x.n = n + 1, NEW d \in SUBSET (c \cup {x}) PROVE Chain(o, m, q, h, d, k, n + 1)
  <2>1. \A f \in o \cup m \cup q \cup h \cup c : f.kind = k => f.n < x.n BY <1>1, <1>3 DEF Chain
  <2>2. \A f \in o \cup m \cup q \cup h \cup d : f.kind = k => f.n <= n + 1
    BY <1>1, <1>3, <2>1
  <2>3. /\ Before(o, m \cup q \cup h \cup d, k) /\ Before(m, q \cup h \cup d, k)
        /\ Before(q, h \cup d, k) /\ Before(h, d, k)
    BY <2>1 DEF Chain, Before
  <2> QED BY <2>2, <2>3 DEF Chain
<1>4. ASSUME NEW d, h = {}, c = {x} \cup d, Before({x}, d, k) PROVE Chain(o, m, q, {x}, d, k, n)
  BY <1>4 DEF Chain, Before
<1>5. ASSUME h = {x}, NEW d \in SUBSET (q \cup {x}) PROVE Chain(o, m, d, {}, c, k, n)
  BY <1>5 DEF Chain, Before
<1>6. ASSUME x.kind # k, NEW d \in SUBSET (q \cup {x}) PROVE Chain(o, m, d, h, c, k, n)
  BY <1>6 DEF Chain, Before
<1>7. ASSUME NEW d, m = {}, q = {x} \cup d, Before({x}, d, k) PROVE Chain(o, {x}, d, h, c, k, n)
  BY <1>7 DEF Chain, Before
<1>8. Chain(o \cup m, {}, q, h, c, k, n) BY DEF Chain, Before
<1> QED BY <1>2, <1>3, <1>4, <1>5, <1>6, <1>7, <1>8

LEMMA Numbers ==
  ASSUME PipelineTypeOK
  PROVE  /\ \A w \in Workers : Size(hand[w]) \in Nat /\ Share(w) \in Nat
         /\ \A q \in Queues : Size(queue[q]) \in Nat /\ dropped[q] \in Nat
         /\ Size(sent) \in Nat /\ cleared \in Nat
         /\ captured["video"] \in Nat /\ captured["audio"] \in Nat
         /\ Share("netout") \in Nat /\ Share("vworker") \in Nat /\ Share("aworker") \in Nat
<1>1. \A w \in Workers : Size(hand[w]) \in Nat BY LenProperties DEF PipelineTypeOK, Size
<1>2. \A q \in Queues : Size(queue[q]) \in Nat /\ dropped[q] \in Nat
  BY LenProperties DEF PipelineTypeOK, Size
<1>3. \A w \in Workers : Share(w) \in Nat BY <1>1, <1>2, PipelineNames DEF Share
<1>4. Size(sent) \in Nat BY LenProperties DEF PipelineTypeOK, Size
<1> QED BY <1>1, <1>2, <1>3, <1>4 DEF PipelineTypeOK, Workers, Kinds

LEMMA PipelineRanges ==
  ASSUME PipelineTypeOK
  PROVE  /\ Range(sent) \in SUBSET Frames /\ Len(sent) \in Nat
         /\ \A w \in Workers : Range(hand[w]) \in SUBSET Frames /\ Len(hand[w]) \in Nat
         /\ \A q \in Queues : Range(queue[q]) \in SUBSET Frames /\ Len(queue[q]) \in Nat
BY RangeIs, LenProperties DEF PipelineTypeOK

-----------------------------------------------------------------------------
(* The pipeline: every step keeps the invariant.                           *)

LEMMA CaptureKeeps ==
  ASSUME PipelineInv, NEW k0 \in Kinds, Capture(k0)
  PROVE  PipelineInv'
<1> DEFINE x == [kind |-> k0, n |-> captured[k0] + 1]
           s == queue[CaptureQueue[k0]]
<1> USE DEF PipelineInv
<1>1. /\ captured' = [captured EXCEPT ![k0] = captured[k0] + 1]
      /\ captured[k0] \in Nat /\ captured[k0] + 1 <= MaxFrames[k0]
      /\ captured'[k0] = captured[k0] + 1 /\ \A k \in Kinds \ {k0} : captured'[k] = captured[k]
      /\ UNCHANGED <<place, hand, stopped, main, capturing, cleared, sent>> /\ capturing
  <2>1. captured[k0] \in Nat /\ MaxFrames[k0] \in Nat BY CapacityAssumption DEF PipelineTypeOK
  <2> QED BY <2>1 DEF Capture, PipelineTypeOK
<1>2. x \in Frames /\ x.kind = k0 /\ x.n = captured[k0] + 1 BY <1>1 DEF Frames
<1>3. CaptureQueue[k0] \in Queues \ {"netq", "previewq"}
      /\ \A k \in Kinds \ {k0} : CaptureQueue[k] # CaptureQueue[k0]
  BY PipelineNames DEF Kinds, CaptureQueue
<1>4. Push(CaptureQueue[k0], x) BY <1>1 DEF Capture
<1>5. ~closed[CaptureQueue[k0]]
  BY <1>1 DEF ScriptInv, PipelineTypeOK, Kinds, CaptureQueue
<1>6. /\ queue' \in [Queues -> Seq(Frames)] /\ dropped' \in [Queues -> Nat] /\ closed' = closed
      /\ \A y \in Queues : Len(queue'[y]) <= Capacity[y]
      /\ \A y \in Queues \ {CaptureQueue[k0]} : queue'[y] = queue[y] /\ dropped'[y] = dropped[y]
      /\ Range(queue'[CaptureQueue[k0]]) \subseteq Range(s) \cup {x}
      /\ \A k \in Kinds : Ascending(s, k) /\ Before(Range(s), {x}, k)
                            => Ascending(queue'[CaptureQueue[k0]], k)
      /\ Len(queue'[CaptureQueue[k0]]) + dropped'[CaptureQueue[k0]]
           = Len(s) + dropped[CaptureQueue[k0]] + 1
      /\ \A i \in 1..Len(queue'[CaptureQueue[k0]]) :
           \/ i = Len(queue'[CaptureQueue[k0]]) /\ queue'[CaptureQueue[k0]][i] = x
           \/ LET j == i + Len(s) + 1 - Len(queue'[CaptureQueue[k0]])
              IN i < Len(queue'[CaptureQueue[k0]]) /\ j \in 1..Len(s)
                 /\ queue'[CaptureQueue[k0]][i] = s[j]
  BY <1>2, <1>3, <1>4, <1>5, PushFacts
<1>7. PipelineTypeOK'
  <2>1. captured' \in [Kinds -> Nat] /\ \A k \in Kinds : captured'[k] <= MaxFrames[k]
    BY <1>1 DEF PipelineTypeOK
  <2> QED BY <1>1, <1>6, <2>1 DEF PipelineTypeOK
<1>8. ScriptInv' BY <1>1, <1>6 DEF ScriptInv
<1>9. KindInv'
  <2> SUFFICES ASSUME NEW k \in Kinds
               PROVE  \A f \in Range(hand'[Encoder(k)]) \cup Range(queue'[CaptureQueue[k]]) : f.kind = k
    BY DEF KindInv
  <2>1. CASE k = k0 BY <1>1, <1>2, <1>6, <2>1 DEF KindInv
  <2>2. CASE k # k0
    <3>1. queue'[CaptureQueue[k]] = queue[CaptureQueue[k]] BY <1>3, <1>6, <2>2, PipelineNames
    <3> QED BY <1>1, <3>1 DEF KindInv
  <2> QED BY <2>1, <2>2
<1>10. OrderInv'
  <2> SUFFICES ASSUME NEW k \in Kinds
               PROVE  /\ Ascending(sent', k) /\ Ascending(queue'["netq"], k)
                      /\ Ascending(queue'[CaptureQueue[k]], k)
                      /\ Chain(Range(sent'), Range(hand'["netout"]), Range(queue'["netq"]),
                               Range(hand'[Encoder(k)]), Range(queue'[CaptureQueue[k]]), k,
                               captured'[k])
    BY DEF OrderInv
  <2>1. queue'["netq"] = queue["netq"] BY <1>3, <1>6, PipelineNames
  <2>2. CASE k # k0
    <3>1. queue'[CaptureQueue[k]] = queue[CaptureQueue[k]] BY <1>3, <1>6, <2>2, PipelineNames
    <3> QED BY <1>1, <2>1, <2>2, <3>1 DEF OrderInv
  <2>3. CASE k = k0
    <3>1. Chain(Range(sent), Range(hand["netout"]), Range(queue["netq"]),
                Range(hand[Encoder(k)]), Range(s), k, captured[k]) /\ Ascending(s, k)
      BY <2>3 DEF OrderInv
    <3>2. \A f \in Range(s) : f.kind = k => f.n < x.n
      <4>1. \A f \in Range(s) : f.kind = k => f.n <= captured[k] BY <3>1 DEF Chain
      <4>2. \A f \in Range(s) : f.n \in Nat BY <1>3, PipelineRanges DEF Frames
      <4> QED BY <1>1, <1>2, <2>3, <4>1, <4>2
    <3>3. Ascending(queue'[CaptureQueue[k]], k) BY <1>6, <2>3, <3>1, <3>2 DEF Before
    <3>4. Chain(Range(sent), Range(hand["netout"]), Range(queue["netq"]), Range(hand[Encoder(k)]),
                Range(queue'[CaptureQueue[k0]]), k, captured[k] + 1)
      <4>1. /\ Range(sent) \in SUBSET Frames /\ Range(hand["netout"]) \in SUBSET Frames
            /\ Range(queue["netq"]) \in SUBSET Frames /\ Range(hand[Encoder(k)]) \in SUBSET Frames
            /\ Range(s) \in SUBSET Frames
        BY <1>3, PipelineRanges, PipelineNames
      <4>2. Range(queue'[CaptureQueue[k0]]) \in SUBSET (Range(s) \cup {x}) BY <1>6
      <4>3. captured[k] \in Nat /\ x.n = captured[k] + 1 /\ x \in Frames BY <1>1, <1>2, <2>3
      <4> HIDE DEF x, s
      <4> QED BY <3>1, <4>1, <4>2, <4>3, ChainMoves
    <3> QED BY <1>1, <2>1, <2>3, <3>3, <3>4 DEF OrderInv
  <2> QED BY <2>2, <2>3
<1>11. LatestAreKept'
  <2> SUFFICES ASSUME NEW k \in Kinds, NEW i \in DOMAIN queue'[CaptureQueue[k]]
               PROVE  queue'[CaptureQueue[k]][i].n
                        = captured'[k] - (Len(queue'[CaptureQueue[k]]) - i)
    BY DEF LatestAreKept
  <2>1. CASE k # k0
    <3>1. queue'[CaptureQueue[k]] = queue[CaptureQueue[k]] BY <1>3, <1>6, <2>1, PipelineNames
    <3> QED BY <1>1, <2>1, <3>1 DEF LatestAreKept
  <2>2. CASE k = k0
    <3> DEFINE u == Len(queue'[CaptureQueue[k0]])
    <3>1. i \in 1..u /\ u \in Nat /\ Len(s) \in Nat /\ DOMAIN s = 1..Len(s)
      BY <1>3, <1>6, <2>2, RangeIs, LenProperties DEF PipelineTypeOK
    <3>2. CASE i = u /\ queue'[CaptureQueue[k0]][i] = x BY <1>1, <1>2, <2>2, <3>1, <3>2
    <3>3. CASE i < u /\ i + Len(s) + 1 - u \in 1..Len(s)
               /\ queue'[CaptureQueue[k0]][i] = s[i + Len(s) + 1 - u]
      <4>1. s[i + Len(s) + 1 - u].n = captured[k0] - (Len(s) - (i + Len(s) + 1 - u))
        BY <3>1, <3>3 DEF LatestAreKept
      <4>2. captured[k0] - (Len(s) - (i + Len(s) + 1 - u)) = (captured[k0] + 1) - (u - i)
        <5>1. \A a, l, v \in Nat : \A m \in 1..v : a - (l - (m + l + 1 - v)) = (a + 1) - (v - m)
          OBVIOUS
        <5> HIDE DEF s, u
        <5> QED BY <1>1, <3>1, <5>1
      <4>3. queue'[CaptureQueue[k0]][i].n = (captured[k0] + 1) - (u - i) BY <3>3, <4>1, <4>2
      <4>4. captured'[k] = captured[k0] + 1 BY <1>1, <2>2
      <4> QED BY <2>2, <4>3, <4>4
    <3> QED BY <1>6, <3>1, <3>2, <3>3
  <2> QED BY <2>1, <2>2
<1>12. CountedInv'
  <2>1. \A w \in Workers \ {"pworker", Encoder(k0)} : Share(w)' = Share(w)
    <3>1. \A w \in Workers \ {"pworker", Encoder(k0)} : Source[w] # CaptureQueue[k0]
      BY DEF Workers, Encoder, Source, CaptureQueue, Kinds
    <3> QED BY <1>1, <1>6, <3>1, PipelineNames DEF Share
  <2>2. Share(Encoder(k0))' = Share(Encoder(k0)) + 1
    <3>1. Source[Encoder(k0)] = CaptureQueue[k0] /\ Encoder(k0) \in Workers
      BY DEF Source, CaptureQueue, Encoder, Kinds, Workers
    <3>2. Size(queue'[CaptureQueue[k0]]) \in Nat /\ dropped'[CaptureQueue[k0]] \in Nat
      BY <1>3, <1>6, LenProperties DEF Size
    <3>3. Size(queue'[CaptureQueue[k0]]) + dropped'[CaptureQueue[k0]]
            = Size(s) + dropped[CaptureQueue[k0]] + 1
      BY <1>6 DEF Size
    <3>4. hand' = hand BY <1>1
    <3> QED BY <1>3, <3>1, <3>2, <3>3, <3>4, Numbers DEF Share
  <2>3. cleared' = cleared /\ sent' = sent BY <1>1
  <2>4. CASE k0 = "video"
    <3>1. /\ Share("netout")' = Share("netout") /\ Share("vworker")' = Share("vworker") + 1
          /\ Share("aworker")' = Share("aworker")
      BY <2>1, <2>2, <2>4 DEF Workers, Encoder
    <3>2. captured'["video"] = captured["video"] + 1 /\ captured'["audio"] = captured["audio"]
      BY <1>1, <2>4 DEF Kinds
    <3> QED BY <2>3, <3>1, <3>2, Numbers DEF CountedInv
  <2>5. CASE k0 = "audio"
    <3>1. /\ Share("netout")' = Share("netout") /\ Share("vworker")' = Share("vworker")
          /\ Share("aworker")' = Share("aworker") + 1
      BY <2>1, <2>2, <2>5 DEF Workers, Encoder
    <3>2. captured'["video"] = captured["video"] /\ captured'["audio"] = captured["audio"] + 1
      BY <1>1, <2>5 DEF Kinds
    <3> QED BY <2>3, <3>1, <3>2, Numbers DEF CountedInv
  <2> QED BY <2>4, <2>5 DEF Kinds
<1> QED BY <1>7, <1>8, <1>9, <1>10, <1>11, <1>12

\* What leaves the frames where they are.
LEMMA FramesStay ==
  ASSUME PipelineInv, UNCHANGED <<queue, dropped, hand, captured, cleared, sent>>
  PROVE  KindInv' /\ OrderInv' /\ LatestAreKept' /\ CountedInv'
<1> USE DEF PipelineInv
<1>1. KindInv' BY DEF KindInv
<1>2. OrderInv' BY DEF OrderInv
<1>3. LatestAreKept' BY DEF LatestAreKept
<1>4. CountedInv' BY DEF CountedInv, Share
<1> QED BY <1>1, <1>2, <1>3, <1>4

\* A worker in its loop neither begins nor has ended.
LEMMA WorkerKeepsScript ==
  ASSUME PipelineTypeOK, ScriptInv, NEW w \in Workers, place[w] \notin {"unborn", "done"},
         \A v \in Workers \ {w} : place'[v] = place[v],
         UNCHANGED <<closed, main, capturing>>
  PROVE  ScriptInv'
BY DEF ScriptInv, Workers

LEMMA LoopTopKeeps ==
  ASSUME PipelineInv, NEW w \in Workers, LoopTop(w) \/ Leaves(w)
  PROVE  PipelineInv'
<1> USE DEF PipelineInv
<1>1. UNCHANGED <<queue, closed, dropped, hand, stopped, main, capturing, captured, cleared, sent>>
  BY DEF LoopTop, Leaves, queues
<1>2. /\ place[w] \notin {"unborn", "done", "work", "encode"}
      /\ place' \in [Workers -> {"unborn", "top", "pop", "work", "encode", "done"}]
      /\ place'[w] \notin {"work", "encode"} /\ \A v \in Workers \ {w} : place'[v] = place[v]
  BY DEF LoopTop, Leaves, PipelineTypeOK
<1>3. \A v \in Workers : Len(hand'[v]) = IF place'[v] \in {"work", "encode"} THEN 1 ELSE 0
  BY <1>1, <1>2 DEF PipelineTypeOK
<1>4. PipelineTypeOK' BY <1>1, <1>2, <1>3 DEF PipelineTypeOK
<1>5. ScriptInv' BY <1>1, <1>2, WorkerKeepsScript
<1> QED BY <1>1, <1>4, <1>5, FramesStay

LEMMA TakesKeeps ==
  ASSUME PipelineInv, NEW w \in Workers, Takes(w)
  PROVE  PipelineInv'
<1> DEFINE s == queue[Source[w]]
<1> USE DEF PipelineInv
<1>1. /\ s \in Seq(Frames) /\ s # <<>> /\ hand[w] = <<>> /\ Head(s) \in Frames
      /\ queue' \in [Queues -> Seq(Frames)] /\ hand' \in [Workers -> Seq(Frames)]
      /\ queue'[Source[w]] = Tail(s) /\ hand'[w] = <<Head(s)>>
      /\ \A y \in Queues \ {Source[w]} : queue'[y] = queue[y]
      /\ \A v \in Workers \ {w} : hand'[v] = hand[v]
      /\ Len(Tail(s)) = Len(s) - 1 /\ Len(s) \in Nat /\ Len(hand'[w]) = 1
      /\ Range(hand[w]) = {} /\ Range(hand'[w]) = {Head(s)}
      /\ Range(s) = {Head(s)} \cup Range(Tail(s))
      /\ \A i \in 1..Len(Tail(s)) : Tail(s)[i] = s[i + 1]
      /\ \A k \in Kinds : Ascending(s, k) =>
           Ascending(Tail(s), k) /\ Before({Head(s)}, Range(Tail(s)), k)
  BY TakesFacts
<1>2. /\ UNCHANGED <<closed, dropped, stopped, main, capturing, captured, cleared, sent>>
      /\ place[w] = "pop" /\ place'[w] = "work" /\ \A v \in Workers \ {w} : place'[v] = place[v]
      /\ place' \in [Workers -> {"unborn", "top", "pop", "work", "encode", "done"}]
  BY DEF Takes, PipelineTypeOK
<1>3. PipelineTypeOK'
  <2>1. \A y \in Queues : Len(queue'[y]) <= Capacity[y]
    <3>1. Len(s) <= Capacity[Source[w]] /\ Capacity[Source[w]] \in Nat
      BY PipelineNames DEF PipelineTypeOK
    <3>2. Len(queue'[Source[w]]) <= Capacity[Source[w]]
      <4> HIDE DEF s
      <4> QED BY <1>1, <3>1
    <3> QED BY <1>1, <3>2 DEF PipelineTypeOK
  <2>2. \A v \in Workers : Len(hand'[v]) = IF place'[v] \in {"work", "encode"} THEN 1 ELSE 0
    BY <1>1, <1>2 DEF PipelineTypeOK
  <2> QED BY <1>1, <1>2, <2>1, <2>2 DEF PipelineTypeOK
<1>4. ScriptInv' BY <1>2, WorkerKeepsScript
<1>5. ASSUME NEW k \in Kinds, w = Encoder(k)
      PROVE  /\ Source[w] = CaptureQueue[k] /\ queue'["netq"] = queue["netq"]
             /\ hand'["netout"] = hand["netout"]
             /\ \A j \in Kinds \ {k} : /\ hand'[Encoder(j)] = hand[Encoder(j)]
                                       /\ queue'[CaptureQueue[j]] = queue[CaptureQueue[j]]
  <2>1. /\ Source[w] = CaptureQueue[k] /\ Source[w] # "netq" /\ w # "netout"
        /\ \A j \in Kinds \ {k} : Encoder(j) # w /\ CaptureQueue[j] # CaptureQueue[k]
    BY <1>5 DEF Kinds, Encoder, Source, CaptureQueue
  <2> QED BY <1>1, <2>1, PipelineNames
<1>6. ASSUME \A k \in Kinds : w # Encoder(k)
      PROVE  \A j \in Kinds : /\ hand'[Encoder(j)] = hand[Encoder(j)]
                              /\ queue'[CaptureQueue[j]] = queue[CaptureQueue[j]]
  <2>1. \A j \in Kinds : CaptureQueue[j] # Source[w]
    BY <1>6 DEF Kinds, Encoder, Source, CaptureQueue, Workers
  <2> QED BY <1>1, <1>6, <2>1, PipelineNames
<1>7. KindInv'
  <2> SUFFICES ASSUME NEW k \in Kinds
               PROVE  \A f \in Range(hand'[Encoder(k)]) \cup Range(queue'[CaptureQueue[k]]) : f.kind = k
    BY DEF KindInv
  <2>1. CASE w = Encoder(k)
    <3>1. Source[w] = CaptureQueue[k] /\ \A f \in Range(s) : f.kind = k
      BY <1>5, <2>1 DEF KindInv
    <3>2. Range(hand'[w]) \subseteq Range(s) /\ Range(queue'[Source[w]]) \subseteq Range(s) BY <1>1
    <3> QED BY <2>1, <3>1, <3>2
  <2>2. CASE w # Encoder(k)
    <3>1. hand'[Encoder(k)] = hand[Encoder(k)] /\ queue'[CaptureQueue[k]] = queue[CaptureQueue[k]]
      BY <1>5, <1>6, <2>2
    <3> QED BY <3>1 DEF KindInv
  <2> QED BY <2>1, <2>2
<1>8. LatestAreKept'
  <2> SUFFICES ASSUME NEW k \in Kinds, NEW i \in DOMAIN queue'[CaptureQueue[k]]
               PROVE  queue'[CaptureQueue[k]][i].n
                        = captured'[k] - (Len(queue'[CaptureQueue[k]]) - i)
    BY DEF LatestAreKept
  <2>1. CASE w = Encoder(k)
    <3>1. Source[w] = CaptureQueue[k] /\ queue'[CaptureQueue[k]] = Tail(s) BY <1>1, <1>5, <2>1
    <3>2. Tail(s) \in Seq(Frames) BY <1>1, <3>1, PipelineNames
    <3>3. i \in 1..Len(Tail(s)) /\ DOMAIN s = 1..Len(s) BY <1>1, <3>1, <3>2, RangeIs
    <3>4. i + 1 \in DOMAIN s /\ i \in Nat BY <1>1, <3>3
    <3>5. s[i + 1].n = captured[k] - (Len(s) - (i + 1)) BY <3>1, <3>4 DEF LatestAreKept
    <3>6. captured[k] \in Nat BY DEF PipelineTypeOK
    <3>7. \A a, l, m \in Nat : a - (l - (m + 1)) = a - ((l - 1) - m) OBVIOUS
    <3>8. s[i + 1].n = captured[k] - (Len(Tail(s)) - i)
      <4> HIDE DEF s
      <4> QED BY <1>1, <3>4, <3>5, <3>6, <3>7
    <3> QED BY <1>1, <1>2, <3>1, <3>3, <3>8
  <2>2. CASE w # Encoder(k)
    <3>1. queue'[CaptureQueue[k]] = queue[CaptureQueue[k]] BY <1>5, <1>6, <2>2
    <3> QED BY <1>2, <3>1 DEF LatestAreKept
  <2> QED BY <2>1, <2>2
<1>9. OrderInv'
  <2> SUFFICES ASSUME NEW k \in Kinds
               PROVE  /\ Ascending(sent', k) /\ Ascending(queue'["netq"], k)
                      /\ Ascending(queue'[CaptureQueue[k]], k)
                      /\ Chain(Range(sent'), Range(hand'["netout"]), Range(queue'["netq"]),
                               Range(hand'[Encoder(k)]), Range(queue'[CaptureQueue[k]]), k,
                               captured'[k])
    BY DEF OrderInv
  <2> DEFINE o == Range(sent)                m == Range(hand["netout"])
             q == Range(queue["netq"])       h == Range(hand[Encoder(k)])
             c == Range(queue[CaptureQueue[k]])
  <2>1. /\ Ascending(sent, k) /\ Ascending(queue["netq"], k) /\ Ascending(queue[CaptureQueue[k]], k)
        /\ Chain(o, m, q, h, c, k, captured[k])
    BY DEF OrderInv
  <2>2. /\ o \in SUBSET Frames /\ m \in SUBSET Frames /\ q \in SUBSET Frames
        /\ h \in SUBSET Frames /\ c \in SUBSET Frames /\ captured[k] \in Nat
    BY PipelineRanges, PipelineNames DEF PipelineTypeOK
  <2>3. CASE w = Encoder(k)
    <3>1. Source[w] = CaptureQueue[k] /\ queue'["netq"] = queue["netq"]
          /\ hand'["netout"] = hand["netout"] /\ queue'[CaptureQueue[k]] = Tail(s)
      BY <1>1, <1>5, <2>3
    <3>2. h = {} /\ c = {Head(s)} \cup Range(Tail(s)) BY <1>1, <2>3, <3>1
    <3>3. Ascending(Tail(s), k) /\ Before({Head(s)}, Range(Tail(s)), k) BY <1>1, <2>1, <3>1
    <3>4. Chain(o, m, q, {Head(s)}, Range(Tail(s)), k, captured[k])
      <4> HIDE DEF o, m, q, h, c, s
      <4> QED BY <1>1, <2>1, <2>2, <3>2, <3>3, ChainMoves
    <3>5. Range(hand'[Encoder(k)]) = {Head(s)} BY <1>1, <2>3
    <3> QED BY <1>2, <2>1, <3>1, <3>3, <3>4, <3>5
  <2>4. CASE w # Encoder(k) /\ w # "netout"
    <3>1. hand'[Encoder(k)] = hand[Encoder(k)] /\ queue'[CaptureQueue[k]] = queue[CaptureQueue[k]]
      BY <1>5, <1>6, <2>4
    <3>2. Source[w] # "netq" BY <2>4 DEF Source, Workers
    <3>3. queue'["netq"] = queue["netq"] /\ hand'["netout"] = hand["netout"]
      BY <1>1, <2>4, <3>2, PipelineNames
    <3> QED BY <1>2, <2>1, <3>1, <3>3
  <2>5. CASE w = "netout"
    <3>1. Source[w] = "netq" /\ w # Encoder(k) /\ CaptureQueue[k] # "netq"
      BY <2>5, PipelineNames DEF Source
    <3>2. hand'[Encoder(k)] = hand[Encoder(k)] /\ queue'[CaptureQueue[k]] = queue[CaptureQueue[k]]
          /\ queue'["netq"] = Tail(s)
      BY <1>1, <3>1, PipelineNames
    <3>3. m = {} /\ q = {Head(s)} \cup Range(Tail(s)) BY <1>1, <2>5, <3>1
    <3>4. Ascending(Tail(s), k) /\ Before({Head(s)}, Range(Tail(s)), k) BY <1>1, <2>1, <3>1
    <3>5. Chain(o, {Head(s)}, Range(Tail(s)), h, c, k, captured[k])
      <4> HIDE DEF o, m, q, h, c, s
      <4> QED BY <1>1, <2>1, <2>2, <3>3, <3>4, ChainMoves
    <3>6. Range(hand'["netout"]) = {Head(s)} BY <1>1, <2>5
    <3> QED BY <1>2, <2>1, <3>2, <3>4, <3>5, <3>6
  <2> QED BY <2>3, <2>4, <2>5
<1>10. CountedInv'
  <2>1. Share(w)' = Share(w)
    <3>1. Size(hand[w]) = 0 /\ Size(hand'[w]) = 1 BY <1>1, <1>2 DEF Size, PipelineTypeOK
    <3>2. Size(queue'[Source[w]]) = Size(s) - 1 /\ Size(s) \in Nat BY <1>1 DEF Size
    <3>3. dropped'[Source[w]] = dropped[Source[w]] /\ dropped[Source[w]] \in Nat
      BY <1>2, PipelineNames, Numbers
    <3> HIDE DEF PipelineInv
    <3> QED BY <3>1, <3>2, <3>3 DEF Share
  <2>2. \A v \in Workers \ {w} : Share(v)' = Share(v)
    <3>1. \A v \in Workers \ {w} : Source[v] # Source[w] BY DEF Workers, Source
    <3> QED BY <1>1, <1>2, <3>1, PipelineNames DEF Share
  <2>3. /\ Share("netout")' = Share("netout") /\ Share("vworker")' = Share("vworker")
        /\ Share("aworker")' = Share("aworker")
    BY <2>1, <2>2 DEF Workers
  <2> QED BY <1>2, <2>3 DEF CountedInv
<1> QED BY <1>3, <1>4, <1>7, <1>8, <1>9, <1>10

LEMMA EncodedKeeps ==
  ASSUME PipelineInv, NEW w \in Workers, Encoded(w)
  PROVE  PipelineInv'
<1> DEFINE x == hand[w][1]
<1> USE DEF PipelineInv
<1>1. /\ place[w] \in {"work", "encode"} /\ Push("netq", x) /\ BackToTop(w) /\ sent' = sent
      /\ w \in {"vworker", "aworker"}
  BY DEF Encoded
<1>2. /\ x \in Frames /\ Len(hand[w]) = 1 /\ Range(hand[w]) = {x}
      /\ hand' \in [Workers -> Seq(Frames)] /\ Len(hand'[w]) = 0 /\ Range(hand'[w]) = {}
      /\ \A v \in Workers \ {w} : hand'[v] = hand[v]
      /\ place'[w] = "top" /\ \A v \in Workers \ {w} : place'[v] = place[v]
      /\ place' \in [Workers -> {"unborn", "top", "pop", "work", "encode", "done"}]
  BY <1>1, BackFacts
<1>3. UNCHANGED <<stopped, main, capturing, captured, cleared, sent>> BY <1>1 DEF BackToTop
<1>4. PICK k0 \in Kinds : w = Encoder(k0) /\ Source[w] = CaptureQueue[k0]
  BY <1>1 DEF Kinds, Encoder, Source, CaptureQueue
<1>5. x.kind = k0 BY <1>2, <1>4 DEF KindInv
<1>6. ~closed["netq"]
  BY <1>1 DEF ScriptInv, PipelineTypeOK
<1>7. /\ queue' \in [Queues -> Seq(Frames)] /\ dropped' \in [Queues -> Nat] /\ closed' = closed
      /\ \A y \in Queues : Len(queue'[y]) <= Capacity[y]
      /\ \A y \in Queues \ {"netq"} : queue'[y] = queue[y] /\ dropped'[y] = dropped[y]
      /\ Range(queue'["netq"]) \subseteq Range(queue["netq"]) \cup {x}
      /\ \A k \in Kinds : Ascending(queue["netq"], k) /\ Before(Range(queue["netq"]), {x}, k)
                            => Ascending(queue'["netq"], k)
      /\ Len(queue'["netq"]) + dropped'["netq"] = Len(queue["netq"]) + dropped["netq"] + 1
  <2>1. PipelineTypeOK /\ "netq" \in Queues BY DEF Queues
  <2> HIDE DEF x, PipelineInv
  <2> QED BY <1>1, <1>2, <1>6, <2>1, PushFacts
<1>8. PipelineTypeOK'
  <2>1. \A v \in Workers : Len(hand'[v]) = IF place'[v] \in {"work", "encode"} THEN 1 ELSE 0
    BY <1>2 DEF PipelineTypeOK
  <2> QED BY <1>2, <1>3, <1>7, <2>1 DEF PipelineTypeOK
<1>9. ScriptInv' BY <1>1, <1>2, <1>3, <1>7, WorkerKeepsScript
<1>10. \A k \in Kinds : queue'[CaptureQueue[k]] = queue[CaptureQueue[k]] BY <1>7, PipelineNames
<1>11. KindInv'
  <2> SUFFICES ASSUME NEW k \in Kinds
               PROVE  \A f \in Range(hand'[Encoder(k)]) \cup Range(queue'[CaptureQueue[k]]) : f.kind = k
    BY DEF KindInv
  <2>1. Range(hand'[Encoder(k)]) \subseteq Range(hand[Encoder(k)]) BY <1>2, PipelineNames
  <2> QED BY <1>10, <2>1 DEF KindInv
<1>12. LatestAreKept' BY <1>3, <1>10 DEF LatestAreKept
<1>13. OrderInv'
  <2> SUFFICES ASSUME NEW k \in Kinds
               PROVE  /\ Ascending(sent', k) /\ Ascending(queue'["netq"], k)
                      /\ Ascending(queue'[CaptureQueue[k]], k)
                      /\ Chain(Range(sent'), Range(hand'["netout"]), Range(queue'["netq"]),
                               Range(hand'[Encoder(k)]), Range(queue'[CaptureQueue[k]]), k,
                               captured'[k])
    BY DEF OrderInv
  <2> DEFINE o == Range(sent)                m == Range(hand["netout"])
             q == Range(queue["netq"])       h == Range(hand[Encoder(k)])
             c == Range(queue[CaptureQueue[k]])
             d == Range(queue'["netq"])
  <2>1. /\ Ascending(sent, k) /\ Ascending(queue["netq"], k) /\ Ascending(queue[CaptureQueue[k]], k)
        /\ Chain(o, m, q, h, c, k, captured[k])
    BY DEF OrderInv
  <2>2. /\ o \in SUBSET Frames /\ m \in SUBSET Frames /\ q \in SUBSET Frames
        /\ h \in SUBSET Frames /\ c \in SUBSET Frames /\ captured[k] \in Nat
    BY PipelineRanges, PipelineNames DEF PipelineTypeOK
  <2>3. d \in SUBSET (q \cup {x}) BY <1>7
  <2>4. hand'["netout"] = hand["netout"] BY <1>1, <1>2 DEF Workers
  <2>5. CASE k = k0
    <3>1. h = {x} /\ Range(hand'[Encoder(k)]) = {} BY <1>2, <1>4, <2>5
    <3>2. Before(q, {x}, k) BY <2>1, <3>1 DEF Chain, Before
    <3>3. Ascending(queue'["netq"], k) BY <1>7, <2>1, <3>2
    <3>4. Chain(o, m, d, {}, c, k, captured[k])
      <4> HIDE DEF o, m, q, h, c, d, x
      <4> QED BY <1>2, <2>1, <2>2, <2>3, <3>1, ChainMoves
    <3> QED BY <1>3, <1>10, <2>1, <2>4, <3>1, <3>3, <3>4
  <2>6. CASE k # k0
    <3>1. hand'[Encoder(k)] = hand[Encoder(k)]
      <4>1. Encoder(k) # w BY <1>4, <2>6 DEF Kinds, Encoder
      <4> QED BY <1>2, <4>1, PipelineNames
    <3>2. Before(q, {x}, k) BY <1>5, <2>6 DEF Before
    <3>3. Ascending(queue'["netq"], k) BY <1>7, <2>1, <3>2
    <3>4. Chain(o, m, d, h, c, k, captured[k])
      <4>1. x.kind # k BY <1>5, <2>6
      <4> HIDE DEF o, m, q, h, c, d, x
      <4> QED BY <1>2, <2>1, <2>2, <2>3, <4>1, ChainMoves
    <3> QED BY <1>3, <1>10, <2>1, <2>4, <3>1, <3>3, <3>4
  <2> QED BY <2>5, <2>6
<1>14. CountedInv'
  <2>1. Share(w)' = Share(w) - 1
    <3>1. Size(hand[w]) = 1 /\ Size(hand'[w]) = 0 BY <1>2 DEF Size
    <3>2. queue'[Source[w]] = queue[Source[w]] /\ dropped'[Source[w]] = dropped[Source[w]]
      BY <1>4, <1>7, PipelineNames
    <3>3. Size(queue[Source[w]]) \in Nat /\ dropped[Source[w]] \in Nat BY PipelineNames, Numbers
    <3> QED BY <3>1, <3>2, <3>3 DEF Share
  <2>2. Share("netout")' = Share("netout") + 1
    <3>1. Size(queue'["netq"]) + dropped'["netq"] = Size(queue["netq"]) + dropped["netq"] + 1
      BY <1>7 DEF Size
    <3>2. Size(queue'["netq"]) \in Nat /\ dropped'["netq"] \in Nat
          /\ Size(queue["netq"]) \in Nat /\ dropped["netq"] \in Nat /\ Size(hand["netout"]) \in Nat
      BY <1>7, LenProperties, Numbers DEF Size, Queues, Workers
    <3>3. hand'["netout"] = hand["netout"] /\ Source["netout"] = "netq"
      BY <1>1, <1>2 DEF Workers, Source
    <3> QED BY <3>1, <3>2, <3>3 DEF Share
  <2>3. \A v \in {"vworker", "aworker"} \ {w} : Share(v)' = Share(v)
    <3>1. \A v \in {"vworker", "aworker"} : v \in Workers /\ Source[v] \in Queues \ {"netq"}
      BY DEF Workers, Source, Queues
    <3> QED BY <1>2, <1>7, <3>1 DEF Share
  <2>4. CASE w = "vworker"
    <3>1. Share("vworker")' = Share("vworker") - 1 /\ Share("aworker")' = Share("aworker")
      BY <2>1, <2>3, <2>4
    <3> QED BY <1>3, <2>2, <3>1, Numbers DEF CountedInv
  <2>5. CASE w = "aworker"
    <3>1. Share("aworker")' = Share("aworker") - 1 /\ Share("vworker")' = Share("vworker")
      BY <2>1, <2>3, <2>5
    <3> QED BY <1>3, <2>2, <3>1, Numbers DEF CountedInv
  <2> QED BY <1>1, <2>4, <2>5
<1> QED BY <1>8, <1>9, <1>11, <1>12, <1>13, <1>14

LEMMA WrittenKeeps ==
  ASSUME PipelineInv, NEW w \in Workers, Written(w)
  PROVE  PipelineInv'
<1> USE DEF PipelineInv
<1>1. /\ w \in {"netout", "pworker"} /\ place[w] = "work" /\ BackToTop(w)
      /\ sent' = IF w = "netout" THEN sent \o hand[w] ELSE sent
      /\ UNCHANGED <<queue, closed, dropped, stopped, main, capturing, captured, cleared>>
  BY DEF Written, BackToTop, queues
<1>2. /\ Len(hand[w]) = 1 /\ hand[w] \in Seq(Frames)
      /\ hand' \in [Workers -> Seq(Frames)] /\ Len(hand'[w]) = 0 /\ Range(hand'[w]) = {}
      /\ \A v \in Workers \ {w} : hand'[v] = hand[v]
      /\ place'[w] = "top" /\ \A v \in Workers \ {w} : place'[v] = place[v]
      /\ place' \in [Workers -> {"unborn", "top", "pop", "work", "encode", "done"}]
  BY <1>1, BackFacts DEF PipelineTypeOK
<1>3. sent \in Seq(Frames) BY DEF PipelineTypeOK
<1>4. \A k \in Kinds :
        /\ sent \o hand[w] \in Seq(Frames) /\ Len(sent \o hand[w]) = Len(sent) + Len(hand[w])
        /\ Range(sent \o hand[w]) = Range(sent) \cup Range(hand[w])
        /\ Ascending(sent, k) /\ Ascending(hand[w], k) /\ Before(Range(sent), Range(hand[w]), k)
             => Ascending(sent \o hand[w], k)
  BY <1>2, <1>3, ConcatFacts
<1>5. PipelineTypeOK'
  <2>1. \A v \in Workers : Len(hand'[v]) = IF place'[v] \in {"work", "encode"} THEN 1 ELSE 0
    BY <1>2 DEF PipelineTypeOK
  <2>2. sent' \in Seq(Frames) BY <1>1, <1>3, <1>4 DEF Kinds
  <2> QED BY <1>1, <1>2, <2>1, <2>2 DEF PipelineTypeOK
<1>6. ScriptInv' BY <1>1, <1>2, WorkerKeepsScript
<1>7. \A k \in Kinds : hand'[Encoder(k)] = hand[Encoder(k)] BY <1>1, <1>2, PipelineNames
<1>8. KindInv' BY <1>1, <1>7 DEF KindInv
<1>9. LatestAreKept' BY <1>1 DEF LatestAreKept
<1>10. OrderInv'
  <2> SUFFICES ASSUME NEW k \in Kinds
               PROVE  /\ Ascending(sent', k) /\ Ascending(queue'["netq"], k)
                      /\ Ascending(queue'[CaptureQueue[k]], k)
                      /\ Chain(Range(sent'), Range(hand'["netout"]), Range(queue'["netq"]),
                               Range(hand'[Encoder(k)]), Range(queue'[CaptureQueue[k]]), k,
                               captured'[k])
    BY DEF OrderInv
  <2> DEFINE o == Range(sent)                m == Range(hand["netout"])
             q == Range(queue["netq"])       h == Range(hand[Encoder(k)])
             c == Range(queue[CaptureQueue[k]])
  <2>1. /\ Ascending(sent, k) /\ Ascending(queue["netq"], k) /\ Ascending(queue[CaptureQueue[k]], k)
        /\ Chain(o, m, q, h, c, k, captured[k])
    BY DEF OrderInv
  <2>2. /\ o \in SUBSET Frames /\ m \in SUBSET Frames /\ q \in SUBSET Frames
        /\ h \in SUBSET Frames /\ c \in SUBSET Frames /\ captured[k] \in Nat
    BY PipelineRanges, PipelineNames DEF PipelineTypeOK
  <2>3. CASE w = "netout"
    <3>1. Ascending(hand[w], k) BY <1>2, HandFacts
    <3>2. Before(o, m, k) BY <2>1 DEF Chain, Before
    <3>3. Ascending(sent', k) /\ Range(sent') = o \cup m BY <1>1, <1>4, <2>1, <2>3, <3>1, <3>2
    <3>4. Chain(o \cup m, {}, q, h, c, k, captured[k]) BY <2>1 DEF Chain, Before
    <3> QED BY <1>1, <1>2, <1>7, <2>1, <2>3, <3>3, <3>4
  <2>4. CASE w # "netout"
    <3>1. sent' = sent /\ hand'["netout"] = hand["netout"] BY <1>1, <1>2, <2>4 DEF Workers
    <3> QED BY <1>1, <1>7, <2>1, <3>1
  <2> QED BY <2>3, <2>4
<1>11. CountedInv'
  <2>1. /\ Share("vworker")' = Share("vworker") /\ Share("aworker")' = Share("aworker")
        /\ cleared' = cleared /\ captured' = captured
    BY <1>1, <1>2 DEF Share, Workers
  <2>2. CASE w = "netout"
    <3>1. Size(sent') = Size(sent) + 1 BY <1>1, <1>2, <1>4, <2>2 DEF Size, Kinds
    <3>2. Share("netout")' = Share("netout") - 1
      <4>1. Size(hand[w]) = 1 /\ Size(hand'[w]) = 0 BY <1>2 DEF Size
      <4>2. Size(queue[Source[w]]) \in Nat /\ dropped[Source[w]] \in Nat BY PipelineNames, Numbers
      <4>3. queue' = queue /\ dropped' = dropped BY <1>1
      <4> QED BY <2>2, <4>1, <4>2, <4>3 DEF Share
    <3> QED BY <2>1, <3>1, <3>2, Numbers DEF CountedInv
  <2>3. CASE w # "netout"
    <3>1. sent' = sent /\ Share("netout")' = Share("netout")
      BY <1>1, <1>2, <2>3 DEF Share, Workers
    <3> QED BY <2>1, <3>1 DEF CountedInv
  <2> QED BY <2>2, <2>3
<1> QED BY <1>5, <1>6, <1>8, <1>9, <1>10, <1>11

\* The preview has a queue of its own, which is no part of the way.
LEMMA PreviewKeeps ==
  ASSUME PipelineInv, Preview
  PROVE  PipelineInv'
<1> USE DEF PipelineInv
<1>1. /\ place["vworker"] = "work" /\ Push("previewq", hand["vworker"][1])
      /\ place' = [place EXCEPT !["vworker"] = "encode"]
      /\ UNCHANGED <<hand, stopped, main, capturing, captured, cleared, sent>>
  BY DEF Preview
<1>2. hand["vworker"] \in Seq(Frames) /\ Len(hand["vworker"]) = 1
  BY <1>1 DEF PipelineTypeOK, Workers
<1>3. hand["vworker"][1] \in Frames BY <1>2, HandFacts
<1>4. /\ queue' \in [Queues -> Seq(Frames)] /\ dropped' \in [Queues -> Nat] /\ closed' = closed
      /\ \A y \in Queues : Len(queue'[y]) <= Capacity[y]
      /\ \A y \in Queues \ {"previewq"} : queue'[y] = queue[y] /\ dropped'[y] = dropped[y]
  BY <1>1, <1>3, PushFacts, PipelineNames
<1>5. /\ place' \in [Workers -> {"unborn", "top", "pop", "work", "encode", "done"}]
      /\ place'["vworker"] = "encode" /\ \A v \in Workers \ {"vworker"} : place'[v] = place[v]
  BY <1>1 DEF PipelineTypeOK, Workers
<1>6. PipelineTypeOK'
  <2>1. \A v \in Workers : Len(hand'[v]) = IF place'[v] \in {"work", "encode"} THEN 1 ELSE 0
    BY <1>1, <1>2, <1>5 DEF PipelineTypeOK
  <2> QED BY <1>1, <1>4, <1>5, <2>1 DEF PipelineTypeOK
<1>7. ScriptInv' BY <1>1, <1>4, <1>5, WorkerKeepsScript DEF Workers
<1>8. queue'["netq"] = queue["netq"] /\ \A k \in Kinds : queue'[CaptureQueue[k]] = queue[CaptureQueue[k]]
  BY <1>4, PipelineNames
<1>9. KindInv' BY <1>1, <1>8 DEF KindInv
<1>10. LatestAreKept' BY <1>1, <1>8 DEF LatestAreKept
<1>11. OrderInv' BY <1>1, <1>8 DEF OrderInv
<1>12. CountedInv'
  <2>1. \A v \in Workers \ {"pworker"} : Source[v] \in Queues \ {"previewq"}
    BY DEF Workers, Source, Queues
  <2>2. \A v \in Workers \ {"pworker"} : Share(v)' = Share(v) BY <1>1, <1>4, <2>1 DEF Share
  <2>3. /\ Share("netout")' = Share("netout") /\ Share("vworker")' = Share("vworker")
        /\ Share("aworker")' = Share("aworker")
    BY <2>2 DEF Workers
  <2> QED BY <1>1, <2>3 DEF CountedInv
<1> QED BY <1>6, <1>7, <1>9, <1>10, <1>11, <1>12

\* A step of main that only starts, stops or waits for a thread, or closes a queue.
LEMMA MainKeepsFrames ==
  ASSUME PipelineInv, MainStep, Script[main].op # "clear"
  PROVE  /\ UNCHANGED <<queue, dropped, hand, captured, cleared, sent>>
         /\ KindInv' /\ OrderInv' /\ LatestAreKept' /\ CountedInv'
<1>1. UNCHANGED <<queue, dropped, hand, captured, cleared, sent>> BY DEF MainStep
<1> QED BY <1>1, FramesStay

\* clear() on a capture queue, before the encoders start: its frames are gone, and
\* counted.
LEMMA ClearKeepsFrames ==
  ASSUME PipelineInv, NEW k0 \in Kinds, captured' = captured,
         UNCHANGED <<hand, dropped, sent>>,
         queue' = [queue EXCEPT ![CaptureQueue[k0]] = <<>>],
         cleared' = cleared + Len(queue[CaptureQueue[k0]])
  PROVE  /\ queue' \in [Queues -> Seq(Frames)] /\ cleared' \in Nat
         /\ \A q \in Queues : Len(queue'[q]) <= Capacity[q]
         /\ KindInv' /\ OrderInv' /\ LatestAreKept' /\ CountedInv'
<1> USE DEF PipelineInv
<1> DEFINE s == queue[CaptureQueue[k0]]
<1>1. <<>> \in Seq(Frames) /\ Len(<<>>) = 0 BY EmptySeq
<1>2. Range(<<>>) = {} /\ \A k \in Kinds : Ascending(<<>>, k) BY <1>1, HandFacts
<1>3. CaptureQueue[k0] \in Queues \ {"netq", "previewq"} /\ Encoder(k0) \in Workers
      /\ Source[Encoder(k0)] = CaptureQueue[k0]
      /\ \A k \in Kinds \ {k0} : CaptureQueue[k] # CaptureQueue[k0]
  BY PipelineNames DEF Kinds, CaptureQueue, Encoder, Source
<1>4. /\ queue' \in [Queues -> Seq(Frames)] /\ queue'[CaptureQueue[k0]] = <<>>
      /\ \A q \in Queues \ {CaptureQueue[k0]} : queue'[q] = queue[q]
  BY <1>1, <1>3 DEF PipelineTypeOK
<1>5. \A q \in Queues : Len(queue'[q]) <= Capacity[q]
  <2>1. \A q \in Queues : Capacity[q] \in Nat /\ Len(queue[q]) <= Capacity[q]
    BY PipelineNames DEF PipelineTypeOK
  <2>2. \A q \in Queues : queue'[q] = <<>> \/ queue'[q] = queue[q] BY <1>4
  <2> HIDE DEF PipelineInv
  <2> QED BY <1>1, <2>1, <2>2
<1>6. cleared' \in Nat BY <1>3, PipelineRanges DEF PipelineTypeOK
<1>7. \A k \in Kinds \ {k0} : queue'[CaptureQueue[k]] = queue[CaptureQueue[k]]
  BY <1>3, <1>4, PipelineNames
<1>8. KindInv'
  <2>1. \A k \in Kinds : Range(queue'[CaptureQueue[k]]) \subseteq Range(queue[CaptureQueue[k]])
    BY <1>2, <1>4, <1>7
  <2> QED BY <2>1 DEF KindInv
<1>9. LatestAreKept'
  <2> SUFFICES ASSUME NEW k \in Kinds, NEW i \in DOMAIN queue'[CaptureQueue[k]]
               PROVE  queue'[CaptureQueue[k]][i].n
                        = captured'[k] - (Len(queue'[CaptureQueue[k]]) - i)
    BY DEF LatestAreKept
  <2>1. DOMAIN <<>> = {} OBVIOUS
  <2>2. k # k0 BY <1>4, <2>1
  <2> QED BY <1>7, <2>2 DEF LatestAreKept
<1>10. OrderInv'
  <2> SUFFICES ASSUME NEW k \in Kinds
               PROVE  /\ Ascending(sent, k) /\ Ascending(queue'["netq"], k)
                      /\ Ascending(queue'[CaptureQueue[k]], k)
                      /\ Chain(Range(sent), Range(hand["netout"]), Range(queue'["netq"]),
                               Range(hand[Encoder(k)]), Range(queue'[CaptureQueue[k]]), k,
                               captured[k])
    BY DEF OrderInv
  <2>1. queue'["netq"] = queue["netq"] BY <1>3, <1>4, PipelineNames
  <2>2. CASE k # k0 BY <1>7, <2>1, <2>2 DEF OrderInv
  <2>3. CASE k = k0
    <3>1. /\ Ascending(sent, k) /\ Ascending(queue["netq"], k)
          /\ Chain(Range(sent), Range(hand["netout"]), Range(queue["netq"]),
                   Range(hand[Encoder(k)]), Range(s), k, captured[k])
      BY <2>3 DEF OrderInv
    <3>2. Chain(Range(sent), Range(hand["netout"]), Range(queue["netq"]),
                Range(hand[Encoder(k)]), {}, k, captured[k])
      BY <3>1 DEF Chain, Before
    <3> QED BY <1>2, <1>4, <2>1, <2>3, <3>1, <3>2
  <2> QED BY <2>2, <2>3
<1>11. CountedInv'
  <2>1. Share(Encoder(k0))' = Share(Encoder(k0)) - Size(s)
    <3>1. Size(queue'[CaptureQueue[k0]]) = 0 BY <1>1, <1>4 DEF Size
    <3>2. Size(s) \in Nat /\ Size(hand[Encoder(k0)]) \in Nat /\ dropped[CaptureQueue[k0]] \in Nat
      BY <1>3, Numbers
    <3> HIDE DEF PipelineInv
    <3> QED BY <1>3, <3>1, <3>2 DEF Share
  <2>2. \A w \in Workers \ {"pworker", Encoder(k0)} : Share(w)' = Share(w)
    <3>1. \A w \in Workers \ {"pworker", Encoder(k0)} : Source[w] # CaptureQueue[k0]
      BY DEF Workers, Encoder, Source, CaptureQueue, Kinds
    <3> QED BY <1>4, <3>1, PipelineNames DEF Share
  <2>3. cleared' = cleared + Size(s) /\ Size(s) \in Nat BY <1>3, Numbers DEF Size
  <2>4. CASE k0 = "video"
    <3>1. /\ Share("netout")' = Share("netout") /\ Share("vworker")' = Share("vworker") - Size(s)
          /\ Share("aworker")' = Share("aworker")
      BY <2>1, <2>2, <2>4 DEF Workers, Encoder
    <3> QED BY <2>3, <3>1, Numbers DEF CountedInv
  <2>5. CASE k0 = "audio"
    <3>1. /\ Share("netout")' = Share("netout") /\ Share("vworker")' = Share("vworker")
          /\ Share("aworker")' = Share("aworker") - Size(s)
      BY <2>1, <2>2, <2>5 DEF Workers, Encoder
    <3> QED BY <2>3, <3>1, Numbers DEF CountedInv
  <2> QED BY <2>4, <2>5 DEF Kinds
<1> QED BY <1>4, <1>5, <1>6, <1>8, <1>9, <1>10, <1>11

LEMMA ScriptOps ==
  /\ \A i \in 1..20 : Script[i].op = CASE i \in {1, 4, 5, 6} -> "start"
                                       [] i \in {2, 3} -> "clear"
                                       [] i \in {9, 10, 15, 16} -> "close"
                                       [] i \in {11, 13, 17, 19} -> "request_stop"
                                       [] i \in {12, 14, 18, 20} -> "join"
                                       [] i = 7 -> "await"
                                       [] OTHER -> "stop"
  /\ Script[1].on = "netout" /\ Script[4].on = "pworker"
  /\ Script[5].on = "vworker" /\ Script[6].on = "aworker"
  /\ Script[2].on = "vq" /\ Script[3].on = "aq"
  /\ Script[9].on = "vq" /\ Script[10].on = "aq"
  /\ Script[15].on = "netq" /\ Script[16].on = "previewq"
  /\ Script[12].on = "vworker" /\ Script[14].on = "aworker"
<1> USE DEF Start, Clear, Close, Stop, Join, AwaitStop, StopCapture
<1>1. /\ Script[1].op = "start" /\ Script[2].op = "clear" /\ Script[3].op = "clear"
      /\ Script[4].op = "start" /\ Script[5].op = "start" /\ Script[6].op = "start"
      /\ Script[7].op = "await" /\ Script[8].op = "stop"
      /\ Script[9].op = "close" /\ Script[10].op = "close"
  BY ScriptIs
<1>2. /\ Script[11].op = "request_stop" /\ Script[12].op = "join"
      /\ Script[13].op = "request_stop" /\ Script[14].op = "join"
      /\ Script[15].op = "close" /\ Script[16].op = "close"
      /\ Script[17].op = "request_stop" /\ Script[18].op = "join"
      /\ Script[19].op = "request_stop" /\ Script[20].op = "join"
  BY ScriptIs
<1>3. /\ Script[1].on = "netout" /\ Script[4].on = "pworker"
      /\ Script[5].on = "vworker" /\ Script[6].on = "aworker"
      /\ Script[2].on = "vq" /\ Script[3].on = "aq"
      /\ Script[9].on = "vq" /\ Script[10].on = "aq"
      /\ Script[15].on = "netq" /\ Script[16].on = "previewq"
      /\ Script[12].on = "vworker" /\ Script[14].on = "aworker"
  BY ScriptIs
<1>4. \A i \in 1..20 : i \in 1..10 \/ i \in 11..20 OBVIOUS
<1> QED BY <1>1, <1>2, <1>3, <1>4

\* Main starts a thread, ...
LEMMA MainStarts ==
  ASSUME PipelineTypeOK, MainStep
  PROVE  /\ main \in 1..20 /\ main' = main + 1 /\ main' \in 1..21
         /\ main \notin {1, 4, 5, 6} => place' = place
         /\ main = 1 => place' = [place EXCEPT !["netout"] = "top"]
         /\ main = 4 => place' = [place EXCEPT !["pworker"] = "top"]
         /\ main = 5 => place' = [place EXCEPT !["vworker"] = "top"]
         /\ main = 6 => place' = [place EXCEPT !["aworker"] = "top"]
         /\ UNCHANGED <<dropped, hand, captured, sent>>
<1>1. Len(Script) = 20 BY ScriptIs
<1>2. main \in 1..20 /\ main' = main + 1 /\ main' \in 1..21 BY <1>1 DEF MainStep, Returned, PipelineTypeOK
<1>3. place' = IF Script[main].op = "start" THEN [place EXCEPT ![Script[main].on] = "top"] ELSE place
  BY DEF MainStep
<1>4. Script[main].op = "start" <=> main \in {1, 4, 5, 6} BY <1>2, ScriptOps
<1>5. main = 1 => Script[main].on = "netout" BY ScriptOps
<1>6. main = 4 => Script[main].on = "pworker" BY ScriptOps
<1>7. main = 5 => Script[main].on = "vworker" BY ScriptOps
<1>8. main = 6 => Script[main].on = "aworker" BY ScriptOps
<1>9. UNCHANGED <<dropped, hand, captured, sent>> BY DEF MainStep
<1> QED BY <1>2, <1>3, <1>4, <1>5, <1>6, <1>7, <1>8, <1>9

\* ... or ends something.
LEMMA MainEnds ==
  ASSUME PipelineTypeOK, MainStep
  PROVE  /\ main \notin {9, 10, 15, 16} => closed' = closed
         /\ main = 9 => closed' = [closed EXCEPT !["vq"] = TRUE]
         /\ main = 10 => closed' = [closed EXCEPT !["aq"] = TRUE]
         /\ main = 15 => closed' = [closed EXCEPT !["netq"] = TRUE]
         /\ main = 16 => closed' = [closed EXCEPT !["previewq"] = TRUE]
         /\ capturing' = (capturing /\ main # 8)
         /\ main = 12 => place["vworker"] = "done"
         /\ main = 14 => place["aworker"] = "done"
         /\ stopped' \in [Workers -> BOOLEAN]
         /\ main \notin {2, 3} => Script[main].op # "clear"
         /\ main \in {2, 3} =>
              LET q == IF main = 2 THEN "vq" ELSE "aq"
              IN queue' = [queue EXCEPT ![q] = <<>>] /\ cleared' = cleared + Len(queue[q])
<1>1. main \in 1..20 BY MainStarts
<1>2. /\ closed' = IF Script[main].op = "close" THEN [closed EXCEPT ![Script[main].on] = TRUE]
                   ELSE closed
      /\ capturing' = (capturing /\ Script[main].op # "stop")
      /\ Script[main].op = "join" => place[Script[main].on] = "done"
      /\ Script[main].op = "clear" =>
           /\ queue' = [queue EXCEPT ![Script[main].on] = <<>>]
           /\ cleared' = cleared + Len(queue[Script[main].on])
  BY DEF MainStep
<1>3. /\ Script[main].op = "close" <=> main \in {9, 10, 15, 16}
      /\ Script[main].op = "stop" <=> main = 8
      /\ Script[main].op = "clear" <=> main \in {2, 3}
      /\ Script[main].op = "join" <=> main \in {12, 14, 18, 20}
  <2>1. Script[main].op = "close" <=> main \in {9, 10, 15, 16} BY <1>1, ScriptOps
  <2>2. Script[main].op = "stop" <=> main = 8 BY <1>1, ScriptOps
  <2>3. Script[main].op = "clear" <=> main \in {2, 3} BY <1>1, ScriptOps
  <2>4. Script[main].op = "join" <=> main \in {12, 14, 18, 20} BY <1>1, ScriptOps
  <2> QED BY <2>1, <2>2, <2>3, <2>4
<1>4. stopped' \in [Workers -> BOOLEAN]
  <2>1. stopped' = stopped \/ \E w : stopped' = [stopped EXCEPT ![w] = TRUE] BY DEF MainStep
  <2> QED BY <2>1 DEF PipelineTypeOK
<1>5. /\ main \notin {9, 10, 15, 16} => closed' = closed
      /\ main = 9 => closed' = [closed EXCEPT !["vq"] = TRUE]
      /\ main = 10 => closed' = [closed EXCEPT !["aq"] = TRUE]
      /\ main = 15 => closed' = [closed EXCEPT !["netq"] = TRUE]
      /\ main = 16 => closed' = [closed EXCEPT !["previewq"] = TRUE]
  <2>1. main = 9 => Script[main].on = "vq" BY ScriptOps
  <2>2. main = 10 => Script[main].on = "aq" BY ScriptOps
  <2>3. main = 15 => Script[main].on = "netq" BY ScriptOps
  <2>4. main = 16 => Script[main].on = "previewq" BY ScriptOps
  <2> QED BY <1>2, <1>3, <2>1, <2>2, <2>3, <2>4
<1>6. capturing' = (capturing /\ main # 8) BY <1>2, <1>3
<1>7. (main = 12 => place["vworker"] = "done") /\ (main = 14 => place["aworker"] = "done")
  <2>1. main = 12 => Script[main].on = "vworker" BY ScriptOps
  <2>2. main = 14 => Script[main].on = "aworker" BY ScriptOps
  <2> QED BY <1>2, <1>3, <2>1, <2>2
<1>8. main \in {2, 3} =>
        LET q == IF main = 2 THEN "vq" ELSE "aq"
        IN queue' = [queue EXCEPT ![q] = <<>>] /\ cleared' = cleared + Len(queue[q])
  <2>1. main = 2 => Script[main].on = "vq" BY ScriptOps
  <2>2. main = 3 => Script[main].on = "aq" BY ScriptOps
  <2> QED BY <1>2, <1>3, <2>1, <2>2
<1> QED BY <1>3, <1>4, <1>5, <1>6, <1>7, <1>8

LEMMA MainStepKeeps ==
  ASSUME PipelineInv, MainStep
  PROVE  PipelineInv'
<1> USE DEF PipelineInv
<1>1. /\ queue' \in [Queues -> Seq(Frames)] /\ cleared' \in Nat
      /\ \A q \in Queues : Len(queue'[q]) <= Capacity[q]
      /\ KindInv' /\ OrderInv' /\ LatestAreKept' /\ CountedInv'
  <2>1. CASE main \in {2, 3}
    <3>1. PICK k0 \in Kinds : /\ queue' = [queue EXCEPT ![CaptureQueue[k0]] = <<>>]
                              /\ cleared' = cleared + Len(queue[CaptureQueue[k0]])
      BY <2>1, MainStarts, MainEnds DEF Kinds, CaptureQueue
    <3> HIDE DEF PipelineInv
    <3> QED BY <3>1, MainStarts, MainEnds, ClearKeepsFrames DEF PipelineInv
  <2>2. CASE main \notin {2, 3}
    <3>1. Script[main].op # "clear" BY <2>2, MainStarts, MainEnds
    <3> QED BY <3>1, MainKeepsFrames DEF PipelineTypeOK
  <2> QED BY <2>1, <2>2
<1>2. /\ place' \in [Workers -> {"unborn", "top", "pop", "work", "encode", "done"}]
      /\ \A w \in Workers : place'[w] = place[w] \/ (place[w] = "unborn" /\ place'[w] = "top")
  <2>1. \A w \in Workers : place[w] = "unborn" /\ place' = [place EXCEPT ![w] = "top"] =>
            /\ place' \in [Workers -> {"unborn", "top", "pop", "work", "encode", "done"}]
            /\ place'[w] = "top" /\ \A v \in Workers \ {w} : place'[v] = place[v]
    BY DEF PipelineTypeOK
  <2>2. place' = place \/ \E w \in Workers : place[w] = "unborn" /\ place' = [place EXCEPT ![w] = "top"]
    BY MainStarts DEF ScriptInv, Workers
  <2> QED BY <2>1, <2>2 DEF PipelineTypeOK
<1>3. closed' \in [Queues -> BOOLEAN] BY MainStarts, MainEnds DEF PipelineTypeOK
<1>4. PipelineTypeOK'
  <2>1. \A w \in Workers : Len(hand'[w]) = IF place'[w] \in {"work", "encode"} THEN 1 ELSE 0
    <3>1. hand' = hand BY MainStarts
    <3>2. \A w \in Workers : place'[w] \in {"work", "encode"} <=> place[w] \in {"work", "encode"}
      BY <1>2
    <3> QED BY <3>1, <3>2 DEF PipelineTypeOK
  <2>2. main' \in 1..(Len(Script) + 1) BY MainStarts, MainEnds, ScriptIs
  <2>3. capturing' \in BOOLEAN BY MainStarts, MainEnds
  <2>4. /\ hand' \in [Workers -> Seq(Frames)] /\ sent' \in Seq(Frames)
        /\ dropped' \in [Queues -> Nat] /\ stopped' \in [Workers -> BOOLEAN]
        /\ captured' \in [Kinds -> Nat] /\ \A k \in Kinds : captured'[k] <= MaxFrames[k]
    BY MainStarts, MainEnds DEF PipelineTypeOK
  <2> QED BY <1>1, <1>2, <1>3, <2>1, <2>2, <2>3, <2>4 DEF PipelineTypeOK
<1>5. ScriptInv'
  <2>1. main \in 1..20 /\ main' = main + 1 BY MainStarts
  <2>2. \A w \in Workers : place[w] = "done" => place'[w] = "done" BY <1>2
  <2>3. main' <= 1 => place'["netout"] = "unborn" BY <2>1
  <2>4. (main' <= 4 => place'["pworker"] = "unborn") /\ (main' <= 5 => place'["vworker"] = "unborn")
        /\ (main' <= 6 => place'["aworker"] = "unborn")
    <3>1. \A w \in {"pworker", "vworker", "aworker"} : \A v \in Workers \ {w} :
            place' = [place EXCEPT ![v] = "top"] => place'[w] = place[w]
      BY DEF PipelineTypeOK, Workers
    <3>2. \A w \in {"netout", "pworker", "vworker", "aworker"} : w \in Workers BY DEF Workers
    <3>3. CASE main = 1 BY <2>1, <3>1, <3>2, <3>3, MainStarts DEF ScriptInv
    <3>4. CASE main = 4 BY <2>1, <3>1, <3>2, <3>4, MainStarts DEF ScriptInv
    <3>5. CASE main = 5 BY <2>1, <3>1, <3>2, <3>5, MainStarts DEF ScriptInv
    <3>6. CASE main = 6 BY <2>1, <3>6
    <3>7. CASE main \notin {1, 4, 5, 6} BY <2>1, <3>7, MainStarts DEF ScriptInv
    <3> QED BY <3>3, <3>4, <3>5, <3>6, <3>7
  <2>5. (main' > 12 => place'["vworker"] = "done") /\ (main' > 14 => place'["aworker"] = "done")
    <3>1. main' > 12 => place["vworker"] = "done" BY <2>1, MainEnds DEF ScriptInv
    <3>2. main' > 14 => place["aworker"] = "done" BY <2>1, MainEnds DEF ScriptInv
    <3> QED BY <2>2, <3>1, <3>2 DEF Workers
  <2>6. capturing' => main' <= 8
    <3>1. capturing' => capturing /\ main # 8 BY MainEnds
    <3> QED BY <2>1, <3>1 DEF ScriptInv
  <2>7. /\ closed'["vq"] => closed["vq"] \/ main = 9
        /\ closed'["aq"] => closed["aq"] \/ main = 10
        /\ closed'["netq"] => closed["netq"] \/ main = 15
        /\ closed'["previewq"] => closed["previewq"] \/ main = 16
    BY MainEnds DEF PipelineTypeOK, Queues
  <2>8. (closed'["vq"] => main' > 9) /\ (closed'["aq"] => main' > 10)
        /\ (closed'["netq"] \/ closed'["previewq"] => main' > 14)
    BY <2>1, <2>7 DEF ScriptInv
  <2> QED BY <2>3, <2>4, <2>5, <2>6, <2>8 DEF ScriptInv
<1> QED BY <1>1, <1>4, <1>5

LEMMA PipelineStep == PipelineInv /\ [PipelineNext]_pipelineVars => PipelineInv'
<1> SUFFICES ASSUME PipelineInv, [PipelineNext]_pipelineVars PROVE PipelineInv' OBVIOUS
<1>1. CASE \E k \in Kinds : Capture(k) BY <1>1, CaptureKeeps
<1>2. CASE \E w \in Workers : WorkerStep(w)
  BY <1>2, LoopTopKeeps, TakesKeeps, EncodedKeeps, WrittenKeeps DEF WorkerStep
<1>3. CASE Preview BY <1>3, PreviewKeeps
<1>4. CASE MainStep BY <1>4, MainStepKeeps
<1>5. CASE UNCHANGED pipelineVars
  <2>1. PipelineTypeOK' /\ ScriptInv'
    BY <1>5 DEF PipelineInv, PipelineTypeOK, ScriptInv, pipelineVars, queues
  <2> QED BY <1>5, <2>1, FramesStay DEF PipelineInv, pipelineVars, queues
<1> QED BY <1>1, <1>2, <1>3, <1>4, <1>5 DEF PipelineNext

LEMMA PipelineInitInv == PipelineInit => PipelineInv
<1> SUFFICES ASSUME PipelineInit PROVE PipelineInv OBVIOUS
<1> USE DEF PipelineInit
<1>1. <<>> \in Seq(Frames) /\ Len(<<>>) = 0 BY EmptySeq
<1>2. Range(<<>>) = {} /\ \A k \in Kinds : Ascending(<<>>, k) BY <1>1, HandFacts
<1>3. /\ \A w \in Workers : hand[w] = <<>> /\ place[w] = "unborn"
      /\ \A q \in Queues : queue[q] = <<>> /\ dropped[q] = 0 /\ closed[q] = FALSE
      /\ \A k \in Kinds : captured[k] = 0
  OBVIOUS
<1>4. PipelineTypeOK
  <2>1. main \in 1..(Len(Script) + 1) BY ScriptIs
  <2>2. \A q \in Queues : Len(queue[q]) <= Capacity[q] BY <1>1, <1>3, PipelineNames
  <2>3. \A k \in Kinds : captured[k] <= MaxFrames[k] BY <1>3, CapacityAssumption
  <2> QED BY <1>1, <1>3, <2>1, <2>2, <2>3 DEF PipelineTypeOK
<1>5. ScriptInv BY <1>3 DEF ScriptInv, Workers, Queues
<1>6. KindInv BY <1>2, <1>3, PipelineNames DEF KindInv
<1>7. LatestAreKept
  <2>1. DOMAIN <<>> = {} OBVIOUS
  <2> QED BY <1>3, <2>1, PipelineNames DEF LatestAreKept
<1>8. OrderInv
  <2> SUFFICES ASSUME NEW k \in Kinds
               PROVE  /\ Ascending(sent, k) /\ Ascending(queue["netq"], k)
                      /\ Ascending(queue[CaptureQueue[k]], k)
                      /\ Chain(Range(sent), Range(hand["netout"]), Range(queue["netq"]),
                               Range(hand[Encoder(k)]), Range(queue[CaptureQueue[k]]), k,
                               captured[k])
    BY DEF OrderInv
  <2>1. sent = <<>> /\ hand["netout"] = <<>> /\ queue["netq"] = <<>> /\ hand[Encoder(k)] = <<>>
        /\ queue[CaptureQueue[k]] = <<>>
    BY <1>3, PipelineNames
  <2>2. Chain({}, {}, {}, {}, {}, k, captured[k]) BY DEF Chain, Before
  <2> QED BY <1>2, <2>1, <2>2
<1>9. CountedInv
  <2>1. \A w \in Workers : Share(w) = 0 BY <1>1, <1>3, PipelineNames DEF Share, Size
  <2>2. Size(sent) = 0 /\ captured["video"] = 0 /\ captured["audio"] = 0 /\ cleared = 0
    BY <1>1, <1>3 DEF Size, Kinds
  <2> QED BY <2>1, <2>2 DEF CountedInv, Workers
<1> QED BY <1>4, <1>5, <1>6, <1>7, <1>8, <1>9 DEF PipelineInv

LEMMA PipelineInvariant == PipelineSpec => []PipelineInv
<1> QED BY PipelineInitInv, PipelineStep, PTL DEF PipelineSpec

-----------------------------------------------------------------------------
(* The pipeline: what the invariant says.                                  *)

\* The five places on the way of a kind, one after the other.
LEMMA PathFacts ==
  ASSUME PipelineInv, NEW k \in Kinds
  PROVE  /\ Ascending(Path(k), k)
         /\ Size(Path(k)) = Size(sent) + Size(hand["netout"]) + Size(queue["netq"])
                              + Size(hand[Encoder(k)]) + Size(queue[CaptureQueue[k]])
<1> DEFINE a == sent          b == hand["netout"]     c == queue["netq"]
           d == hand[Encoder(k)]   e == queue[CaptureQueue[k]]
<1>1. /\ a \in Seq(Frames) /\ b \in Seq(Frames) /\ c \in Seq(Frames)
      /\ d \in Seq(Frames) /\ e \in Seq(Frames)
  BY PipelineNames DEF PipelineInv, PipelineTypeOK
<1>2. Ascending(b, k) /\ Ascending(d, k)
  <2>1. \A w \in Workers : Len(hand[w]) = 0 \/ Len(hand[w]) = 1
    BY DEF PipelineInv, PipelineTypeOK
  <2>2. Encoder(k) \in Workers /\ "netout" \in Workers BY PipelineNames
  <2> QED BY <1>1, <2>1, <2>2, HandFacts
<1>3. Ascending(a, k) /\ Ascending(c, k) /\ Ascending(e, k) BY DEF PipelineInv, OrderInv
<1>4. /\ Before(Range(a), Range(b), k) /\ Before(Range(a) \cup Range(b), Range(c), k)
      /\ Before(Range(a) \cup Range(b) \cup Range(c), Range(d), k)
      /\ Before(Range(a) \cup Range(b) \cup Range(c) \cup Range(d), Range(e), k)
  <2>1. Chain(Range(a), Range(b), Range(c), Range(d), Range(e), k, captured[k])
    BY DEF PipelineInv, OrderInv
  <2> HIDE DEF a, b, c, d, e
  <2> QED BY <2>1 DEF Chain, Before
<1>5. Path(k) = a \o b \o c \o d \o e BY DEF Path, Encoder
<1> HIDE DEF a, b, c, d, e
<1>6. /\ a \o b \in Seq(Frames) /\ Size(a \o b) = Size(a) + Size(b)
      /\ Range(a \o b) = Range(a) \cup Range(b) /\ Ascending(a \o b, k)
  BY <1>1, <1>2, <1>3, <1>4, ConcatFacts DEF Size
<1>7. /\ a \o b \o c \in Seq(Frames) /\ Size(a \o b \o c) = Size(a \o b) + Size(c)
      /\ Range(a \o b \o c) = Range(a) \cup Range(b) \cup Range(c) /\ Ascending(a \o b \o c, k)
  BY <1>1, <1>3, <1>4, <1>6, ConcatFacts DEF Size
<1>8. /\ a \o b \o c \o d \in Seq(Frames) /\ Size(a \o b \o c \o d) = Size(a \o b \o c) + Size(d)
      /\ Range(a \o b \o c \o d) = Range(a) \cup Range(b) \cup Range(c) \cup Range(d)
      /\ Ascending(a \o b \o c \o d, k)
  <2>1. a \o b \o c \in Seq(Frames) BY <1>7
  <2> QED BY <1>1, <1>2, <1>4, <1>7, <2>1, ConcatFacts DEF Size
<1>9. /\ Size(a \o b \o c \o d \o e) = Size(a \o b \o c \o d) + Size(e)
      /\ Ascending(a \o b \o c \o d \o e, k)
  BY <1>1, <1>3, <1>4, <1>8, ConcatFacts DEF Size
<1>10. Size(Path(k)) = Size(a) + Size(b) + Size(c) + Size(d) + Size(e) BY <1>5, <1>6, <1>7, <1>8, <1>9
<1> QED BY <1>5, <1>9, <1>10 DEF a, b, c, d, e

LEMMA PipelineInvTells == PipelineInv => FramesAreAccounted
<1> SUFFICES ASSUME PipelineInv PROVE FramesAreAccounted OBVIOUS
<1>1. InOrder BY PathFacts DEF InOrder
<1>2. EveryLossIsCounted
  <2>1. Size(Path("video")) = Size(sent) + Size(hand["netout"]) + Size(queue["netq"])
                                + Size(hand["vworker"]) + Size(queue["vq"])
    BY PathFacts DEF Kinds, Encoder, CaptureQueue
  <2>2. /\ Share("netout") = Size(hand["netout"]) + Size(queue["netq"]) + dropped["netq"]
        /\ Share("vworker") = Size(hand["vworker"]) + Size(queue["vq"]) + dropped["vq"]
        /\ Share("aworker") = Size(hand["aworker"]) + Size(queue["aq"]) + dropped["aq"]
    BY DEF Share, Source
  <2>3. PipelineTypeOK /\ CountedInv BY DEF PipelineInv
  <2>4. /\ Size(sent) \in Nat /\ cleared \in Nat
        /\ Size(hand["netout"]) \in Nat /\ Size(queue["netq"]) \in Nat /\ dropped["netq"] \in Nat
        /\ Size(hand["vworker"]) \in Nat /\ Size(queue["vq"]) \in Nat /\ dropped["vq"] \in Nat
        /\ Size(hand["aworker"]) \in Nat /\ Size(queue["aq"]) \in Nat /\ dropped["aq"] \in Nat
    BY <2>3, Numbers DEF Workers, Queues
  <2>5. captured["video"] + captured["audio"] =
          Size(Path("video")) + Size(hand["aworker"]) + Size(queue["aq"])
            + dropped["vq"] + dropped["aq"] + dropped["netq"] + cleared
    BY <2>1, <2>2, <2>3, <2>4 DEF CountedInv
  <2>6. /\ Len(Path("video")) = Size(Path("video")) /\ Len(hand["aworker"]) = Size(hand["aworker"])
        /\ Len(queue["aq"]) = Size(queue["aq"])
    BY DEF Size
  <2> QED BY <2>5, <2>6, Zenon DEF EveryLossIsCounted
<1>3. ProducersEndFirst
  BY DEF PipelineInv, PipelineTypeOK, ScriptInv, ProducersEndFirst
<1> QED BY <1>1, <1>2, <1>3 DEF PipelineInv, FramesAreAccounted

\* Every queue is within its capacity, and a worker holds a frame exactly when it
\* is dealing with one: for any capacities and any number of frames.
THEOREM PipelineTypeCorrect == PipelineSpec => []PipelineTypeOK
<1>1. PipelineInv => PipelineTypeOK BY DEF PipelineInv
<1> QED BY <1>1, PipelineInvariant, PTL

\* The frames come out in the order captured, the capture queues hold the latest
\* ones, the drop counters and clear() tell every loss, and both encoders have ended
\* before netq and previewq are closed: for any capacities, any number of frames and
\* any interleaving of the threads.
THEOREM FramesStayAccounted == PipelineSpec => []FramesAreAccounted
<1> QED BY PipelineInvariant, PipelineInvTells, PTL
=============================================================================
