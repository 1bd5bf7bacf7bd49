--------------------------- MODULE RedundantOutput ---------------------------
(***************************************************************************)
(* The sender's outputs (src/cpp/src/redundancy.cpp, srt_output.h): a      *)
(* ReconnectingSrtOutput per path, each with a thread that makes the       *)
(* connection anew when writes keep failing, and writers that send every   *)
(* packet to one path after the other (DualSrtOutput; with one path it is  *)
(* a ReconnectingSrtOutput alone).  In main.cpp there is one writer, the   *)
(* thread netout; the class allows several.                                *)
(*                                                                         *)
(* One action per atomic access or critical section of mtx_: writers hold  *)
(* it shared for the whole write, the reconnect thread exclusively while   *)
(* it takes a connection down or puts a new one in place.  The network is  *)
(* external: a connection dies, a connect attempt fails, a live connection *)
(* rejects a packet.  How long the back-off lasts is left out.             *)
(***************************************************************************)
EXTENDS Naturals, FiniteSets

CONSTANTS Paths,      \* 1..n: each packet goes to path 1 first
          Writers,
          Threshold,  \* kConsecutiveFailureThreshold (10 in the code)
          MaxDeaths,  \* bound: how often connections of a path die
          Rejects     \* may a live connection reject a packet?

ASSUME OutputAssumption ==
  /\ Paths \subseteq Nat \ {0} /\ IsFiniteSet(Writers)
  /\ Threshold \in Nat \ {0} /\ MaxDeaths \in Nat
  /\ Rejects \in BOOLEAN

VARIABLES
  out,        \* out_ is set
  dead,       \* the connection behind out_ is broken
  need,       \* need_reconnect_
  connected,  \* connected_
  failures,   \* consecutive_failures_
  everUp,     \* reconnect_count_ > 0
  r,          \* the reconnect thread: "wait", "trailer" (with the lock, in ~SrtOutput),
              \* "backoff", "connect", "ended"
  at,         \* at[w]: the path that w writes to; 0: it has no packet
  step,       \* step[w]: "idle", "lock" (to be taken), and with the lock "in" (the write
              \* call), "ok", "failed", "over" (the threshold was reached)
  stop,       \* the destructor runs
  bad,        \* failed writes on the present connection
  deaths

vars == <<out, dead, need, connected, failures, everUp, r, at, step, stop, bad, deaths>>

TypeOK ==
  /\ out \in [Paths -> BOOLEAN] /\ dead \in [Paths -> BOOLEAN]
  /\ need \in [Paths -> BOOLEAN] /\ connected \in [Paths -> BOOLEAN]
  /\ failures \in [Paths -> 0..Threshold] /\ everUp \in [Paths -> BOOLEAN]
  /\ r \in [Paths -> {"wait", "trailer", "backoff", "connect", "ended"}]
  /\ at \in [Writers -> Paths \cup {0}]
  /\ step \in [Writers -> {"idle", "lock", "in", "ok", "failed", "over"}]
  /\ \A w \in Writers : at[w] = 0 <=> step[w] = "idle"
  /\ stop \in BOOLEAN
  /\ bad \in [Paths -> 0..Threshold] /\ deaths \in [Paths -> Nat]

Init ==
  /\ out = [p \in Paths |-> FALSE] /\ dead = [p \in Paths |-> FALSE]
  /\ need = [p \in Paths |-> TRUE] /\ connected = [p \in Paths |-> FALSE]
  /\ failures = [p \in Paths |-> 0] /\ everUp = [p \in Paths |-> FALSE]
  /\ r = [p \in Paths |-> "wait"]
  /\ at = [w \in Writers |-> 0] /\ step = [w \in Writers |-> "idle"]
  /\ stop = FALSE /\ bad = [p \in Paths |-> 0] /\ deaths = [p \in Paths |-> 0]

Holding(w, p) == at[w] = p /\ step[w] \in {"in", "ok", "failed", "over"}
Shared(p) == \E w \in Writers : Holding(w, p)
Exclusive(p) == r[p] = "trailer"

\* Counts are only compared with the threshold: larger values are not told apart.
UpTo(n) == IF n > Threshold THEN Threshold ELSE n

-----------------------------------------------------------------------------
(* write_video and write_audio.                                            *)

link == <<out, dead, connected, everUp, r, stop, deaths>>

\* w goes to path p, or is done with its packet.  (Operators marked variant are for
\* the mutants of PROJECT.json.)
GoTo(w, p) ==
  /\ at' = [at EXCEPT ![w] = IF p \in Paths THEN p ELSE 0]
  /\ step' = [step EXCEPT ![w] = IF p \in Paths THEN "lock" ELSE "idle"]

NextPacket(w) ==
  /\ step[w] = "idle" /\ ~stop
  /\ GoTo(w, 1)
  /\ UNCHANGED <<link, need, failures, bad>>

\* The shared lock is taken; without a connection the packet is dropped.
Enter(w) ==
  /\ step[w] = "lock" /\ ~Exclusive(at[w])
  /\ IF out[at[w]] THEN step' = [step EXCEPT ![w] = "in"] /\ UNCHANGED at
     ELSE GoTo(w, at[w] + 1)
  /\ UNCHANGED <<link, need, failures, bad>>

WriteOk(w) ==
  /\ step[w] = "in" /\ ~dead[at[w]]
  /\ step' = [step EXCEPT ![w] = "ok"]
  /\ UNCHANGED <<link, need, failures, at, bad>>

WriteFails(w) ==
  /\ step[w] = "in"
  /\ dead[at[w]] \/ Rejects
  /\ step' = [step EXCEPT ![w] = "failed"]
  /\ bad' = [bad EXCEPT ![at[w]] = UpTo(@ + 1)]
  /\ UNCHANGED <<link, need, failures, at>>

\* After a write that succeeded the count starts anew.
Reset(w) ==
  /\ step[w] = "ok"
  /\ failures' = [failures EXCEPT ![at[w]] = 0]
  /\ GoTo(w, at[w] + 1)
  /\ UNCHANGED <<link, need, bad>>

\* fetch_add, and the comparison with the value it returned.
Count(w) ==
  /\ step[w] = "failed"
  /\ failures' = [failures EXCEPT ![at[w]] = UpTo(@ + 1)]
  /\ IF failures[at[w]] + 1 >= Threshold
     THEN step' = [step EXCEPT ![w] = "over"] /\ UNCHANGED at
     ELSE GoTo(w, at[w] + 1)
  /\ UNCHANGED <<link, need, bad>>

\* signal_reconnect.
SignalWithoutFlag(w) ==  \* (variant: it only notifies)
  /\ step[w] = "over"
  /\ GoTo(w, at[w] + 1)
  /\ UNCHANGED <<link, need, failures, bad>>
Signal(w) ==
  /\ step[w] = "over"
  /\ need' = [need EXCEPT ![at[w]] = TRUE]
  /\ GoTo(w, at[w] + 1)
  /\ UNCHANGED <<link, failures, bad>>

Write(w) == Enter(w) \/ WriteOk(w) \/ WriteFails(w) \/ Reset(w) \/ Count(w) \/ Signal(w)

-----------------------------------------------------------------------------
(* reconnect_loop.                                                         *)

writers == <<at, step, stop>>

\* The wait ends with the exclusive lock: connected_ goes down and ~SrtOutput
\* writes the trailer and closes the socket.
TakeDown(p) ==
  /\ r[p] = "wait" /\ need[p] /\ ~stop /\ ~Shared(p)
  /\ connected' = [connected EXCEPT ![p] = FALSE]
  /\ r' = [r EXCEPT ![p] = "trailer"]
  /\ UNCHANGED <<writers, out, dead, need, failures, everUp, bad, deaths>>

\* ~SrtOutput is done; the lock is released.  No back-off before the first success.
TornDown(p) ==
  /\ r[p] = "trailer"
  /\ out' = [out EXCEPT ![p] = FALSE] /\ dead' = [dead EXCEPT ![p] = FALSE]
  /\ need' = [need EXCEPT ![p] = FALSE]
  /\ r' = [r EXCEPT ![p] = IF everUp[p] THEN "backoff" ELSE "connect"]
  /\ UNCHANGED <<writers, connected, failures, everUp, bad, deaths>>

BackedOff(p) ==
  /\ r[p] = "backoff"
  /\ r' = [r EXCEPT ![p] = IF stop THEN "ended" ELSE "connect"]
  /\ UNCHANGED <<writers, out, dead, need, connected, failures, everUp, bad, deaths>>

\* try_connect: the new SrtOutput is put in place with the exclusive lock.
ConnectedKeepingCount(p) ==  \* (variant: the failures of the last connection still count)
  /\ r[p] = "connect" /\ ~Shared(p)
  /\ out' = [out EXCEPT ![p] = TRUE] /\ connected' = [connected EXCEPT ![p] = TRUE]
  /\ everUp' = [everUp EXCEPT ![p] = TRUE] /\ bad' = [bad EXCEPT ![p] = 0]
  /\ r' = [r EXCEPT ![p] = "wait"]
  /\ UNCHANGED <<writers, dead, need, failures, deaths>>
Connected(p) ==
  /\ r[p] = "connect" /\ ~Shared(p)
  /\ out' = [out EXCEPT ![p] = TRUE] /\ connected' = [connected EXCEPT ![p] = TRUE]
  /\ failures' = [failures EXCEPT ![p] = 0]
  /\ everUp' = [everUp EXCEPT ![p] = TRUE] /\ bad' = [bad EXCEPT ![p] = 0]
  /\ r' = [r EXCEPT ![p] = "wait"]
  /\ UNCHANGED <<writers, dead, need, deaths>>

ConnectFails(p) ==
  /\ r[p] = "connect"
  /\ need' = [need EXCEPT ![p] = TRUE]
  /\ r' = [r EXCEPT ![p] = "wait"]
  /\ UNCHANGED <<writers, out, dead, connected, failures, everUp, bad, deaths>>

\* A stop request ends the wait.
End(p) ==
  /\ r[p] = "wait" /\ stop
  /\ r' = [r EXCEPT ![p] = "ended"]
  /\ UNCHANGED <<writers, out, dead, need, connected, failures, everUp, bad, deaths>>

Reconnect(p) == TakeDown(p) \/ TornDown(p) \/ BackedOff(p) \/ Connected(p) \/ End(p)

\* The outputs are destroyed after their writers have ended.
Destroy ==
  /\ ~stop /\ \A w \in Writers : step[w] = "idle"
  /\ stop' = TRUE
  /\ UNCHANGED <<out, dead, need, connected, failures, everUp, r, at, step, bad, deaths>>

\* External: the network or the receiver of path p goes away.
Dies(p) ==
  /\ out[p] /\ ~dead[p] /\ deaths[p] < MaxDeaths
  /\ dead' = [dead EXCEPT ![p] = TRUE] /\ deaths' = [deaths EXCEPT ![p] = @ + 1]
  /\ UNCHANGED <<writers, out, need, connected, failures, everUp, r, bad>>

-----------------------------------------------------------------------------
Next ==
  \/ \E w \in Writers : NextPacket(w) \/ Write(w)
  \/ \E p \in Paths : Reconnect(p) \/ ConnectFails(p) \/ Dies(p)
  \/ Destroy

Spec == Init /\ [][Next]_vars

(* Fairness: the threads run and frames keep coming; the lock is granted   *)
(* in the end to a thread that keeps asking for it (strong: the other side *)
(* takes it in between); a receiver that can be reached again answers.     *)
FairSpec ==
  /\ Spec
  /\ \A w \in Writers :
       /\ WF_vars(NextPacket(w)) /\ SF_vars(Enter(w))
       /\ WF_vars(WriteOk(w) \/ WriteFails(w))
       /\ WF_vars(Reset(w) \/ Count(w) \/ Signal(w))
  /\ \A p \in Paths :
       /\ SF_vars(TakeDown(p)) /\ WF_vars(TornDown(p)) /\ WF_vars(BackedOff(p))
       /\ SF_vars(Connected(p)) /\ WF_vars(End(p))

-----------------------------------------------------------------------------
(* Properties.                                                             *)

\* The reconnect thread never waits while there is nothing to wait for: if it
\* sleeps without a connection it has been asked to make one, and connected_ is
\* up only while there is a connection.
NeverStranded ==
  \A p \in Paths : /\ r[p] = "wait" /\ ~out[p] => need[p]
                   /\ connected[p] => out[p]
                   /\ r[p] = "wait" /\ out[p] => connected[p]

\* A connection is given up only after as many failed writes on this very
\* connection as the threshold says, whatever the writers still had in hand when
\* the one before was taken down (redundancy.h: "Tearing down and re-establishing
\* the whole connection on every single rejected packet ...").
TornDownForCause ==
  [][\A p \in Paths : TakeDown(p) /\ out[p] => bad[p] >= Threshold]_vars

\* A connection that broke is replaced, or the program ends: failing writes do
\* reach the threshold and the reconnect thread gets the lock.
BrokenIsReplaced == \A p \in Paths : out[p] /\ dead[p] ~> ~out[p] \/ stop

\* ... and as long as connecting succeeds in the end, every path is up again.
ComesBack == \A p \in Paths : ~out[p] ~> out[p] \/ stop

\* redundancy.h:12-13, "Each path reconnects independently; a failure on one path
\* is transparent to the caller": nobody waits for a path that is being taken
\* down while another one could take the packet.
OtherPathGoesOn ==
  \A w \in Writers : step[w] = "lock" /\ Exclusive(at[w]) /\ out[at[w]] =>
    \A p \in Paths : p > at[w] => ~connected[p]

\* A path is neither given up without a cause nor left down without anyone
\* asked to bring it up (NeverStranded and TornDownForCause, above).
KeptForCause == []NeverStranded /\ TornDownForCause

\* A broken connection is taken down and made again (BrokenIsReplaced and
\* ComesBack, above), unless the program ends first.
PathsRecover == BrokenIsReplaced /\ ComesBack
=============================================================================
