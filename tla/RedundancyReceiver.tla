------------------------- MODULE RedundancyReceiver -------------------------
(***************************************************************************)
(* The receiver half of SMPTE 2022-7 (src/cpp/src/redundancy.cpp): two     *)
(* reader threads push the packets of two network paths into one buffer;   *)
(* the output thread holds each for a window, orders them by presentation  *)
(* time and drops what it has seen before.  It lets go of the lock while   *)
(* the caller's emit callback runs, and works with the time at which its   *)
(* pass began.                                                             *)
(*                                                                         *)
(* Time passes in ticks.  The sender and the two paths are external: each  *)
(* path delivers in order, late by up to Skew ticks, and may lose packets. *)
(* (SRT delivers in order; a packet that misses its latency is lost.)      *)
(***************************************************************************)
EXTENDS Naturals, Sequences, FiniteSets, Functions

CONSTANTS N,       \* packets 1..N, in the order they are sent
          SendAt,  \* SendAt[k]: when packet k is sent
          Stream,  \* Stream[k]: its stream index
          Pts,     \* Pts[k]: its presentation time
          Window,  \* window_
          Skew,    \* how late a path may deliver
          Stall    \* how long the emit callbacks of one pass may take together

Packets == 1..N
Paths == {1, 2}

ASSUME ReceiverAssumption ==
  /\ N \in Nat /\ Window \in Nat \ {0} /\ {Skew, Stall} \subseteq Nat
  /\ SendAt \in [Packets -> Nat] /\ Pts \in [Packets -> Nat]
  /\ Packets = DOMAIN Stream
  /\ \A j, k \in Packets :
       /\ j < k => SendAt[j] <= SendAt[k]
       /\ j < k /\ Stream[j] = Stream[k] => Pts[j] < Pts[k]

VARIABLES
  now,     \* the clock
  at,      \* at[p]: the packet that path p delivers (or loses) next
  lost,    \* lost[p]: the packets that path p lost
  buf,     \* buf_
  seen,    \* seen_evict_; its keys are the set seen_
  pc,      \* the output thread: "wait", "drain" (with the lock), "emit", "ended"
  begun,   \* `now` of the pass under way
  busy,    \* how long the callbacks of this pass have been running
  stop,    \* the receiver was destroyed
  out      \* what was emitted

vars == <<now, at, lost, buf, seen, pc, begun, busy, stop, out>>

Seen == {seen[i].key : i \in DOMAIN seen}
Delivered == {k \in Packets : \E p \in Paths : k < at[p] /\ k \notin lost[p]}

TypeOK ==
  /\ now \in Nat /\ begun \in Nat /\ busy \in 0..Stall
  /\ at \in [Paths -> 1..(N + 1)]
  /\ lost \in [Paths -> SUBSET Packets]
  /\ buf \in Seq([key : Packets, arrived : 0..now])
  /\ seen \in Seq([key : Packets, evict_at : Nat])
  /\ pc \in {"wait", "drain", "emit", "ended"}
  /\ stop \in BOOLEAN
  /\ out \in Seq(Packets)

Init ==
  /\ now = 0 /\ at = [p \in Paths |-> 1] /\ lost = [p \in Paths |-> {}]
  /\ buf = <<>> /\ seen = <<>> /\ pc = "wait" /\ begun = 0 /\ busy = 0
  /\ stop = FALSE /\ out = <<>>

-----------------------------------------------------------------------------
(* The paths and the reader threads.                                       *)

OnItsWay(p) == at[p] <= N /\ SendAt[at[p]] <= now

\* push(), called by the reader thread of path p.
Push(p) ==
  /\ OnItsWay(p) /\ pc # "drain" /\ ~stop
  /\ buf' = Append(buf, [key |-> at[p], arrived |-> now])
  /\ at' = [at EXCEPT ![p] = @ + 1]
  /\ UNCHANGED <<now, lost, seen, pc, begun, busy, stop, out>>

\* External: the packet does not make it.
Lose(p) ==
  /\ OnItsWay(p)
  /\ lost' = [lost EXCEPT ![p] = @ \cup {at[p]}]
  /\ at' = [at EXCEPT ![p] = @ + 1]
  /\ UNCHANGED <<now, buf, seen, pc, begun, busy, stop, out>>

-----------------------------------------------------------------------------
(* output_loop.                                                            *)

\* s in presentation order; entries of the same time stay in their order.
Sorted(s) ==
  LET before(i, j) == \/ Pts[s[i].key] < Pts[s[j].key]
                      \/ Pts[s[i].key] = Pts[s[j].key] /\ i <= j
      nth(n) == CHOOSE i \in DOMAIN s : Cardinality({j \in DOMAIN s : before(j, i)}) = n
  IN [n \in DOMAIN s |-> s[nth(n)]]

StartPass ==
  /\ pc = "wait" /\ buf # <<>> /\ ~stop
  /\ begun' = now /\ buf' = Sorted(buf) /\ busy' = 0 /\ pc' = "drain"
  /\ UNCHANGED <<now, at, lost, seen, stop, out>>

\* evict_seen(begun): the entries of the front that are past their time.
Evicted ==
  LET n == Cardinality({i \in DOMAIN seen : \A j \in 1..i : seen[j].evict_at <= begun})
  IN SubSeq(seen, n + 1, Len(seen))

\* Has the front been held for the window at time t?  (Operators marked variant are for the
\* mutants of PROJECT.json.)
HeldLonger(e, t) == t - e.arrived > Window  \* (variant: one tick more)
Due(e, t) == t - e.arrived >= Window

\* Was a packet seen before, with the entries evicted that are past their time?
Known(k) == \E i \in DOMAIN Evicted : Evicted[i].key = k

\* Until when a packet that is emitted now is remembered.
RememberOnce == begun + Window           \* (variant)
Remember == begun + 2 * Window

\* The front has been held long enough and was seen before: it is dropped.
DropDuplicate ==
  /\ pc = "drain" /\ buf # <<>> /\ Due(Head(buf), begun) /\ Known(Head(buf).key)
  /\ buf' = Tail(buf) /\ seen' = Evicted
  /\ UNCHANGED <<now, at, lost, pc, begun, busy, stop, out>>

\* ... or it is new: marked as seen, and emitted without the lock.
MarkAndEmit ==
  /\ pc = "drain" /\ buf # <<>> /\ Due(Head(buf), begun) /\ ~Known(Head(buf).key)
  /\ LET k == Head(buf).key
     IN /\ seen' = Append(Evicted, [key |-> k, evict_at |-> Remember])
        /\ out' = Append(out, k)
  /\ buf' = Tail(buf) /\ pc' = "emit"
  /\ UNCHANGED <<now, at, lost, begun, busy, stop>>

\* The callback returns; the pass goes on with the buffer as it is now: what
\* was pushed meanwhile is at its end.
Emitted ==
  /\ pc = "emit"
  /\ pc' = "drain"
  /\ UNCHANGED <<now, at, lost, buf, seen, begun, busy, stop, out>>

\* Nothing more to drain: back to waiting.
EndPass ==
  /\ pc = "drain"
  /\ buf # <<>> => ~Due(Head(buf), begun)
  /\ pc' = "wait"
  /\ UNCHANGED <<now, at, lost, buf, seen, begun, busy, stop, out>>

\* The destructor empties the buffer, then asks the thread to stop.
Destroy ==
  /\ ~stop /\ pc # "drain"
  /\ stop' = TRUE /\ buf' = <<>>
  /\ UNCHANGED <<now, at, lost, seen, pc, begun, busy, out>>

End ==
  /\ pc = "wait" /\ stop
  /\ pc' = "ended"
  /\ UNCHANGED <<now, at, lost, buf, seen, begun, busy, stop, out>>

-----------------------------------------------------------------------------
\* Time passes while something is left to happen; the paths deliver in time, the
\* thread is prompt and its callbacks take no more than Stall in one pass.
Tick ==
  /\ ~stop
  /\ at # [p \in Paths |-> N + 1] \/ buf # <<>> \/ pc = "emit"
  /\ \A p \in Paths : at[p] <= N => now < SendAt[at[p]] + Skew
  /\ \/ pc = "wait" /\ (buf # <<>> => ~Due(Head(Sorted(buf)), now))
        /\ UNCHANGED busy
     \/ pc = "emit" /\ busy < Stall /\ busy' = busy + 1
  /\ now' = now + 1
  /\ UNCHANGED <<at, lost, buf, seen, pc, begun, stop, out>>

OutputLoop == StartPass \/ DropDuplicate \/ MarkAndEmit \/ Emitted \/ EndPass \/ End

Next == (\E p \in Paths : Push(p) \/ Lose(p)) \/ OutputLoop \/ Destroy \/ Tick

Spec == Init /\ [][Next]_vars

(* Fairness: time passes, the paths deliver or lose what was sent, and the *)
(* output thread runs.                                                     *)
FairSpec == /\ Spec /\ SF_vars(Tick) /\ WF_vars(\E p \in Paths : Push(p) \/ Lose(p))
            /\ SF_vars(StartPass) /\ SF_vars(MarkAndEmit) /\ SF_vars(DropDuplicate)
            /\ WF_vars(Emitted) /\ WF_vars(EndPass) /\ WF_vars(End)

-----------------------------------------------------------------------------
(* Properties.                                                             *)

\* The two paths, one of them late by less than the window, come out as one:
\* each packet that arrived once and every stream in order, although entries
\* are pushed while a pass is draining and the time of that pass goes stale.
Merge == INSTANCE OrderedMerge WITH arrived <- Delivered, emitted <- out
Merges == Merge!Spec

\* Nothing that arrived is dropped with the duplicates: until the receiver is
\* destroyed it is emitted or held.
NothingLost ==
  ~stop => Delivered \subseteq Range(out) \cup {buf[i].key : i \in DOMAIN buf}

\* The price of ordering: a packet is held for the window, counted from the time
\* at which it, or a packet (even a second copy) that has to go first, arrived;
\* longer by no more than the callbacks of one pass take.
Releases(e) == {e.arrived} \cup {SendAt[j] + Skew : j \in {j \in Packets : Pts[j] < Pts[e.key]}}
HeldBriefly ==
  \A i \in DOMAIN buf : \E t \in Releases(buf[i]) : now <= t + Window + Stall

\* Everything that arrives comes out, unless the receiver is destroyed first.
AllComeOut == \A k \in Packets : k \in Delivered ~> k \in Range(out) \/ stop

\* redundancy.h:140, window_ms is "how long to hold a packet before outputting
\* it even if the duplicate from the other path hasn't arrived".
HeldForTheWindow ==
  pc = "wait" => \A i \in DOMAIN buf : buf[i].key \notin Seen =>
                   now - buf[i].arrived <= Window

\* redundancy.h:17, packets are "deduplicated by (stream_index, PTS)".
Deduplicates == \A i, j \in DOMAIN out : out[i] = out[j] => i = j

\* Both halves of what the window buys: everything that arrived comes out, and
\* none of it is held longer than the window and the callbacks of one pass.
ComesOutInTime == AllComeOut /\ [](TypeOK /\ NothingLost /\ HeldBriefly)
=============================================================================
