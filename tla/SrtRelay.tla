------------------------------ MODULE SrtRelay ------------------------------
(***************************************************************************)
(* The SRT fan-out relay (src/cpp/relay/srt_relay.cpp): one accepting      *)
(* thread, one thread per publisher, and the two maps they share under     *)
(* g_mtx.  A critical section is one action: it never blocks (readers are  *)
(* sent to without blocking) and nobody touches the maps outside of one.   *)
(* What happens outside the lock is apart: a packet that was received but  *)
(* waits for the lock, the socket that is closed once the lock is given up.*)
(* libsrt and the peers are external.                                      *)
(***************************************************************************)
EXTENDS Naturals

CONSTANTS Publishers, Readers,  \* sockets, one for each connection ever accepted
          Names,                \* stream names
          NameOf,               \* the name in a socket's stream id
          None

Sockets == Publishers \cup Readers

ASSUME RelayAssumption ==
  /\ Publishers \cap Readers = {} /\ None \notin Sockets
  /\ NameOf \in [Sockets -> Names]

VARIABLES
  g_stop,        \* the flag that the signal handler sets
  g_readers,     \* name -> its reader sockets
  g_publishers,  \* name -> its publisher socket, or None
  main,          \* the accepting thread: "top" of its loop, in "accept", "join", "exited"
  pc,            \* publisher_loop of each publisher
  sock,          \* SRT: "new" (not accepted), "open", "broken" (peer left), "closed"
  stale          \* history: packets relayed for a publisher already replaced

vars == <<g_stop, g_readers, g_publishers, main, pc, sock, stale>>

TypeOK ==
  /\ g_stop \in BOOLEAN
  /\ g_readers \in [Names -> SUBSET Readers]
  /\ g_publishers \in [Names -> Publishers \cup {None}]
  /\ main \in {"top", "accept", "join", "exited"}
  \* "top": about to look at g_stop; "recv": in srt_recvmsg; "relay": has a packet
  \* and waits for the lock; "leave": left the loop; "close": unregistered.
  /\ pc \in [Publishers -> {"none", "top", "recv", "relay", "leave", "close", "done"}]
  /\ sock \in [Sockets -> {"new", "open", "broken", "closed"}]
  /\ stale \in [Publishers -> Nat]

Init ==
  /\ g_stop = FALSE
  /\ g_readers = [n \in Names |-> {}] /\ g_publishers = [n \in Names |-> None]
  /\ main = "top"
  /\ pc = [p \in Publishers |-> "none"] /\ sock = [s \in Sockets |-> "new"]
  /\ stale = [p \in Publishers |-> 0]

-----------------------------------------------------------------------------
(* main(): the accepting thread.                                           *)

\* The signal handler.
Signal ==
  /\ ~g_stop /\ g_stop' = TRUE
  /\ UNCHANGED <<g_readers, g_publishers, main, pc, sock, stale>>

\* The loop's condition; the thread then blocks in srt_accept.
MainTop ==
  /\ main = "top"
  /\ main' = IF g_stop THEN "join" ELSE "accept"
  /\ UNCHANGED <<g_stop, g_readers, g_publishers, pc, sock, stale>>

\* The sockets once p is accepted as a publisher of n: the newest publisher wins
\* and the old one, if there is one, is closed.  (Operators marked variant are
\* for the mutants of PROJECT.json.)
Takeover(n, p) ==
  [s \in Sockets |-> IF s = p THEN "open"
                     ELSE IF s = g_publishers[n] THEN "closed" ELSE sock[s]]

AcceptPublisher(p) ==
  /\ main = "accept" /\ sock[p] = "new"
  /\ sock' = Takeover(NameOf[p], p)
  /\ g_publishers' = [g_publishers EXCEPT ![NameOf[p]] = p]
  /\ pc' = [pc EXCEPT ![p] = "top"] /\ main' = "top"
  /\ UNCHANGED <<g_stop, g_readers, stale>>

AcceptReader(r) ==
  /\ main = "accept" /\ sock[r] = "new"
  /\ sock' = [sock EXCEPT ![r] = "open"]
  /\ g_readers' = [g_readers EXCEPT ![NameOf[r]] = @ \cup {r}]
  /\ main' = "top"
  /\ UNCHANGED <<g_stop, g_publishers, pc, stale>>

\* All publisher threads have ended; the readers go down with srt_cleanup.
Exit ==
  /\ main = "join" /\ \A p \in Publishers : pc[p] \in {"none", "done"}
  /\ main' = "exited"
  /\ sock' = [s \in Sockets |-> IF sock[s] = "new" THEN "new" ELSE "closed"]
  /\ UNCHANGED <<g_stop, g_readers, g_publishers, pc, stale>>

-----------------------------------------------------------------------------
(* publisher_loop.                                                         *)

LoopTop(p) ==
  /\ pc[p] = "top"
  /\ pc' = [pc EXCEPT ![p] = IF g_stop THEN "leave" ELSE "recv"]
  /\ UNCHANGED <<g_stop, g_readers, g_publishers, main, sock, stale>>

\* srt_recvmsg returns a packet, or fails because the peer left or the accepting
\* thread closed the socket.
Receive(p) ==
  /\ pc[p] = "recv" /\ sock[p] = "open"
  /\ pc' = [pc EXCEPT ![p] = "relay"]
  /\ UNCHANGED <<g_stop, g_readers, g_publishers, main, sock, stale>>

ReceiveRetries(p) ==  \* (variant: an error is taken for a pause)
  /\ pc[p] = "recv" /\ sock[p] \in {"broken", "closed"}
  /\ pc' = [pc EXCEPT ![p] = "top"]
  /\ UNCHANGED <<g_stop, g_readers, g_publishers, main, sock, stale>>
ReceiveFails(p) ==
  /\ pc[p] = "recv" /\ sock[p] \in {"broken", "closed"}
  /\ pc' = [pc EXCEPT ![p] = "leave"]
  /\ UNCHANGED <<g_stop, g_readers, g_publishers, main, sock, stale>>

\* With the lock: the packet is handed to every reader of the name.  One that is
\* too slow misses it, one whose connection is gone is dropped.
Gone(n) == {r \in g_readers[n] : sock[r] # "open"}
StillReading(n, G) == g_readers[n] \ G

Relay(p) ==
  /\ pc[p] = "relay"
  /\ LET n == NameOf[p]
     IN /\ g_readers' = [g_readers EXCEPT ![n] = StillReading(n, Gone(n))]
        /\ sock' = [s \in Sockets |-> IF s \in Gone(n) THEN "closed" ELSE sock[s]]
        /\ stale' = [stale EXCEPT ![p] = IF g_publishers[n] = p THEN @ ELSE @ + 1]
  /\ pc' = [pc EXCEPT ![p] = "top"]
  /\ UNCHANGED <<g_stop, g_publishers, main>>

\* With the lock: p is no longer the publisher, if it still was.
UnregisterAny(p) == None  \* (variant: whoever is registered)
Unregister(p) == IF g_publishers[NameOf[p]] = p THEN None ELSE g_publishers[NameOf[p]]

Leave(p) ==
  /\ pc[p] = "leave"
  /\ g_publishers' = [g_publishers EXCEPT ![NameOf[p]] = Unregister(p)]
  /\ pc' = [pc EXCEPT ![p] = "close"]
  /\ UNCHANGED <<g_stop, g_readers, main, sock, stale>>

ClosePublisher(p) ==
  /\ pc[p] = "close"
  /\ sock' = [sock EXCEPT ![p] = "closed"] /\ pc' = [pc EXCEPT ![p] = "done"]
  /\ UNCHANGED <<g_stop, g_readers, g_publishers, main, stale>>

\* External: a peer hangs up or its network dies.
PeerLeaves(s) ==
  /\ sock[s] = "open"
  /\ sock' = [sock EXCEPT ![s] = "broken"]
  /\ UNCHANGED <<g_stop, g_readers, g_publishers, main, pc, stale>>

-----------------------------------------------------------------------------
Loop(p) == \/ LoopTop(p) \/ Receive(p) \/ ReceiveFails(p) \/ Relay(p)
           \/ Leave(p) \/ ClosePublisher(p)

Next ==
  \/ Signal \/ MainTop \/ Exit
  \/ \E p \in Publishers : AcceptPublisher(p) \/ Loop(p)
  \/ \E r \in Readers : AcceptReader(r)
  \/ \E s \in Sockets : PeerLeaves(s)

Spec == Init /\ [][Next]_vars

(* Fairness: threads that can run do run; peers need not do anything. *)
FairSpec ==
  /\ Spec /\ WF_vars(MainTop) /\ WF_vars(Exit)
  /\ \A p \in Publishers :
       /\ WF_vars(LoopTop(p)) /\ WF_vars(ReceiveFails(p)) /\ WF_vars(Relay(p))
       /\ WF_vars(Leave(p)) /\ WF_vars(ClosePublisher(p))

-----------------------------------------------------------------------------
(* Properties.                                                             *)

Running(p) == pc[p] \in {"top", "recv", "relay"}

\* Of the publishers of a name only the registered one has its socket open and
\* its loop running; a loop that was replaced cannot take the registration of
\* its successor away, so that a third publisher still replaces the second.
OnlyRegisteredIsOpen ==
  \A p \in Publishers : Running(p) /\ sock[p] = "open" => g_publishers[NameOf[p]] = p

\* A publisher that was replaced sends at most the packet it had received before
\* the takeover: its readers do not get two streams mixed.
OneStalePacket == \A p \in Publishers : stale[p] <= 1

\* No socket is lost: a reader that was accepted is in the list or closed, a
\* publisher belongs to a thread or is closed, a closed reader is not listed.
NoSocketIsLost ==
  main # "exited" =>
    /\ \A r \in Readers : sock[r] \in {"open", "broken"} <=> r \in g_readers[NameOf[r]]
    /\ \A p \in Publishers : sock[p] \in {"open", "broken"} =>
                                pc[p] \in {"top", "recv", "relay", "leave", "close"}

\* Every publisher that lost its connection or its name gives its thread up,
\* and afterwards the registration is not that of a dead socket.
DeadPublisherGoes ==
  \A p \in Publishers : sock[p] \in {"broken", "closed"} ~>
                          pc[p] = "done" /\ g_publishers[NameOf[p]] # p

\* srt_relay.cpp:174, "newest publisher wins": no packet is relayed for another.
NewestWins == [][\A p \in Publishers : Relay(p) => g_publishers[NameOf[p]] = p]_vars

\* What a takeover may cost: one open publisher per name, at most one packet of
\* the one it replaced, and no socket in nobody's hands.
TakeoverIsClean == OnlyRegisteredIsOpen /\ OneStalePacket /\ NoSocketIsLost
=============================================================================
