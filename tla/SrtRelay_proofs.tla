--------------------------- MODULE SrtRelay_proofs ---------------------------
(* Safety of the SRT relay for any number of names, publishers and readers. *)
EXTENDS SrtRelay, TLAPS

\* The socket of a thread that has not unregistered is open only while the
\* thread is the registered one; a socket is new exactly until it is accepted;
\* sockets are filed under their own name.
Registered ==
  /\ \A n \in Names : \A r \in g_readers[n] : NameOf[r] = n
  /\ \A n \in Names : g_publishers[n] # None =>
       pc[g_publishers[n]] # "none" /\ NameOf[g_publishers[n]] = n
  /\ \A p \in Publishers :
       /\ pc[p] = "none" <=> sock[p] = "new"
       /\ pc[p] # "none" /\ sock[p] \in {"open", "broken"} =>
            \/ g_publishers[NameOf[p]] = p
            \/ pc[p] = "close"

\* A packet is stale only once per publisher: after it the socket is closed and
\* no further one is received.
Stale ==
  \A p \in Publishers :
    /\ stale[p] <= 1
    /\ stale[p] = 1 => sock[p] = "closed" /\ pc[p] # "relay"

\* Threads end before main does.
Joined == main = "exited" => \A p \in Publishers : pc[p] \in {"none", "done"}

IInv == TypeOK /\ Registered /\ Stale /\ NoSocketIsLost /\ Joined

LEMMA InitInv == Init => IInv
<1> USE RelayAssumption DEF Init, Sockets
<1>1. Init => TypeOK
  <2> SUFFICES ASSUME Init PROVE TypeOK
    OBVIOUS
  <2>1. g_readers \in [Names -> SUBSET Readers] /\ g_publishers \in [Names -> Publishers \cup {None}]
    OBVIOUS
  <2>2. stale \in [Publishers -> Nat] /\ g_stop \in BOOLEAN /\ main = "top"
    OBVIOUS
  <2>3. pc \in [Publishers -> {"none"}] /\ sock \in [Sockets -> {"new"}]
    OBVIOUS
  <2> QED BY <2>1, <2>2, <2>3 DEF TypeOK
<1>2. Init => Registered /\ Stale /\ NoSocketIsLost /\ Joined
  BY DEF Registered, Stale, NoSocketIsLost, Joined
<1> QED BY <1>1, <1>2 DEF IInv

\* Types: every operation keeps the maps and threads what they are.
LEMMA TypeStep == TypeOK /\ [Next]_vars => TypeOK'
<1> SUFFICES ASSUME TypeOK, [Next]_vars PROVE TypeOK'
  OBVIOUS
<1> USE RelayAssumption DEF TypeOK, Sockets
<1>1. CASE Signal \/ MainTop
  BY <1>1 DEF Signal, MainTop
<1>2. CASE Exit
  BY <1>2 DEF Exit
<1>3. ASSUME NEW p \in Publishers, AcceptPublisher(p) PROVE TypeOK'
  BY <1>3 DEF AcceptPublisher, Takeover
<1>4. ASSUME NEW p \in Publishers, LoopTop(p) \/ Receive(p) \/ ReceiveFails(p) PROVE TypeOK'
  BY <1>4 DEF LoopTop, Receive, ReceiveFails
<1>5. ASSUME NEW p \in Publishers, Relay(p) PROVE TypeOK'
  BY <1>5 DEF Relay, StillReading, Gone
<1>6. ASSUME NEW p \in Publishers, Leave(p) \/ ClosePublisher(p) PROVE TypeOK'
  BY <1>6 DEF Leave, ClosePublisher, Unregister
<1>7. ASSUME NEW r \in Readers, AcceptReader(r) PROVE TypeOK'
  BY <1>7 DEF AcceptReader
<1>8. ASSUME NEW s \in Sockets, PeerLeaves(s) PROVE TypeOK'
  BY <1>8 DEF PeerLeaves
<1>9. CASE UNCHANGED vars
  BY <1>9 DEF vars
<1> QED BY <1>1, <1>2, <1>3, <1>4, <1>5, <1>6, <1>7, <1>8, <1>9 DEF Next, Loop

\* A takeover closes the socket of the one publisher that was registered, and a
\* thread that leaves takes only its own registration away.
LEMMA RegisteredStep == TypeOK /\ Registered /\ Joined /\ [Next]_vars => Registered'
<1> SUFFICES ASSUME TypeOK, Registered, Joined, [Next]_vars PROVE Registered'
  OBVIOUS
<1> USE RelayAssumption DEF TypeOK, Sockets, Registered, Joined
<1>1. CASE Signal \/ MainTop
  BY <1>1 DEF Signal, MainTop
<1>2. CASE Exit
  BY <1>2 DEF Exit
<1>3. ASSUME NEW p \in Publishers, AcceptPublisher(p) PROVE Registered'
  <2> DEFINE n == NameOf[p]
  <2>1. /\ n \in Names /\ g_publishers' = [g_publishers EXCEPT ![n] = p]
        /\ pc' = [pc EXCEPT ![p] = "top"] /\ pc[p] = "none"
    BY <1>3 DEF AcceptPublisher
  <2>2. \A s \in Sockets : sock'[s] = IF s = p THEN "open"
                                      ELSE IF s = g_publishers[n] THEN "closed" ELSE sock[s]
    BY <1>3 DEF AcceptPublisher, Takeover
  <2>8. \A m \in Names : \A r \in g_readers'[m] : NameOf[r] = m
    BY <1>3 DEF AcceptPublisher, Registered
  <2>7. \A m \in Names : g_publishers'[m] # None =>
          pc'[g_publishers'[m]] # "none" /\ NameOf[g_publishers'[m]] = m
    BY <2>1 DEF Registered
  <2>3. SUFFICES ASSUME NEW q \in Publishers
                 PROVE  /\ pc'[q] = "none" <=> sock'[q] = "new"
                        /\ pc'[q] # "none" /\ sock'[q] \in {"open", "broken"} =>
                             g_publishers'[NameOf[q]] = q \/ pc'[q] = "close"
    BY <2>7, <2>8 DEF Registered
  <2>4. CASE q = p
    BY <2>1, <2>2, <2>4
  <2>5. CASE q # p /\ q = g_publishers[n]
    BY <2>1, <2>2, <2>5 DEF Registered
  <2>6. CASE q # p /\ q # g_publishers[n]
    BY <2>1, <2>2, <2>6 DEF Registered
  <2> QED BY <2>4, <2>5, <2>6
<1>4. ASSUME NEW p \in Publishers, LoopTop(p) \/ Receive(p) \/ ReceiveFails(p) PROVE Registered'
  BY <1>4 DEF LoopTop, Receive, ReceiveFails
<1>5. ASSUME NEW p \in Publishers, Relay(p) PROVE Registered'
  BY <1>5 DEF Relay, StillReading, Gone
<1>6. ASSUME NEW p \in Publishers, Leave(p) \/ ClosePublisher(p) PROVE Registered'
  BY <1>6 DEF Leave, ClosePublisher, Unregister
<1>7. ASSUME NEW r \in Readers, AcceptReader(r) PROVE Registered'
  BY <1>7 DEF AcceptReader
<1>8. ASSUME NEW s \in Sockets, PeerLeaves(s) PROVE Registered'
  BY <1>8 DEF PeerLeaves
<1>9. CASE UNCHANGED vars
  BY <1>9 DEF vars
<1> QED BY <1>1, <1>2, <1>3, <1>4, <1>5, <1>6, <1>7, <1>8, <1>9 DEF Next, Loop

\* A stale packet needs a publisher that was replaced: its socket is closed.
LEMMA StaleStep == TypeOK /\ Registered /\ Stale /\ Joined /\ [Next]_vars => Stale'
<1> SUFFICES ASSUME TypeOK, Registered, Stale, Joined, [Next]_vars PROVE Stale'
  OBVIOUS
<1> USE RelayAssumption DEF TypeOK, Sockets, Registered, Stale, Joined
<1>1. CASE Signal \/ MainTop
  BY <1>1 DEF Signal, MainTop
<1>2. CASE Exit
  BY <1>2 DEF Exit
<1>3. ASSUME NEW p \in Publishers, AcceptPublisher(p) PROVE Stale'
  BY <1>3 DEF AcceptPublisher, Takeover
<1>4. ASSUME NEW p \in Publishers, LoopTop(p) \/ Receive(p) \/ ReceiveFails(p) PROVE Stale'
  BY <1>4 DEF LoopTop, Receive, ReceiveFails
<1>5. ASSUME NEW p \in Publishers, Relay(p) PROVE Stale'
  <2> DEFINE n == NameOf[p]
  <2>1. /\ pc[p] = "relay" /\ pc' = [pc EXCEPT ![p] = "top"] /\ n \in Names
        /\ stale' = [stale EXCEPT ![p] = IF g_publishers[n] = p THEN @ ELSE @ + 1]
    BY <1>5 DEF Relay
  <2>2. \A s \in Sockets : sock[s] = "closed" => sock'[s] = "closed"
    BY <1>5 DEF Relay
  <2>3. stale[p] = 0
    BY <2>1
  <2>4. g_publishers[n] # p => sock[p] = "closed"
    BY <2>1
  <2> QED BY <2>1, <2>2, <2>3, <2>4
<1>6. ASSUME NEW p \in Publishers, Leave(p) \/ ClosePublisher(p) PROVE Stale'
  BY <1>6 DEF Leave, ClosePublisher, Unregister
<1>7. ASSUME NEW r \in Readers, AcceptReader(r) PROVE Stale'
  BY <1>7 DEF AcceptReader
<1>8. ASSUME NEW s \in Sockets, PeerLeaves(s) PROVE Stale'
  BY <1>8 DEF PeerLeaves
<1>9. CASE UNCHANGED vars
  BY <1>9 DEF vars
<1> QED BY <1>1, <1>2, <1>3, <1>4, <1>5, <1>6, <1>7, <1>8, <1>9 DEF Next, Loop

\* Sockets change hands inside one critical section, or stay where they are.
LEMMA SocketStep == TypeOK /\ Registered /\ NoSocketIsLost /\ [Next]_vars => NoSocketIsLost'
<1> SUFFICES ASSUME TypeOK, Registered, NoSocketIsLost, [Next]_vars PROVE NoSocketIsLost'
  OBVIOUS
<1> USE RelayAssumption DEF TypeOK, Sockets, Registered, NoSocketIsLost
<1>1. CASE Signal \/ MainTop
  BY <1>1 DEF Signal, MainTop
<1>2. CASE Exit
  BY <1>2 DEF Exit
<1>3. ASSUME NEW p \in Publishers, AcceptPublisher(p) PROVE NoSocketIsLost'
  <2>1. /\ main # "exited" /\ UNCHANGED g_readers /\ pc' = [pc EXCEPT ![p] = "top"]
        /\ \A s \in Sockets : sock'[s] = IF s = p THEN "open"
             ELSE IF s = g_publishers[NameOf[p]] THEN "closed" ELSE sock[s]
    BY <1>3 DEF AcceptPublisher, Takeover
  <2>2. \A r \in Readers : sock'[r] = sock[r]
    BY <2>1
  <2>3. \A q \in Publishers : sock'[q] \in {"open", "broken"} =>
                                 pc'[q] \in {"top", "recv", "relay", "leave", "close"}
    BY <2>1
  <2> QED BY <2>1, <2>2, <2>3
<1>4. ASSUME NEW p \in Publishers, LoopTop(p) \/ Receive(p) \/ ReceiveFails(p) PROVE NoSocketIsLost'
  BY <1>4 DEF LoopTop, Receive, ReceiveFails
<1>5. ASSUME NEW p \in Publishers, Relay(p) PROVE NoSocketIsLost'
  <2> DEFINE n == NameOf[p]  G == Gone(n)
  <2>1. /\ G \subseteq g_readers[n] /\ G \subseteq Readers /\ n \in Names
        /\ \A r \in g_readers[n] \ G : sock[r] = "open"
    BY DEF Gone
  <2>2. /\ pc' = [pc EXCEPT ![p] = "top"] /\ pc[p] = "relay" /\ UNCHANGED main
        /\ \A m \in Names : g_readers'[m] = IF m = n THEN g_readers[n] \ G ELSE g_readers[m]
        /\ \A s \in Sockets : sock'[s] = IF s \in G THEN "closed" ELSE sock[s]
    BY <1>5, <2>1 DEF Relay, StillReading
  <2> HIDE DEF G
  <2>3. ASSUME main # "exited", NEW r \in Readers
        PROVE  sock'[r] \in {"open", "broken"} <=> r \in g_readers'[NameOf[r]]
    <3>1. CASE NameOf[r] = n
      BY <2>1, <2>2, <2>3, <3>1
    <3>2. CASE NameOf[r] # n
      <4>1. r \notin G
        BY <2>1, <3>2 DEF Registered
      <4> QED BY <2>2, <2>3, <3>2, <4>1
    <3> QED BY <3>1, <3>2
  <2>4. ASSUME main # "exited", NEW q \in Publishers, sock'[q] \in {"open", "broken"}
        PROVE  pc'[q] \in {"top", "recv", "relay", "leave", "close"}
    BY <2>1, <2>2, <2>4
  <2> QED BY <2>2, <2>3, <2>4
<1>6. ASSUME NEW p \in Publishers, Leave(p) \/ ClosePublisher(p) PROVE NoSocketIsLost'
  BY <1>6 DEF Leave, ClosePublisher, Unregister
<1>7. ASSUME NEW r \in Readers, AcceptReader(r) PROVE NoSocketIsLost'
  BY <1>7 DEF AcceptReader
<1>8. ASSUME NEW s \in Sockets, PeerLeaves(s) PROVE NoSocketIsLost'
  BY <1>8 DEF PeerLeaves
<1>9. CASE UNCHANGED vars
  BY <1>9 DEF vars
<1> QED BY <1>1, <1>2, <1>3, <1>4, <1>5, <1>6, <1>7, <1>8, <1>9 DEF Next, Loop

\* After main has joined every thread no thread is started.
LEMMA JoinedStep == TypeOK /\ Joined /\ [Next]_vars => Joined'
<1> SUFFICES ASSUME TypeOK, Joined, [Next]_vars PROVE Joined'
  OBVIOUS
<1> USE RelayAssumption DEF TypeOK, Sockets, Joined
<1>1. CASE Signal \/ MainTop
  BY <1>1 DEF Signal, MainTop
<1>2. CASE Exit
  BY <1>2 DEF Exit
<1>3. ASSUME NEW p \in Publishers, AcceptPublisher(p) PROVE Joined'
  BY <1>3 DEF AcceptPublisher, Takeover
<1>4. ASSUME NEW p \in Publishers, LoopTop(p) \/ Receive(p) \/ ReceiveFails(p) PROVE Joined'
  BY <1>4 DEF LoopTop, Receive, ReceiveFails
<1>5. ASSUME NEW p \in Publishers, Relay(p) PROVE Joined'
  BY <1>5 DEF Relay, StillReading, Gone
<1>6. ASSUME NEW p \in Publishers, Leave(p) \/ ClosePublisher(p) PROVE Joined'
  BY <1>6 DEF Leave, ClosePublisher, Unregister
<1>7. ASSUME NEW r \in Readers, AcceptReader(r) PROVE Joined'
  BY <1>7 DEF AcceptReader
<1>8. ASSUME NEW s \in Sockets, PeerLeaves(s) PROVE Joined'
  BY <1>8 DEF PeerLeaves
<1>9. CASE UNCHANGED vars
  BY <1>9 DEF vars
<1> QED BY <1>1, <1>2, <1>3, <1>4, <1>5, <1>6, <1>7, <1>8, <1>9 DEF Next, Loop

LEMMA IndStep == IInv /\ [Next]_vars => IInv'
BY TypeStep, RegisteredStep, StaleStep, SocketStep, JoinedStep DEF IInv

LEMMA Inductive == Spec => []IInv
BY InitInv, IndStep, PTL DEF Spec

\* Every variable keeps its type, and only sockets that came to publish are
\* registered as publishers.
THEOREM RelayTypeCorrect == Spec => []TypeOK
<1>1. IInv => TypeOK
  BY DEF IInv
<1> QED BY <1>1, Inductive, PTL

\* One open publisher per name, however takeovers, disconnects and the ends of
\* replaced loops interleave.
THEOREM OnePublisherPerName == Spec => []OnlyRegisteredIsOpen
<1>1. IInv => OnlyRegisteredIsOpen
  BY DEF IInv, TypeOK, Registered, OnlyRegisteredIsOpen, Running
<1> QED BY <1>1, Inductive, PTL

\* A takeover lets at most one packet of the replaced publisher through.
THEOREM AtMostOneStale == Spec => []OneStalePacket
<1>1. IInv => OneStalePacket
  BY DEF IInv, Stale, OneStalePacket
<1> QED BY <1>1, Inductive, PTL

\* No accepted socket is forgotten.
THEOREM SocketsAreKept == Spec => []NoSocketIsLost
<1>1. IInv => NoSocketIsLost
  BY DEF IInv
<1> QED BY <1>1, Inductive, PTL

\* The three together: what a takeover may cost, for any sockets and names.
THEOREM CleanTakeover == Spec => []TakeoverIsClean
<1>1. OnlyRegisteredIsOpen /\ OneStalePacket /\ NoSocketIsLost => TakeoverIsClean
  BY DEF TakeoverIsClean
<1> QED BY <1>1, OnePublisherPerName, AtMostOneStale, SocketsAreKept, PTL
=============================================================================
