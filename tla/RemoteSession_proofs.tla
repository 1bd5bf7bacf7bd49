-------------------------- MODULE RemoteSession_proofs --------------------------
(***************************************************************************)
(* Invariance proofs about RemoteSession, for any number of viewers, of    *)
(* connections of the host and of events.                                  *)
(***************************************************************************)
EXTENDS RemoteSession, TLAPS, FiniteSetTheorems

(***************************************************************************)
(* Types                                                                   *)
(***************************************************************************)

LEMMA MessageType ==
  ASSUME NEW t \in {"connect", "session", "request", "offer", "answer", "end", "ended",
                    "error", "hello", "close"},
         NEW s \in Maybe, t \in {"request", "offer"} => s # None
  PROVE  M(t, s) \in Msg
BY DEF M, Msg

LEMMA Messages ==
  /\ M("close", None) \in Msg /\ M("error", None) \in Msg /\ M("hello", None) \in Msg
  /\ \A v \in Viewers : /\ M("request", v) \in Msg /\ M("session", v) \in Msg
                        /\ M("ended", v) \in Msg /\ M("connect", v) \in Msg
                        /\ M("offer", v) \in Msg /\ M("end", v) \in Msg
<1>1. None \in Maybe /\ \A v \in Viewers : v \in Maybe /\ v # None
  BY RemoteAssumption DEF Maybe, Conns
<1> QED BY <1>1, MessageType

LEMMA OnlyCloseType == ASSUME NEW q PROVE OnlyClose(q) \in Seq(Msg)
<1>1. <<M("close", None)>> \in Seq(Msg) BY Messages
<1> QED BY <1>1 DEF OnlyClose

LEMMA SetToSeqType ==
  ASSUME NEW S, IsFiniteSet(S), S \subseteq Msg
  PROVE  SetToSeq(S) \in Seq(Msg)
<1> DEFINE n == Cardinality(S)
<1>1. n \in Nat /\ ExistsBijection(1..n, S) BY FS_CardinalityType
<1>2. PICK f : f \in [1..n -> S] /\ IsInjective(f)
  BY <1>1 DEF ExistsBijection, Bijection, Injection
<1> HIDE DEF n
<1>3. SetToSeq(S) \in [1..n -> S] BY <1>2 DEF SetToSeq, n
<1> QED BY <1>1, <1>3

LEMMA SaysType ==
  ASSUME TypeOK, NEW ms \in Seq(Msg), up' = Says(ms)
  PROVE  up' \in [Conns -> Seq(Msg)]
<1>1. up \in [Conns -> Seq(Msg)] /\ hostConn \in HostConns \union {None} BY DEF TypeOK
<1>2. CASE hostConn = None BY <1>1, <1>2 DEF Says
<1>3. CASE hostConn # None
  <2>1. hostConn \in Conns /\ up[hostConn] \o ms \in Seq(Msg) BY <1>1, <1>3 DEF Conns
  <2> QED BY <1>1, <1>3, <2>1 DEF Says
<1> QED BY <1>2, <1>3

LEMMA TellType ==
  ASSUME TypeOK, NEW out, \A c \in Conns : out[c] \in Seq(Msg), Tell(out)
  PROVE  down' \in [Conns -> Seq(Msg)]
<1>1. ASSUME NEW c \in Conns PROVE Read(c, out[c]) \in Seq(Msg)
  BY OnlyCloseType DEF Read
<1>2. \A c \in Conns : down[c] \in Seq(Msg) BY DEF TypeOK
<1>3. \A c \in Conns : down[c] \o Read(c, out[c]) \in Seq(Msg) BY <1>1, <1>2
<1> QED BY <1>2, <1>3 DEF Tell

LEMMA ToType == ASSUME TypeOK, NEW c, NEW m \in Msg, Tell(To(c, m))
                PROVE  down' \in [Conns -> Seq(Msg)]
<1>1. \A d \in Conns : To(c, m)[d] \in Seq(Msg) BY DEF To
<1> QED BY <1>1, TellType

LEMMA EndSessionsType ==
  ASSUME TypeOK, NEW E \in SUBSET Maybe, NEW c, EndSessions(E, c)
  PROVE  down' \in [Conns -> Seq(Msg)] /\ sessions' \in [Viewers -> HostConns \union {None}]
<1> DEFINE ends(d) == {u \in E : d \in {u, sessions[u]}}
           told(d) == {M("ended", v) : v \in ends(d)}
           out == [d \in Conns |-> IF d = c THEN <<M("close", None)>> ELSE SetToSeq(told(d))]
<1>1. ASSUME NEW d \in Conns PROVE out[d] \in Seq(Msg)
  <2>1. told(d) \subseteq Msg BY MessageType
  <2>2. IsFiniteSet(ends(d))
    <3>1. IsFiniteSet(Maybe) BY RemoteAssumption, FS_AddElement DEF Maybe
    <3> QED BY <3>1, FS_Subset
  <2>3. IsFiniteSet(told(d))
    <3> DEFINE f == [v \in ends(d) |-> M("ended", v)]
    <3>1. f \in Surjection(ends(d), told(d)) BY DEF Surjection
    <3> QED BY <2>2, <3>1, FS_Surjection
  <2>4. SetToSeq(told(d)) \in Seq(Msg) BY <2>1, <2>3, SetToSeqType
  <2>5. <<M("close", None)>> \in Seq(Msg) BY Messages
  <2> QED BY <2>4, <2>5
<1>2. Tell(out) BY DEF EndSessions
<1> HIDE DEF out
<1>4. sessions' \in [Viewers -> HostConns \union {None}] BY DEF EndSessions, TypeOK
<1> QED BY <1>1, <1>2, <1>4, TellType

-----------------------------------------------------------------------------
LEMMA OverType ==
  ASSUME NEW o \in Object PROVE Over(o) \in Object /\ Over(o).control = o.control
BY DEF Over, Object

LEMMA BegunType ==
  ASSUME NEW o \in Object, NEW x \in {"no", "sent", "answered", "over"}
  PROVE  [o EXCEPT !.begun = x] \in Object /\ [o EXCEPT !.begun = x].control = o.control
BY DEF Object

LEMMA OfferedType ==
  ASSUME NEW o \in Object, NEW v \in Maybe
  PROVE  LET p == [o EXCEPT !.pc = "open", !.offer = v, !.step = "capture"]
         IN  p \in Object /\ p.control = o.control
BY DEF Object

LEMMA SteppedType ==
  ASSUME NEW o \in Object, NEW step \in {"capture", "answer", "done"},
         NEW stream \in {"none", "live", "stopped"}
  PROVE  LET p == [o EXCEPT !.step = step, !.stream = stream]
         IN  p \in Object /\ p.control = o.control
BY DEF Object

LEMMA AllowedType ==
  ASSUME NEW o \in Object, NEW control \in BOOLEAN
  PROVE  LET p == [o EXCEPT !.control = control, !.begun = "sent"]
         IN  p \in Object /\ p.control = control
BY DEF Object

LEMMA ToggledType ==
  ASSUME NEW o \in Object
  PROVE  LET p == [o EXCEPT !.control = ~@]
         IN  p \in Object /\ p.control = ~o.control
BY DEF Object

-----------------------------------------------------------------------------
LEMMA ServerTypes == ASSUME TypeOK, NEW c \in Conns, ServerHears(c) PROVE
  /\ up' \in [Conns -> Seq(Msg)] /\ down' \in [Conns -> Seq(Msg)]
  /\ socket' \in [Conns -> {"none", "open", "closing", "closed"}]
  /\ hosts' \in HostConns \union {None} /\ sessions' \in [Viewers -> HostConns \union {None}]
<1> DEFINE m == Head(up[c])
<1>0. up[c] \in Seq(Msg) /\ up[c] # <<>> BY DEF ServerHears, TypeOK
<1>1. m \in Msg /\ Tail(up[c]) \in Seq(Msg) BY <1>0
<1> HIDE DEF m
<1>2. up' \in [Conns -> Seq(Msg)] BY <1>1 DEF ServerHears, TypeOK
<1>3. CASE Closed(c)
  <2>1. hosts' \in HostConns \union {None} BY <1>3 DEF Closed, Unlisted, TypeOK
  <2>2. socket' \in [Conns -> {"none", "open", "closing", "closed"}]
    BY <1>3 DEF Closed, TypeOK
  <2>3. \E E \in SUBSET Maybe : EndSessions(E, c) BY <1>3 DEF Closed, Maybe
  <2> QED BY <1>2, <2>1, <2>2, <2>3, EndSessionsType
<1>4. CASE c \in Viewers /\ ViewerSays(c, m)
  <2>1. UNCHANGED <<socket, hosts>> BY <1>4 DEF ViewerSays
  <2>2. CASE m.t = "connect" /\ hosts = None
    <3>1. Tell(To(c, M("error", None))) /\ UNCHANGED sessions BY <1>4, <2>2 DEF ViewerSays
    <3> QED BY <1>2, <2>1, <3>1, ToType, Messages DEF TypeOK
  <2>3. CASE m.t = "connect" /\ hosts # None
    <3> DEFINE out == [To(c, M("session", c)) EXCEPT ![hosts] = <<M("request", c)>>]
    <3>1. Tell(out) /\ sessions' = [sessions EXCEPT ![c] = hosts]
      BY <1>4, <2>3 DEF ViewerSays
    <3>2. ASSUME NEW d \in Conns PROVE out[d] \in Seq(Msg)
      <4>1. /\ <<M("session", c)>> \in Seq(Msg) /\ <<M("request", c)>> \in Seq(Msg)
            /\ <<>> \in Seq(Msg)
        BY <1>4, Messages
      <4>2. out[d] \in {<<M("session", c)>>, <<M("request", c)>>, <<>>} BY DEF To
      <4> QED BY <4>1, <4>2
    <3>3. sessions' \in [Viewers -> HostConns \union {None}] BY <3>1 DEF TypeOK
    <3> HIDE DEF out
    <3>4. down' \in [Conns -> Seq(Msg)] BY <3>1, <3>2, TellType
    <3> QED BY <1>2, <2>1, <3>3, <3>4 DEF TypeOK
  <2>4. CASE m.t # "connect"
    <3>1. Tell(To(sessions[c], m)) /\ UNCHANGED sessions BY <1>4, <2>4 DEF ViewerSays
    <3> QED BY <1>1, <1>2, <2>1, <3>1, ToType DEF TypeOK
  <2> QED BY <2>2, <2>3, <2>4
<1>5. CASE c \notin Viewers /\ HostSays(c, m)
  <2>1. CASE m.t = "hello"
    <3>1. /\ hosts' = c /\ Tell(To(hosts, M("close", None))) /\ UNCHANGED sessions
          /\ socket' = [d \in Conns |-> IF d = hosts /\ socket[d] = "open" THEN "closing"
                                        ELSE socket[d]]
      BY <1>5, <2>1 DEF HostSays
    <3>2. c \in HostConns BY <1>5 DEF Conns
    <3>3. socket' \in [Conns -> {"none", "open", "closing", "closed"}] BY <3>1 DEF TypeOK
    <3> QED BY <1>2, <3>1, <3>2, <3>3, ToType, Messages DEF TypeOK
  <2>2. CASE m.t # "hello"
    <3>1. UNCHANGED <<socket, hosts>> BY <1>5, <2>2 DEF HostSays
    <3>2. CASE UNCHANGED <<down, sessions>> BY <1>2, <3>1, <3>2 DEF TypeOK
    <3>3. CASE sessions[m.s] = c /\ m.t = "end" /\ EndSessions({m.s}, None)
      <4>2. m.s \in Maybe BY <1>1 DEF Msg
      <4>3. /\ down' \in [Conns -> Seq(Msg)]
            /\ sessions' \in [Viewers -> HostConns \union {None}]
        <5>1. {m.s} \in SUBSET Maybe BY <4>2
        <5> QED BY <3>3, <5>1, EndSessionsType
      <4> QED BY <1>2, <3>1, <4>3 DEF TypeOK
    <3>4. CASE Tell(To(m.s, m)) /\ UNCHANGED sessions
      BY <1>1, <1>2, <3>1, <3>4, ToType DEF TypeOK
    <3> QED BY <1>5, <2>2, <3>2, <3>3, <3>4, Zenon DEF HostSays
  <2> QED BY <2>1, <2>2
<1> QED BY <1>3, <1>4, <1>5, Zenon DEF ServerHears, m

LEMMA ViewerTypes ==
  ASSUME TypeOK, UNCHANGED <<theHost, theMain>>, events' \in 0..MaxEvents,
         \/ \E c \in Conns : Lost(c)
         \/ \E v \in Viewers : ConnectTo(v) \/ OpenStage(v) \/ StartPeer(v) \/ ViewerHears(v)
         \/ LeaveClicked
  PROVE  TypeOK'
<1> DEFINE Rest == /\ {asking, hostState} \subseteq Maybe /\ hostConn \in HostConns \union {None}
                   /\ UNION {early, forgotten} \subseteq Viewers /\ object \in [Viewers -> Object]
                   /\ ipc \in Seq(Calls) /\ killed \in BOOLEAN /\ events \in 0..MaxEvents
                   /\ main \in [session : Maybe, control : BOOLEAN, held : BOOLEAN]
<1>9. Rest' BY DEF TypeOK, theHost, theMain
<1> SUFFICES /\ up' \in [Conns -> Seq(Msg)] /\ down' \in [Conns -> Seq(Msg)]
             /\ socket' \in [Conns -> {"none", "open", "closing", "closed"}]
             /\ hosts' \in HostConns \union {None} /\ sessions' \in [Viewers -> HostConns \union {None}]
             /\ viewer' \in [Viewers -> {"idle", "pin", "open", "peer", "offered", "ready", "closed"}]
             /\ view' \in Maybe
  BY <1>9 DEF TypeOK
<1> HIDE DEF Rest
<1>0. /\ up \in [Conns -> Seq(Msg)] /\ down \in [Conns -> Seq(Msg)]
      /\ socket \in [Conns -> {"none", "open", "closing", "closed"}]
      /\ hosts \in HostConns \union {None} /\ sessions \in [Viewers -> HostConns \union {None}]
      /\ viewer \in [Viewers -> {"idle", "pin", "open", "peer", "offered", "ready", "closed"}]
      /\ view \in Maybe /\ Viewers \subseteq Conns /\ Viewers \subseteq Maybe /\ None \in Maybe
  BY DEF TypeOK, Conns, Maybe
<1>c. <<M("close", None)>> \in Seq(Msg) BY Messages
<1>1. ASSUME NEW c \in Conns, Lost(c)
      PROVE  /\ up' \in [Conns -> Seq(Msg)] /\ down' \in [Conns -> Seq(Msg)]
             /\ socket' \in [Conns -> {"none", "open", "closing", "closed"}]
             /\ UNCHANGED <<hosts, sessions, viewer, view>>
  BY <1>0, <1>1, <1>c DEF Lost, theViewer
<1>2. ASSUME NEW v \in Viewers, ConnectTo(v)
      PROVE  /\ viewer' \in [Viewers -> {"idle", "pin", "open", "peer", "offered", "ready", "closed"}]
             /\ UNCHANGED <<up, down, socket, hosts, sessions, view>>
  BY <1>0, <1>2 DEF ConnectTo, server
<1>3. ASSUME NEW v \in Viewers, OpenStage(v)
      PROVE  /\ up' \in [Conns -> Seq(Msg)] /\ socket' \in [Conns -> {"none", "open", "closing", "closed"}]
             /\ viewer' \in [Viewers -> {"idle", "pin", "open", "peer", "offered", "ready", "closed"}]
             /\ view' \in Maybe /\ UNCHANGED <<down, hosts, sessions>>
  <2>1. <<M("connect", v)>> \in Seq(Msg) BY Messages
  <2> QED BY <1>0, <1>3, <2>1 DEF OpenStage
<1>4. ASSUME NEW v \in Viewers, StartPeer(v)
      PROVE  /\ up' \in [Conns -> Seq(Msg)]
             /\ viewer' \in [Viewers -> {"idle", "pin", "open", "peer", "offered", "ready", "closed"}]
             /\ UNCHANGED <<down, socket, hosts, sessions, view>>
  <2>1. Append(up[v], M("offer", v)) \in Seq(Msg) BY <1>0, Messages
  <2> QED BY <1>0, <1>4, <2>1 DEF StartPeer, server
<1>5. ASSUME NEW v \in Viewers, Leave(v)
      PROVE  /\ up' \in [Conns -> Seq(Msg)] /\ down' \in [Conns -> Seq(Msg)] /\ view' \in Maybe
             /\ viewer' \in [Viewers -> {"idle", "pin", "open", "peer", "offered", "ready", "closed"}]
  <2>1. Append(up[v], M("close", None)) \in Seq(Msg) /\ <<>> \in Seq(Msg) BY <1>0, Messages
  <2> QED BY <1>0, <1>5, <2>1 DEF Leave
<1>6. ASSUME NEW v \in Viewers, ViewerHears(v)
      PROVE  /\ up' \in [Conns -> Seq(Msg)] /\ down' \in [Conns -> Seq(Msg)] /\ view' \in Maybe
             /\ viewer' \in [Viewers -> {"idle", "pin", "open", "peer", "offered", "ready", "closed"}]
             /\ UNCHANGED <<socket, hosts, sessions>>
  <2>1. UNCHANGED <<socket, hosts, sessions>> /\ down[v] # <<>> BY <1>6 DEF ViewerHears, server
  <2>2. CASE Leave(v) BY <1>5, <2>1, <2>2
  <2>3. CASE /\ \E p \in {"peer", "ready"} : viewer' = [viewer EXCEPT ![v] = p]
             /\ down' = [down EXCEPT ![v] = Tail(@)] /\ UNCHANGED <<up, view>>
    <3>1. down[v] \in Seq(Msg) BY <1>0
    <3>2. Tail(down[v]) \in Seq(Msg) BY <2>1, <3>1
    <3> QED BY <1>0, <2>1, <2>3, <3>2
  <2> QED BY <1>6, <2>2, <2>3 DEF ViewerHears
<1>7. CASE LeaveClicked
  <2>1. view \in Viewers /\ Leave(view) /\ UNCHANGED <<socket, hosts, sessions>>
    BY <1>0, <1>7 DEF LeaveClicked, server, Maybe
  <2> QED BY <1>0, <1>5, <2>1
<1> QED BY <1>0, <1>1, <1>2, <1>3, <1>4, <1>6, <1>7

-----------------------------------------------------------------------------
LEMMA CallType ==
  ASSUME NEW t \in {"begin", "control", "end", "key"}, NEW s \in Maybe, NEW on \in BOOLEAN
  PROVE  Call(t, s, on) \in Calls
BY DEF Call, Calls

LEMMA CallAppended == ASSUME NEW q \in Seq(Calls), NEW m \in Calls PROVE Append(q, m) \in Seq(Calls)
OBVIOUS

LEMMA EndHostSessionType ==
  ASSUME TypeOK, NEW objects \in [Viewers -> Object], EndHostSession(objects)
  PROVE  /\ up' \in [Conns -> Seq(Msg)] /\ object' \in [Viewers -> Object]
         /\ ipc' \in Seq(Calls) /\ hostState' \in Maybe
<1>0. hostState \in Maybe /\ None \in Maybe /\ ipc \in Seq(Calls) BY DEF TypeOK, Maybe
<1>1. CASE hostState = None BY <1>0, <1>1 DEF EndHostSession, TypeOK
<1>2. CASE hostState # None
  <2>1. /\ hostState' = None /\ object' = [objects EXCEPT ![hostState] = Over(@)]
        /\ up' = Says(<<M("end", hostState)>>) /\ ipc' = Append(ipc, Call("end", None, FALSE))
    BY <1>2 DEF EndHostSession
  <2>2. <<M("end", hostState)>> \in Seq(Msg) BY <1>0, MessageType
  <2>3. object' \in [Viewers -> Object] BY <2>1, OverType
  <2>4. ipc' \in Seq(Calls)
    <3>1. Call("end", None, FALSE) \in Calls BY <1>0, CallType
    <3> QED BY <1>0, <2>1, <3>1, CallAppended
  <2> QED BY <1>0, <2>1, <2>2, <2>3, <2>4, SaysType
<1> QED BY <1>1, <1>2

LEMMA StopHostType ==
  ASSUME TypeOK, StopHost
  PROVE  /\ up' \in [Conns -> Seq(Msg)] /\ object' \in [Viewers -> Object]
         /\ ipc' \in Seq(Calls) /\ hostState' = None /\ hostConn' = None
<1>0. None \in Maybe /\ ipc \in Seq(Calls) /\ object \in [Viewers -> Object] BY DEF TypeOK, Maybe
<1>1. object' \in [Viewers -> Object] BY <1>0, OverType DEF StopHost
<1>2. up' \in [Conns -> Seq(Msg)]
  <2>1. <<M("close", None)>> \in Seq(Msg) BY Messages
  <2> QED BY <2>1, SaysType DEF StopHost
<1>3. ipc' \in Seq(Calls)
  <2>1. Call("end", None, FALSE) \in Calls BY <1>0, CallType
  <2>2. ipc' = Append(ipc, Call("end", None, FALSE)) BY DEF StopHost
  <2> QED BY <1>0, <2>1, <2>2, CallAppended
<1> QED BY <1>1, <1>2, <1>3 DEF StopHost

LEMMA UnreadType ==
  ASSUME NEW d \in [Conns -> Seq(Msg)] PROVE Unread(d) \in [Conns -> Seq(Msg)]
BY OnlyCloseType DEF Unread

LEMMA OfferType ==
  ASSUME TypeOK, NEW v \in Maybe, NEW objects \in [Viewers -> Object], Offer(v, objects)
  PROVE  /\ object' \in [Viewers -> Object]
         /\ \A u \in Viewers : object'[u].control = objects[u].control
<1>0. hostState \in Maybe BY DEF TypeOK
<1>1. CASE object' = objects BY <1>1
<1>2. CASE /\ hostState # None
           /\ object' = [objects EXCEPT ![hostState].pc = "open", ![hostState].offer = v,
                                        ![hostState].step = "capture"]
  <2>1. hostState \in Viewers BY <1>0, <1>2 DEF Maybe
  <2> DEFINE p == [objects[hostState] EXCEPT !.pc = "open", !.offer = v, !.step = "capture"]
  <2>2. object' = [objects EXCEPT ![hostState] = p] BY <1>2, <2>1
  <2>3. p \in Object /\ p.control = objects[hostState].control BY <2>1, OfferedType
  <2> HIDE DEF p
  <2> QED BY <2>1, <2>2, <2>3
<1> QED BY <1>1, <1>2 DEF Offer

\* The parts of the type invariant that the host's window writes.
HostTypes ==
  /\ up \in [Conns -> Seq(Msg)] /\ down \in [Conns -> Seq(Msg)]
  /\ {asking, hostState} \subseteq Maybe /\ hostConn \in HostConns \union {None}
  /\ UNION {early, forgotten} \subseteq Viewers /\ object \in [Viewers -> Object]
  /\ ipc \in Seq(Calls)

LEMMA HostTypesEnough ==
  ASSUME TypeOK, HostTypes', UNCHANGED <<server, theViewer, main>>, killed' \in BOOLEAN,
         events' \in 0..MaxEvents
  PROVE  TypeOK'
BY DEF TypeOK, HostTypes, server, theViewer

ControlIsKept == \A v \in Viewers : object'[v].control = object[v].control

LEMMA HostHearsTypes ==
  ASSUME TypeOK, NEW c \in HostConns, HostHears(c)
  PROVE  /\ HostTypes'
         /\ hostState' = None \/ (ControlIsKept /\ UNCHANGED <<hostState, ipc>>)
<1> DEFINE m == Head(down[c])
           rest == [down EXCEPT ![c] = Tail(@)]
           Told == /\ up' \in [Conns -> Seq(Msg)] /\ hostConn' \in HostConns \union {None}
                   /\ {asking', hostState'} \subseteq Maybe
                   /\ UNION {early', forgotten'} \subseteq Viewers
                   /\ object' \in [Viewers -> Object] /\ ipc' \in Seq(Calls)
                   /\ hostState' = None \/ (ControlIsKept /\ UNCHANGED <<hostState, ipc>>)
<1>0. /\ HostTypes /\ down[c] \in Seq(Msg) /\ None \in Maybe /\ down[c] # <<>>
  BY DEF TypeOK, HostTypes, HostHears, Conns, Maybe
<1>1. m \in Msg /\ Tail(down[c]) \in Seq(Msg) BY <1>0
<1>2. m.s \in Maybe /\ (m.t \in {"request", "offer"} => m.s \in Viewers) BY <1>1 DEF Msg, Maybe
<1> HIDE DEF m
<1>3. down' \in [Conns -> Seq(Msg)]
  <2>1. rest \in [Conns -> Seq(Msg)] BY <1>0, <1>1 DEF HostTypes
  <2> HIDE DEF rest
  <2>2. Unread(rest) \in [Conns -> Seq(Msg)] BY <2>1, UnreadType
  <2>3. down' = rest \/ down' = Unread(rest) BY DEF HostHears, m, rest
  <2> QED BY <2>1, <2>2, <2>3
<1> SUFFICES Told BY <1>3 DEF HostTypes
<1>4. CASE StopHost /\ UNCHANGED <<asking, early, forgotten>>
  BY <1>0, <1>4, StopHostType DEF HostTypes
<1>5. CASE m.t = "request" /\ Request(m.s)
  <2>1. UNCHANGED <<hostConn, hostState, early, object, ipc>> BY <1>5 DEF Request
  <2>2. CASE up' = Says(<<M("end", m.s)>>) /\ UNCHANGED <<asking, forgotten>>
    <3>1. <<M("end", m.s)>> \in Seq(Msg) BY <1>2, MessageType
    <3>2. up' \in [Conns -> Seq(Msg)] BY <2>2, <3>1, SaysType
    <3> QED BY <1>0, <2>1, <2>2, <3>2 DEF HostTypes, ControlIsKept
  <2>3. CASE asking' = m.s /\ forgotten' = forgotten \union ({asking} \ {None}) /\ UNCHANGED up
    BY <1>0, <1>2, <2>1, <2>3 DEF HostTypes, ControlIsKept, Maybe
  <2> QED BY <1>5, <2>2, <2>3 DEF Request
<1>6. CASE m.t = "offer" /\ UNCHANGED <<up, hostConn, asking, hostState, forgotten, ipc>>
  <2>1. CASE Offer(m.s, object) /\ UNCHANGED early
    <3>1. object' \in [Viewers -> Object] /\ ControlIsKept
      BY <1>0, <1>2, <2>1, OfferType DEF HostTypes, ControlIsKept
    <3> QED BY <1>0, <1>6, <2>1, <3>1 DEF HostTypes
  <2>2. CASE early' = early \union {m.s} /\ UNCHANGED object
    BY <1>0, <1>2, <1>6, <2>2 DEF HostTypes, ControlIsKept
  <2> QED BY <1>6, <2>1, <2>2 DEF HostHears, m
<1>7. CASE EndHostSession(object) /\ UNCHANGED <<hostConn, asking, early, forgotten>>
  <2>1. hostState' = None BY <1>7 DEF EndHostSession
  <2> QED BY <1>0, <1>7, <2>1, EndHostSessionType DEF HostTypes
<1>8. CASE UNCHANGED <<up, theHost, ipc>>
  BY <1>0, <1>8 DEF HostTypes, theHost, ControlIsKept
<1>9. \/ StopHost /\ UNCHANGED <<asking, early, forgotten>>
      \/ m.t = "request" /\ Request(m.s)
      \/ m.t = "offer" /\ UNCHANGED <<up, hostConn, asking, hostState, forgotten, ipc>>
      \/ EndHostSession(object) /\ UNCHANGED <<hostConn, asking, early, forgotten>>
      \/ UNCHANGED <<up, theHost, ipc>>
  BY Zenon DEF HostHears, m
<1> QED BY <1>4, <1>5, <1>6, <1>7, <1>8, <1>9

LEMMA NegotiateTypes ==
  ASSUME TypeOK, NEW s \in Viewers, Negotiate(s)
  PROVE  /\ HostTypes'
         /\ hostState' = None \/ (ControlIsKept /\ UNCHANGED <<hostState, ipc>>)
<1> DEFINE o == object[s]
           captured == IF o.step = "capture" THEN "live" ELSE o.stream
           p == [o EXCEPT !.step = "done", !.stream = captured]
           q == [o EXCEPT !.step = IF @ = "capture" THEN "answer" ELSE "done", !.stream = captured]
<1>0. HostTypes /\ o \in Object /\ s \in Maybe BY DEF TypeOK, HostTypes, Maybe
<1>1. captured \in {"none", "live", "stopped"} BY <1>0 DEF Object
<1>2. p \in Object /\ p.control = o.control BY <1>0, <1>1, SteppedType
<1>3. q \in Object /\ q.control = o.control BY <1>0, <1>1, SteppedType
<1>4. UNCHANGED <<down, hostConn, asking, early, forgotten>> BY DEF Negotiate
<1>5. CASE o.pc = "closed"
  <2> DEFINE objects == [object EXCEPT ![s].step = "done", ![s].stream = captured]
  <2>1. EndHostSession(objects) BY <1>5 DEF Negotiate
  <2>2. objects = [object EXCEPT ![s] = p] BY <1>0 DEF HostTypes
  <2>3. objects \in [Viewers -> Object] BY <1>0, <1>2, <2>2 DEF HostTypes
  <2> HIDE DEF objects
  <2>4. hostState' = None BY <2>1 DEF EndHostSession
  <2> QED BY <1>0, <1>4, <2>1, <2>3, <2>4, EndHostSessionType DEF HostTypes
<1>6. CASE o.pc # "closed"
  <2>1. /\ UNCHANGED <<hostState, ipc>>
        /\ object' = [object EXCEPT ![s].stream = captured,
                                    ![s].step = IF @ = "capture" THEN "answer" ELSE "done"]
        /\ up' = IF o.step # "answer" THEN up ELSE Says(<<[M("answer", s) EXCEPT !.of = o.offer]>>)
    BY <1>6 DEF Negotiate
  <2>2. object' = [object EXCEPT ![s] = q] BY <1>0, <2>1 DEF HostTypes
  <2>3. object' \in [Viewers -> Object] /\ ControlIsKept
    BY <1>0, <1>3, <2>2 DEF HostTypes, ControlIsKept
  <2> DEFINE answer == [M("answer", s) EXCEPT !.of = o.offer]
  <2>4. answer \in Msg BY <1>0 DEF M, Msg, Object
  <2> HIDE DEF answer
  <2>5. <<answer>> \in Seq(Msg) BY <2>4
  <2>6. up' \in [Conns -> Seq(Msg)] BY <1>0, <2>1, <2>5, SaysType DEF HostTypes, answer
  <2> QED BY <1>0, <1>4, <2>1, <2>3, <2>6 DEF HostTypes
<1> QED BY <1>5, <1>6

\* Steps of the host's window that leave the messages to it alone.
LEMMA BegunTypes ==
  ASSUME TypeOK, NEW v \in Viewers, Begun(v)
  PROVE  HostTypes' /\ ControlIsKept
<1> DEFINE objects == [object EXCEPT ![v].begun = "over"]
<1>0. HostTypes /\ object \in [Viewers -> Object] /\ v \in Maybe BY DEF TypeOK, HostTypes, Maybe
<1>1. /\ objects \in [Viewers -> Object]
      /\ \A u \in Viewers : objects[u].control = object[u].control
  <2> DEFINE p == [object[v] EXCEPT !.begun = "over"]
  <2>1. p \in Object /\ p.control = object[v].control BY <1>0, BegunType
  <2>2. objects = [object EXCEPT ![v] = p] BY <1>0
  <2> HIDE DEF p, objects
  <2> QED BY <1>0, <2>1, <2>2
<1>2. Offer(v, objects) \/ object' = objects BY DEF Begun
<1>3. UNCHANGED <<up, down, hostConn, asking, hostState, ipc>> /\ early' = {}
      /\ forgotten' = forgotten \union (early \ {v})
  BY DEF Begun, theMain
<1> HIDE DEF objects
<1>4. object' \in [Viewers -> Object] /\ ControlIsKept
  BY <1>0, <1>1, <1>2, OfferType DEF ControlIsKept
<1> QED BY <1>0, <1>3, <1>4 DEF HostTypes

LEMMA AllowTypes ==
  ASSUME TypeOK, NEW control \in BOOLEAN, Allow(control)
  PROVE  /\ HostTypes' /\ asking \in Viewers /\ object'[asking].control = control
<1> DEFINE p == [object[asking] EXCEPT !.control = control, !.begun = "sent"]
<1>0. HostTypes /\ asking \in Viewers /\ asking \in Maybe /\ None \in Maybe
  BY DEF Allow, TypeOK, HostTypes, Maybe
<1>1. object[asking] \in Object BY <1>0 DEF HostTypes
<1>2. p \in Object /\ p.control = control BY <1>1, AllowedType
<1>3. object' = [object EXCEPT ![asking] = p] BY <1>0 DEF Allow, HostTypes
<1> HIDE DEF p
<1>4. object' \in [Viewers -> Object] /\ object'[asking].control = control
  BY <1>0, <1>2, <1>3 DEF HostTypes
<1>5. ipc' \in Seq(Calls)
  <2>1. Call("begin", asking, control) \in Calls BY <1>0, CallType
  <2>2. ipc' = Append(ipc, Call("begin", asking, control)) BY DEF Allow
  <2> QED BY <1>0, <2>1, <2>2, CallAppended DEF HostTypes
<1> QED BY <1>0, <1>4, <1>5 DEF Allow, HostTypes

LEMMA ToggleControlTypes ==
  ASSUME TypeOK, ToggleControl
  PROVE  HostTypes' /\ object'[hostState].control = ~object[hostState].control
<1> DEFINE p == [object[hostState] EXCEPT !.control = ~@]
<1>0. HostTypes /\ hostState \in Viewers /\ None \in Maybe
  BY DEF ToggleControl, TypeOK, HostTypes, Maybe
<1>1. object[hostState] \in Object BY <1>0 DEF HostTypes
<1>2. p \in Object /\ p.control = ~object[hostState].control BY <1>1, ToggledType
<1>3. object' = [object EXCEPT ![hostState] = p] BY <1>0 DEF ToggleControl, HostTypes
<1> HIDE DEF p
<1>4. object' \in [Viewers -> Object] /\ object'[hostState].control = ~object[hostState].control
  BY <1>0, <1>2, <1>3 DEF HostTypes
<1>5. ipc' \in Seq(Calls)
  <2> DEFINE on == ~object[hostState].control
  <2>1. on \in BOOLEAN OBVIOUS
  <2>2. ipc' = Append(ipc, Call("control", None, on)) BY DEF ToggleControl
  <2> HIDE DEF on
  <2>3. Call("control", None, on) \in Calls BY <1>0, <2>1, CallType
  <2> QED BY <1>0, <2>2, <2>3, CallAppended DEF HostTypes
<1> QED BY <1>0, <1>4, <1>5 DEF ToggleControl, HostTypes

LEMMA KeyPressedTypes == ASSUME TypeOK, NEW s \in Viewers, KeyPressed(s) PROVE HostTypes'
<1>1. Call("key", None, TRUE) \in Calls BY CallType DEF Maybe
<1>2. ipc' = Append(ipc, Call("key", None, TRUE)) /\ ipc \in Seq(Calls)
  BY DEF KeyPressed, TypeOK
<1>3. ipc' \in Seq(Calls) BY <1>1, <1>2, CallAppended
<1> QED BY <1>3 DEF KeyPressed, TypeOK, HostTypes, theHost

LEMMA StartHostTypes ==
  ASSUME TypeOK, NEW c \in HostConns, StartHost(c), events' \in 0..MaxEvents PROVE TypeOK'
<1>1. <<M("hello", None)>> \in Seq(Msg) BY Messages
<1>2. up' \in [Conns -> Seq(Msg)] BY <1>1 DEF StartHost, TypeOK
<1>3. socket' \in [Conns -> {"none", "open", "closing", "closed"}] BY DEF StartHost, TypeOK
<1> QED BY <1>2, <1>3 DEF StartHost, TypeOK, theViewer, theMain

LEMMA MainHearsTypes ==
  ASSUME TypeOK, MainHears
  PROVE  /\ HostTypes' /\ ControlIsKept
         /\ main' \in [session : Maybe, control : BOOLEAN, held : BOOLEAN]
<1> DEFINE m == Head(ipc)
<1>0. HostTypes /\ ipc # <<>> /\ ipc' = Tail(ipc) /\ ipc \in Seq(Calls)
  BY DEF MainHears, TypeOK, HostTypes
<1>1. m \in Calls /\ ipc' \in Seq(Calls) BY <1>0
<1>2. m.s \in Maybe /\ m.on \in BOOLEAN BY <1>1 DEF Calls
<1>3. /\ m.t = "begin" => main' = Begin(m.s, m.on)
      /\ m.t = "control" => main' = SetControl(m.on)
      /\ m.t = "end" => main' = EndedMain
      /\ m.t \notin {"begin", "control", "end"} => main' = [main EXCEPT !.held = @ \/ main.control]
      /\ object' = IF m.t = "begin" THEN [object EXCEPT ![m.s].begun = "answered"] ELSE object
      /\ UNCHANGED <<up, down, hostConn, asking, hostState, early, forgotten>>
  BY Zenon DEF MainHears
<1> HIDE DEF m
<1>4. main' \in [session : Maybe, control : BOOLEAN, held : BOOLEAN]
  <2>0. main \in [session : Maybe, control : BOOLEAN, held : BOOLEAN] /\ None \in Maybe
    BY DEF TypeOK, Maybe
  <2>1. CASE m.t = "begin" BY <1>2, <1>3, <2>0, <2>1 DEF Begin
  <2>2. CASE m.t = "control"
    <3> DEFINE control == m.on /\ main.session # None
               held == main.held /\ control
    <3>1. main' = [main EXCEPT !.control = control, !.held = held]
      BY <1>3, <2>2, Zenon DEF SetControl
    <3>2. control \in BOOLEAN /\ held \in BOOLEAN BY Zenon
    <3> HIDE DEF control, held
    <3> QED BY <2>0, <3>1, <3>2
  <2>3. CASE m.t = "end"
    <3> DEFINE held == main.held /\ ~main.control
    <3>1. main' = [session |-> None, control |-> FALSE, held |-> held]
      BY <1>3, <2>3 DEF EndedMain
    <3>2. held \in BOOLEAN OBVIOUS
    <3> HIDE DEF held
    <3> QED BY <2>0, <3>1, <3>2
  <2>4. CASE m.t \notin {"begin", "control", "end"}
    <3> DEFINE held == main.held \/ main.control
    <3>1. main' = [main EXCEPT !.held = held] BY <1>3, <2>4, Zenon
    <3>2. held \in BOOLEAN OBVIOUS
    <3> HIDE DEF held
    <3> QED BY <2>0, <3>1, <3>2
  <2> QED BY <2>1, <2>2, <2>3, <2>4
<1>5. object' \in [Viewers -> Object] /\ ControlIsKept
  <2>1. CASE m.t = "begin" /\ m.s \in Viewers
    <3> DEFINE p == [object[m.s] EXCEPT !.begun = "answered"]
    <3>1. p \in Object /\ p.control = object[m.s].control
      BY <1>0, <2>1, BegunType DEF HostTypes
    <3>2. object' = [object EXCEPT ![m.s] = p] BY <1>0, <1>3, <2>1 DEF HostTypes
    <3> HIDE DEF p
    <3> QED BY <1>0, <3>1, <3>2 DEF HostTypes, ControlIsKept
  <2>2. CASE m.t = "begin" /\ m.s \notin Viewers
    <3>1. object' = object BY <1>0, <1>3, <2>2 DEF HostTypes
    <3> QED BY <1>0, <3>1 DEF HostTypes, ControlIsKept
  <2>3. CASE m.t # "begin" BY <1>0, <1>3, <2>3 DEF HostTypes, ControlIsKept
  <2> QED BY <2>1, <2>2, <2>3
<1> QED BY <1>0, <1>1, <1>3, <1>4, <1>5 DEF HostTypes

LEMMA KillTypes == ASSUME TypeOK, Kill, events' \in 0..MaxEvents PROVE TypeOK'
<1> DEFINE held == main.held /\ ~main.control
<1>1. main' = [session |-> None, control |-> FALSE, held |-> held] BY DEF Kill, EndedMain
<1>2. held \in BOOLEAN OBVIOUS
<1> HIDE DEF held
<1>3. main' \in [session : Maybe, control : BOOLEAN, held : BOOLEAN] BY <1>1, <1>2 DEF Maybe
<1> QED BY <1>3 DEF Kill, TypeOK, server, theViewer, theHost

\* No step but the one that counts changes events, and that one stays within the bound.
LEMMA EventsType ==
  ASSUME TypeOK, events < MaxEvents, events' = events + 1 PROVE events' \in 0..MaxEvents
BY RemoteAssumption DEF TypeOK

LEMMA InitType == Init => TypeOK
<1> SUFFICES ASSUME Init PROVE TypeOK OBVIOUS
<1>1. <<>> \in Seq(Msg) /\ <<>> \in Seq(Calls) OBVIOUS
<1>2. object \in [Viewers -> Object] BY DEF Init, Object, Maybe
<1>3. 0 \in 0..MaxEvents BY RemoteAssumption
<1> QED BY <1>1, <1>2, <1>3 DEF Init, TypeOK, Maybe

LEMMA UserType ==
  ASSUME TypeOK, User, events' \in 0..MaxEvents PROVE TypeOK'
<1>u. \A S : Unused(S) \subseteq S BY DEF Unused
<1>1. CASE \E v \in Unused({u \in Viewers : viewer[u] = "idle"}) : ConnectTo(v)
  <2>1. PICK v \in Viewers : ConnectTo(v) BY <1>u, <1>1
  <2>2. UNCHANGED <<theHost, theMain>> BY <2>1 DEF ConnectTo
  <2> QED BY <2>1, <2>2, ViewerTypes
<1>2. CASE \E c \in Unused({d \in HostConns : socket[d] = "none"}) : StartHost(c)
  BY <1>u, <1>2, StartHostTypes
<1>3. ASSUME NEW v \in Viewers, KeyPressed(v) PROVE TypeOK'
  <2>1. UNCHANGED <<server, theViewer, main, killed>> BY <1>3 DEF KeyPressed
  <2> QED BY <1>3, <2>1, KeyPressedTypes, HostTypesEnough DEF TypeOK
<1>4. CASE LeaveClicked
  <2>1. UNCHANGED <<theHost, theMain>> BY <1>4 DEF LeaveClicked
  <2> QED BY <1>4, <2>1, ViewerTypes
<1>5. CASE ToggleControl
  <2>1. UNCHANGED <<server, theViewer, main, killed>> BY <1>5 DEF ToggleControl
  <2> QED BY <1>5, <2>1, ToggleControlTypes, HostTypesEnough DEF TypeOK
<1>6. CASE EndClicked
  <2>1. UNCHANGED <<server, theViewer, main, killed>> BY <1>6 DEF EndClicked
  <2>2. HostTypes'
    BY <1>6, EndHostSessionType DEF EndClicked, TypeOK, HostTypes
  <2> QED BY <2>1, <2>2, HostTypesEnough DEF TypeOK
<1>7. CASE StopClicked
  <2>1. UNCHANGED <<server, theViewer, main, killed>> BY <1>7 DEF StopClicked
  <2>2. down' \in [Conns -> Seq(Msg)] BY <1>7, UnreadType DEF StopClicked, TypeOK
  <2>3. HostTypes'
    BY <1>7, <2>2, StopHostType DEF StopClicked, TypeOK, HostTypes, Maybe
  <2> QED BY <2>1, <2>3, HostTypesEnough DEF TypeOK
<1>8. CASE Kill BY <1>8, KillTypes
<1> QED BY <1>1, <1>2, <1>3, <1>4, <1>5, <1>6, <1>7, <1>8 DEF User

LEMMA HostingType == ASSUME TypeOK, Hosting PROVE TypeOK'
<1>0. events' \in 0..MaxEvents /\ killed \in BOOLEAN BY DEF Hosting, TypeOK
<1>1. ASSUME NEW c \in HostConns, HostHears(c) PROVE TypeOK'
  <2>1. UNCHANGED <<server, theViewer, main, killed>> BY <1>1 DEF HostHears
  <2> QED BY <1>0, <1>1, <2>1, HostHearsTypes, HostTypesEnough
<1>2. ASSUME NEW v \in Viewers, Begun(v) PROVE TypeOK'
  <2>1. UNCHANGED <<server, theViewer, main, killed>> BY <1>2 DEF Begun, theMain
  <2> QED BY <1>0, <1>2, <2>1, BegunTypes, HostTypesEnough
<1>3. ASSUME NEW v \in Viewers, Negotiate(v) PROVE TypeOK'
  <2>1. UNCHANGED <<server, theViewer, main, killed>> BY <1>3 DEF Negotiate
  <2> QED BY <1>0, <1>3, <2>1, NegotiateTypes, HostTypesEnough
<1>4. ASSUME NEW v \in Viewers, PcFails(v) PROVE TypeOK'
  <2>1. UNCHANGED <<server, theViewer, main, killed>> BY <1>4 DEF PcFails
  <2>2. HostTypes' BY <1>4, EndHostSessionType DEF PcFails, TypeOK, HostTypes
  <2> QED BY <1>0, <2>1, <2>2, HostTypesEnough
<1>5. CASE Deny
  <2>1. UNCHANGED <<server, theViewer, main, killed>> BY <1>5 DEF Deny, theMain
  <2>2. asking \in Maybe /\ asking # None BY <1>5 DEF Deny, TypeOK
  <2>3. <<M("end", asking)>> \in Seq(Msg) BY <2>2, MessageType
  <2>4. up' \in [Conns -> Seq(Msg)] BY <1>5, <2>3, SaysType DEF Deny
  <2>5. HostTypes' BY <1>5, <2>4 DEF Deny, TypeOK, HostTypes, theMain, Maybe
  <2> QED BY <1>0, <2>1, <2>5, HostTypesEnough
<1>6. ASSUME NEW control \in BOOLEAN, Allow(control) PROVE TypeOK'
  <2>1. UNCHANGED <<server, theViewer, main, killed>> BY <1>6 DEF Allow
  <2> QED BY <1>0, <1>6, <2>1, AllowTypes, HostTypesEnough
<1>7. CASE Killed
  <2>1. UNCHANGED <<server, theViewer, main>> /\ killed' = FALSE BY <1>7 DEF Killed
  <2>2. HostTypes' BY <1>7, EndHostSessionType DEF Killed, TypeOK, HostTypes
  <2> QED BY <1>0, <2>1, <2>2, HostTypesEnough
<1> QED BY <1>1, <1>2, <1>3, <1>4, <1>5, <1>6, <1>7 DEF Hosting

LEMMA TypeStep == TypeOK /\ [Next]_vars => TypeOK'
<1> SUFFICES ASSUME TypeOK, [Next]_vars PROVE TypeOK' OBVIOUS
<1>1. ASSUME events < MaxEvents /\ events' = events + 1 /\ (User \/ Network) PROVE TypeOK'
  <2>1. events' \in 0..MaxEvents BY <1>1, EventsType
  <2>2. CASE User BY <2>1, <2>2, UserType
  <2>3. ASSUME NEW c \in Conns, Lost(c) PROVE TypeOK'
    <3>1. UNCHANGED <<theHost, theMain>> BY <2>3 DEF Lost
    <3> QED BY <2>1, <2>3, <3>1, ViewerTypes
  <2> QED BY <1>1, <2>2, <2>3 DEF Network
<1>2. ASSUME UNCHANGED events, NEW c \in Conns, ServerHears(c) PROVE TypeOK'
  <2>1. UNCHANGED <<theViewer, theHost, theMain>> BY <1>2 DEF ServerHears
  <2> QED BY <1>2, <2>1, ServerTypes DEF TypeOK, theViewer, theHost, theMain
<1>3. CASE Viewing
  <2>1. events' \in 0..MaxEvents BY <1>3 DEF Viewing, TypeOK
  <2>2. PICK v \in Viewers : OpenStage(v) \/ StartPeer(v) \/ ViewerHears(v) BY <1>3 DEF Viewing
  <2>3. UNCHANGED <<theHost, theMain>> BY <2>2 DEF OpenStage, StartPeer, ViewerHears
  <2> QED BY <2>1, <2>2, <2>3, ViewerTypes
<1>4. CASE Hosting BY <1>4, HostingType
<1>5. CASE Main
  <2>1. MainHears /\ UNCHANGED events BY <1>5 DEF Main
  <2>2. HostTypes' /\ main' \in [session : Maybe, control : BOOLEAN, held : BOOLEAN]
    BY <2>1, MainHearsTypes
  <2> QED BY <2>1, <2>2 DEF MainHears, TypeOK, HostTypes, server, theViewer
<1>6. CASE UNCHANGED vars
  BY <1>6 DEF vars, server, theViewer, theHost, theMain, TypeOK
<1> QED BY <1>1, <1>2, <1>3, <1>4, <1>5, <1>6 DEF Next, Server

\* Messages, calls and the state of every program keep their types.
THEOREM RemoteTypeCorrect == Spec => []TypeOK
BY InitType, TypeStep, PTL DEF Spec

(***************************************************************************)
(* Keys                                                                    *)
(***************************************************************************)

IsSeq(q) == \E S : q \in Seq(S)

\* With the calls q still to come and a session s in the main process, no session is left
\* when the i-th call comes: the last one was ended, and no other has begun.
Ended(q, s, i) ==
  \/ \E j \in 1..(i - 1) : q[j].t = "end" /\ \A k \in (j + 1)..(i - 1) : q[k].t # "begin"
  \/ s = None /\ \A k \in 1..(i - 1) : q[k].t # "begin"

\* A session begins when no other is left.
OneByOne(q, s) == \A i \in 1..Len(q) : q[i].t = "begin" => q[i].s # None /\ Ended(q, s, i)

CallsInv ==
  /\ IsSeq(ipc)
  /\ OneByOne(ipc, main.session)
  /\ hostState = None => Ended(ipc, main.session, Len(ipc) + 1)
  /\ asking # None => hostState = None

MainInv ==
  /\ main = [session |-> main.session, control |-> main.control, held |-> main.held]
  /\ main.session = None => ~main.control /\ ~main.held

IInv == CallsInv /\ MainInv /\ KeysAreReleased

-----------------------------------------------------------------------------
(* The queue of calls *)

LEMMA AppendFacts ==
  ASSUME NEW q, IsSeq(q), NEW m
  PROVE  /\ IsSeq(Append(q, m)) /\ Len(q) \in Nat
         /\ Len(Append(q, m)) = Len(q) + 1
         /\ Append(q, m)[Len(q) + 1] = m
         /\ \A i \in 1..Len(q) : Append(q, m)[i] = q[i]
<1>1. PICK S : q \in Seq(S) BY DEF IsSeq
<1> DEFINE T == S \cup {m}
<1>2. q \in Seq(T) /\ m \in T BY <1>1
<1> HIDE DEF T
<1>3. Append(q, m) \in Seq(T) BY <1>2
<1> QED BY <1>2, <1>3 DEF IsSeq

LEMMA TailFacts ==
  ASSUME NEW q, IsSeq(q), q # <<>>
  PROVE  /\ IsSeq(Tail(q)) /\ Len(q) \in Nat \ {0}
         /\ Len(Tail(q)) = Len(q) - 1
         /\ Head(q) = q[1]
         /\ \A i \in 1..(Len(q) - 1) : Tail(q)[i] = q[i + 1]
<1>1. PICK S : q \in Seq(S) BY DEF IsSeq
<1>2. Tail(q) \in Seq(S) /\ Len(q) \in Nat \ {0} BY <1>1
<1> QED BY <1>1, <1>2 DEF IsSeq

\* A call that is added changes nothing for the calls in front of it.
LEMMA AppendEnded ==
  ASSUME NEW q, IsSeq(q), NEW m, NEW s, NEW i \in 1..(Len(q) + 1), Ended(q, s, i)
  PROVE  Ended(Append(q, m), s, i)
<1> DEFINE r == Append(q, m)
<1>1. Len(q) \in Nat /\ \A k \in 1..(i - 1) : r[k] = q[k] BY AppendFacts
<1> SUFFICES Ended(r, s, i) OBVIOUS
<1> HIDE DEF r
<1>2. CASE s = None /\ \A k \in 1..(i - 1) : q[k].t # "begin" BY <1>1, <1>2 DEF Ended
<1>3. ASSUME NEW j \in 1..(i - 1), q[j].t = "end",
             \A k \in (j + 1)..(i - 1) : q[k].t # "begin"
      PROVE  Ended(r, s, i)
  <2>1. \A k \in (j + 1)..(i - 1) : k \in 1..(i - 1) BY <1>1
  <2> QED BY <1>1, <1>3, <2>1 DEF Ended
<1>4. \/ \E j \in 1..(i - 1) : q[j].t = "end" /\ \A k \in (j + 1)..(i - 1) : q[k].t # "begin"
      \/ s = None /\ \A k \in 1..(i - 1) : q[k].t # "begin"
  BY DEF Ended
<1> QED BY <1>2, <1>3, <1>4

LEMMA AppendOneByOne ==
  ASSUME NEW q, IsSeq(q), NEW m, NEW s, OneByOne(q, s),
         m.t = "begin" => m.s # None /\ Ended(q, s, Len(q) + 1)
  PROVE  OneByOne(Append(q, m), s)
<1> DEFINE r == Append(q, m)
<1>1. /\ Len(q) \in Nat /\ Len(r) = Len(q) + 1 /\ r[Len(q) + 1] = m
      /\ \A i \in 1..Len(q) : r[i] = q[i]
  BY AppendFacts
<1>2. \A i \in 1..(Len(q) + 1) : Ended(q, s, i) => Ended(r, s, i) BY AppendEnded
<1> HIDE DEF r
<1>3. ASSUME NEW i \in 1..Len(r), r[i].t = "begin" PROVE r[i].s # None /\ Ended(r, s, i)
  <2>1. CASE i = Len(q) + 1 BY <1>1, <1>2, <1>3, <2>1
  <2>2. CASE i # Len(q) + 1
    <3>1. i \in 1..Len(q) /\ i \in 1..(Len(q) + 1) BY <1>1, <2>2
    <3> QED BY <1>1, <1>2, <1>3, <3>1 DEF OneByOne
  <2> QED BY <2>1, <2>2
<1>4. OneByOne(r, s) BY <1>3 DEF OneByOne
<1> QED BY <1>4 DEF r

\* After an 'end', and after anything but a 'begin' where all had ended, all have ended.
LEMMA AllEnded ==
  ASSUME NEW q, IsSeq(q), NEW m, NEW s,
         m.t = "end" \/ (m.t # "begin" /\ Ended(q, s, Len(q) + 1))
  PROVE  Ended(Append(q, m), s, Len(Append(q, m)) + 1)
<1> DEFINE r == Append(q, m)
           n == Len(q) + 1
<1>1. Len(q) \in Nat /\ Len(r) = n /\ r[n] = m BY AppendFacts
<1>2. Ended(q, s, n) => Ended(r, s, n)
  <2>1. n \in 1..(Len(q) + 1) BY <1>1
  <2> QED BY <2>1, AppendEnded
<1>n. n \in Nat \ {0} BY <1>1
<1> HIDE DEF r, n
<1>3. Ended(r, s, n + 1)
  <2>1. CASE m.t = "end"
    <3>1. n \in 1..(n + 1 - 1) /\ \A k \in (n + 1)..(n + 1 - 1) : FALSE BY <1>n
    <3> QED BY <1>1, <2>1, <3>1 DEF Ended
  <2>2. CASE m.t # "begin" /\ Ended(r, s, n)
    <3>0. \A k \in 1..(n + 1 - 1) : k = n \/ k \in 1..(n - 1) BY <1>n
    <3>1. CASE s = None /\ \A k \in 1..(n - 1) : r[k].t # "begin"
      BY <1>1, <2>2, <3>0, <3>1 DEF Ended
    <3>2. ASSUME NEW j \in 1..(n - 1), r[j].t = "end",
                 \A k \in (j + 1)..(n - 1) : r[k].t # "begin"
          PROVE  Ended(r, s, n + 1)
      <4>1. j \in 1..(n + 1 - 1) BY <1>n
      <4>2. \A k \in (j + 1)..(n + 1 - 1) : k = n \/ k \in (j + 1)..(n - 1) BY <1>n
      <4> QED BY <1>1, <2>2, <3>2, <4>1, <4>2 DEF Ended
    <3> QED BY <2>2, <3>1, <3>2 DEF Ended
  <2> QED BY <1>2, <2>1, <2>2, <1>1, n = Len(q) + 1 DEF n
<1> QED BY <1>1, <1>3 DEF r

\* The main process has heard the first call, and its session is now t.
LEMMA TailEnded ==
  ASSUME NEW q, IsSeq(q), q # <<>>, NEW s, NEW t, NEW i \in 2..(Len(q) + 1), Ended(q, s, i),
         q[1].t = "end" => t = None, q[1].t \notin {"begin", "end"} => t = s
  PROVE  Ended(Tail(q), t, i - 1)
<1> DEFINE r == Tail(q)
<1>1. Len(q) \in Nat /\ \A k \in 1..(i - 2) : r[k] = q[k + 1] /\ k + 1 \in 1..(i - 1)
  BY TailFacts
<1>i. i \in Nat /\ i >= 2 BY <1>1
<1> SUFFICES Ended(r, t, i - 1) OBVIOUS
<1> HIDE DEF r
<1>2. ASSUME NEW j \in 2..(i - 1), q[j].t = "end",
             \A k \in (j + 1)..(i - 1) : q[k].t # "begin"
      PROVE  Ended(r, t, i - 1)
  <2>1. j - 1 \in 1..(i - 1 - 1) /\ r[j - 1] = q[j]
    <3>1. j - 1 \in 1..(i - 2) /\ i - 1 - 1 = i - 2 /\ (j - 1) + 1 = j BY <1>i
    <3> QED BY <1>1, <3>1
  <2>2. \A k \in ((j - 1) + 1)..(i - 1 - 1) : k \in 1..(i - 2) /\ k + 1 \in (j + 1)..(i - 1)
    BY <1>i
  <2> QED BY <1>1, <1>2, <2>1, <2>2 DEF Ended
<1>3. ASSUME t = None, \A k \in 2..(i - 1) : q[k].t # "begin"
      PROVE  Ended(r, t, i - 1)
  <2>1. \A k \in 1..(i - 1 - 1) : k \in 1..(i - 2) /\ k + 1 \in 2..(i - 1) BY <1>i
  <2> QED BY <1>1, <1>3, <2>1 DEF Ended
<1>4. CASE s = None /\ \A k \in 1..(i - 1) : q[k].t # "begin"
  <2>1. 1 \in 1..(i - 1) /\ \A k \in 2..(i - 1) : k \in 1..(i - 1) BY <1>i
  <2> QED BY <1>3, <1>4, <2>1
<1>5. ASSUME NEW j \in 1..(i - 1), q[j].t = "end",
             \A k \in (j + 1)..(i - 1) : q[k].t # "begin"
      PROVE  Ended(r, t, i - 1)
  <2>1. CASE j = 1 BY <1>3, <1>5, <2>1
  <2>2. CASE j # 1
    <3>1. j \in 2..(i - 1) BY <1>i, <2>2
    <3> QED BY <1>2, <1>5, <3>1
  <2> QED BY <2>1, <2>2
<1>6. \/ \E j \in 1..(i - 1) : q[j].t = "end" /\ \A k \in (j + 1)..(i - 1) : q[k].t # "begin"
      \/ s = None /\ \A k \in 1..(i - 1) : q[k].t # "begin"
  BY DEF Ended
<1> QED BY <1>4, <1>5, <1>6

-----------------------------------------------------------------------------
(* What the steps do to the calls and to the main process *)

\* A step without a call.
LEMMA NoCallInv ==
  ASSUME IInv, UNCHANGED <<ipc, main, hostState>>, asking' # None => hostState' = None
  PROVE  IInv'
BY DEF IInv, CallsInv, MainInv, KeysAreReleased

\* A step with a call: a session begins when none is there, and is ended with an 'end'.
LEMMA CallInv ==
  ASSUME IInv, NEW m, ipc' = Append(ipc, m), UNCHANGED main,
         asking' # None => hostState' = None,
         m.t = "begin" => m.s # None /\ hostState = None,
         hostState' = None => m.t = "end" \/ (m.t # "begin" /\ hostState = None)
  PROVE  IInv'
<1> DEFINE s == main.session
<1>1. IsSeq(ipc) /\ OneByOne(ipc, s) /\ (hostState = None => Ended(ipc, s, Len(ipc) + 1))
  BY DEF IInv, CallsInv
<1> HIDE DEF s
<1>2. IsSeq(ipc') BY <1>1, AppendFacts
<1>3. OneByOne(ipc', s) BY <1>1, AppendOneByOne
<1>4. hostState' = None => Ended(ipc', s, Len(ipc') + 1) BY <1>1, AllEnded
<1>5. s' = s BY DEF s
<1>6. CallsInv' BY <1>2, <1>3, <1>4, <1>5 DEF CallsInv, s
<1>7. MainInv' /\ KeysAreReleased' BY DEF IInv, MainInv, KeysAreReleased
<1> QED BY <1>6, <1>7 DEF IInv

\* The kill switch.
LEMMA KillInv == ASSUME IInv, Kill PROVE IInv'
<1>1. main'.session = None /\ UNCHANGED <<ipc, hostState, asking>>
  BY DEF Kill, EndedMain, theHost
<1>2. MainInv' /\ KeysAreReleased'
  BY DEF Kill, EndedMain, IInv, MainInv, KeysAreReleased
<1>3. \A i : Ended(ipc, main.session, i) => Ended(ipc, None, i) BY DEF Ended
<1>4. CallsInv' BY <1>1, <1>3 DEF IInv, CallsInv, OneByOne
<1> QED BY <1>2, <1>4 DEF IInv

\* The main process hears the first call.  When it is a 'begin', no session is there, so
\* that no key is held down.
LEMMA MainHearsInv == ASSUME IInv, MainHears PROVE IInv'
<1> DEFINE m == Head(ipc)
           s == main.session
           t == main'.session
<1>0. ipc # <<>> /\ ipc' = Tail(ipc) /\ IsSeq(ipc) /\ UNCHANGED <<hostState, asking>>
  BY DEF MainHears, IInv, CallsInv
<1>1. /\ IsSeq(ipc') /\ Len(ipc) \in Nat \ {0} /\ Len(ipc') = Len(ipc) - 1 /\ m = ipc[1]
      /\ \A i \in 1..(Len(ipc) - 1) : ipc'[i] = ipc[i + 1]
  BY <1>0, TailFacts
<1>2. m.t = "begin" => m.s # None /\ s = None /\ ~main.held
  <2> SUFFICES ASSUME m.t = "begin" PROVE m.s # None /\ s = None /\ ~main.held
    OBVIOUS
  <2>1. 1 \in 1..Len(ipc) BY <1>1
  <2>2. m.s # None /\ Ended(ipc, s, 1) BY <1>1, <2>1 DEF IInv, CallsInv, OneByOne
  <2>3. s = None
    <3>1. ~(\E j \in 1..(1 - 1) : TRUE) OBVIOUS
    <3> QED BY <2>2, <3>1 DEF Ended
  <2> QED BY <2>2, <2>3 DEF IInv, MainInv
<1>3. /\ m.t = "begin" => main' = Begin(m.s, m.on)
      /\ m.t = "control" => main' = SetControl(m.on)
      /\ m.t = "end" => main' = EndedMain
      /\ m.t \notin {"begin", "control", "end"} => main' = [main EXCEPT !.held = @ \/ main.control]
  BY DEF MainHears
<1>4. (m.t = "end" => t = None) /\ (m.t \notin {"begin", "end"} => t = s)
  <2>1. CASE m.t = "end"
    <3>1. main' = EndedMain BY <1>3, <2>1
    <3>2. main'.session = None BY <3>1, Zenon DEF EndedMain
    <3> QED BY <2>1, <3>2
  <2>2. CASE m.t = "control"
    <3>1. main' = SetControl(m.on) BY <1>3, <2>2
    <3>2. main'.session = main.session
      BY <3>1, Zenon DEF SetControl, IInv, MainInv
    <3> QED BY <2>2, <3>2
  <2>3. CASE m.t \notin {"begin", "control", "end"}
    BY <1>3, <2>3, Zenon DEF IInv, MainInv
  <2> QED BY <2>1, <2>2, <2>3
<1>5. MainInv' /\ KeysAreReleased'
  <2> USE DEF IInv, MainInv, KeysAreReleased
  <2>1. CASE m.t = "begin" BY <1>2, <1>3, <2>1, Zenon DEF Begin
  <2>2. CASE m.t = "control" BY <1>3, <2>2, Zenon DEF SetControl
  <2>3. CASE m.t = "end"
    <3>1. main' = EndedMain BY <1>3, <2>3
    <3>2. main'.session = None /\ ~main'.control /\ ~main'.held BY <3>1, Zenon DEF EndedMain
    <3>3. main' = [session |-> main'.session, control |-> main'.control, held |-> main'.held]
      BY <3>1, Zenon DEF EndedMain
    <3> QED BY <3>2, <3>3
  <2>4. CASE m.t \notin {"begin", "control", "end"} BY <1>3, <2>4, Zenon
  <2> QED BY <2>1, <2>2, <2>3, <2>4
<1> HIDE DEF m, s, t
<1>6. \A i \in 2..(Len(ipc) + 1) : Ended(ipc, s, i) => Ended(ipc', t, i - 1)
  BY <1>0, <1>1, <1>4, TailEnded
<1>7. OneByOne(ipc', t)
  <2> SUFFICES ASSUME NEW i \in 1..Len(ipc'), ipc'[i].t = "begin"
               PROVE  ipc'[i].s # None /\ Ended(ipc', t, i)
    BY DEF OneByOne
  <2>1. i + 1 \in 2..(Len(ipc) + 1) /\ i + 1 \in 1..Len(ipc) /\ ipc'[i] = ipc[i + 1]
        /\ i + 1 - 1 = i
    BY <1>1
  <2>2. OneByOne(ipc, s) BY DEF IInv, CallsInv, s
  <2>3. ipc[i + 1].s # None /\ Ended(ipc, s, i + 1) BY <2>1, <2>2 DEF OneByOne
  <2>4. Ended(ipc', t, i + 1 - 1) BY <1>6, <2>1, <2>3
  <2> QED BY <2>1, <2>3, <2>4
<1>8. hostState' = None => Ended(ipc', t, Len(ipc') + 1)
  <2> SUFFICES ASSUME hostState' = None PROVE Ended(ipc', t, Len(ipc') + 1) OBVIOUS
  <2>1. Ended(ipc, s, Len(ipc) + 1) BY <1>0 DEF IInv, CallsInv, s
  <2>2. Len(ipc) + 1 \in 2..(Len(ipc) + 1) /\ Len(ipc) + 1 - 1 = Len(ipc') + 1 BY <1>1
  <2>3. Ended(ipc', t, Len(ipc) + 1 - 1) BY <1>6, <2>1, <2>2
  <2> QED BY <2>2, <2>3
<1>9. CallsInv' BY <1>0, <1>1, <1>7, <1>8 DEF IInv, CallsInv, t
<1> QED BY <1>5, <1>9 DEF IInv

-----------------------------------------------------------------------------
(* The steps *)

\* The end of a session at the host's window, whatever happens to its objects.
LEMMA EndHostSessionInv ==
  ASSUME IInv, NEW objects, EndHostSession(objects), UNCHANGED <<asking, main>>
  PROVE  IInv'
<1>1. CASE hostState = None BY <1>1, NoCallInv DEF EndHostSession, IInv, CallsInv
<1>2. CASE hostState # None
  <2>1. /\ ipc' = Append(ipc, Call("end", None, FALSE)) /\ hostState' = None
        /\ Call("end", None, FALSE).t = "end"
    BY <1>2 DEF EndHostSession, Call
  <2> DEFINE e == Call("end", None, FALSE)
  <2> HIDE DEF e
  <2>2. /\ ipc' = Append(ipc, e) /\ UNCHANGED main /\ e.t = "end" /\ e.t # "begin"
        /\ hostState' = None
    BY <2>1 DEF e
  <2> QED BY <2>2, CallInv
<1> QED BY <1>1, <1>2

LEMMA StopHostInv == ASSUME IInv, StopHost, UNCHANGED main PROVE IInv'
<1>1. /\ ipc' = Append(ipc, Call("end", None, FALSE)) /\ hostState' = None
      /\ Call("end", None, FALSE).t = "end"
  BY DEF StopHost, Call
<1> DEFINE e == Call("end", None, FALSE)
<1> HIDE DEF e
<1>2. /\ ipc' = Append(ipc, e) /\ e.t = "end" /\ e.t # "begin" /\ hostState' = None
  BY <1>1 DEF e
<1> QED BY <1>2, CallInv

LEMMA HostHearsInv == ASSUME IInv, NEW c \in HostConns, HostHears(c) PROVE IInv'
<1> DEFINE m == Head(down[c])
<1>0. UNCHANGED main /\ (asking # None => hostState = None)
  BY DEF HostHears, IInv, CallsInv
<1>1. CASE StopHost BY <1>0, <1>1, StopHostInv
<1>2. CASE Request(m.s)
  <2>1. UNCHANGED <<ipc, hostState>> /\ (asking' # None => hostState' = None)
    BY <1>0, <1>2 DEF Request
  <2> QED BY <1>0, <2>1, NoCallInv
<1>3. CASE EndHostSession(object) /\ UNCHANGED asking BY <1>0, <1>3, EndHostSessionInv
<1>4. CASE UNCHANGED <<hostState, asking, ipc>> BY <1>0, <1>4, NoCallInv
<1>5. \/ StopHost \/ Request(m.s) \/ (EndHostSession(object) /\ UNCHANGED asking)
      \/ UNCHANGED <<hostState, asking, ipc>>
  BY Zenon DEF HostHears, theHost
<1> QED BY <1>1, <1>2, <1>3, <1>4, <1>5

\* The prompt is shown only when there is no session, so that the next one begins alone.
LEMMA AllowInv ==
  ASSUME IInv, NEW control \in BOOLEAN, Allow(control) PROVE IInv'
<1> DEFINE m == Call("begin", asking, control)
<1>1. /\ asking # None /\ hostState = None /\ asking' = None /\ hostState' # None
      /\ ipc' = Append(ipc, m) /\ UNCHANGED main
  BY DEF Allow, IInv, CallsInv
<1>2. m.s # None BY <1>1 DEF Call
<1> HIDE DEF m
<1> QED BY <1>1, <1>2, CallInv

LEMMA ToggleControlInv == ASSUME IInv, ToggleControl PROVE IInv'
<1> DEFINE m == Call("control", None, ~object[hostState].control)
<1>1. /\ hostState # None /\ UNCHANGED <<hostState, asking, main>> /\ ipc' = Append(ipc, m)
      /\ asking = None
  BY DEF ToggleControl, IInv, CallsInv
<1>2. m.t # "begin" BY DEF Call
<1> HIDE DEF m
<1> QED BY <1>1, <1>2, CallInv

LEMMA KeyPressedInv == ASSUME IInv, NEW s \in Viewers, KeyPressed(s) PROVE IInv'
<1> DEFINE m == Call("key", None, TRUE)
<1>1. /\ UNCHANGED <<hostState, asking, main>> /\ ipc' = Append(ipc, m)
      /\ asking # None => hostState = None
  BY DEF KeyPressed, theHost, IInv, CallsInv
<1>2. m.t # "begin" BY DEF Call
<1> HIDE DEF m
<1> QED BY <1>1, <1>2, CallInv

LEMMA NegotiateInv == ASSUME IInv, NEW s \in Viewers, Negotiate(s) PROVE IInv'
<1>1. UNCHANGED <<asking, main>> /\ (asking # None => hostState = None)
  BY DEF Negotiate, IInv, CallsInv
<1>2. (\E objects : EndHostSession(objects)) \/ UNCHANGED <<hostState, ipc>>
  BY Zenon DEF Negotiate
<1> QED BY <1>1, <1>2, EndHostSessionInv, NoCallInv

\* What the programs at the other ends do is not seen here.
LEMMA OthersInv ==
  ASSUME IInv,
         \/ \E c \in Conns : ServerHears(c) \/ Lost(c)
         \/ \E v \in Viewers : ConnectTo(v) \/ OpenStage(v) \/ StartPeer(v) \/ ViewerHears(v)
         \/ LeaveClicked
  PROVE  IInv'
<1>1. UNCHANGED <<ipc, main, hostState, asking>>
  BY DEF ServerHears, Lost, ConnectTo, OpenStage, StartPeer, ViewerHears, LeaveClicked,
       theHost, theMain
<1>2. asking # None => hostState = None BY DEF IInv, CallsInv
<1> QED BY <1>1, <1>2, NoCallInv

LEMMA UserInv == ASSUME IInv, User PROVE IInv'
<1>u. \A S : Unused(S) \subseteq S BY DEF Unused
<1>1. CASE \E v \in Unused({u \in Viewers : viewer[u] = "idle"}) : ConnectTo(v)
  BY <1>u, <1>1, OthersInv
<1>2. ASSUME NEW c \in Unused({d \in HostConns : socket[d] = "none"}), StartHost(c)
      PROVE  IInv'
  BY <1>2, NoCallInv DEF StartHost, theMain, IInv, CallsInv
<1>3. CASE \E v \in Viewers : KeyPressed(v) BY <1>3, KeyPressedInv
<1>4. CASE LeaveClicked BY <1>4, OthersInv
<1>5. CASE ToggleControl BY <1>5, ToggleControlInv
<1>6. CASE EndClicked BY <1>6, EndHostSessionInv DEF EndClicked
<1>7. CASE StopClicked BY <1>7, StopHostInv DEF StopClicked
<1>8. CASE Kill BY <1>8, KillInv
<1> QED BY <1>1, <1>2, <1>3, <1>4, <1>5, <1>6, <1>7, <1>8 DEF User

LEMMA HostingInv == ASSUME IInv, Hosting PROVE IInv'
<1>1. CASE \E c \in HostConns : HostHears(c) BY <1>1, HostHearsInv
<1>2. ASSUME NEW v \in Viewers, Begun(v) PROVE IInv'
  BY <1>2, NoCallInv DEF Begun, theMain, IInv, CallsInv
<1>3. CASE \E v \in Viewers : Negotiate(v) BY <1>3, NegotiateInv
<1>4. ASSUME NEW v \in Viewers, PcFails(v) PROVE IInv'
  BY <1>4, EndHostSessionInv DEF PcFails
<1>5. CASE Deny BY <1>5, NoCallInv DEF Deny, theMain
<1>6. CASE \E control \in BOOLEAN : Allow(control) BY <1>6, AllowInv
<1>7. CASE Killed BY <1>7, EndHostSessionInv DEF Killed
<1> QED BY <1>1, <1>2, <1>3, <1>4, <1>5, <1>6, <1>7 DEF Hosting

LEMMA InitInv == Init => IInv
<1> SUFFICES ASSUME Init PROVE IInv OBVIOUS
<1>1. ipc = <<>> /\ hostState = None /\ asking = None
      /\ main = [session |-> None, control |-> FALSE, held |-> FALSE]
  BY DEF Init
<1>2. IsSeq(<<>>)
  <2>1. <<>> \in Seq({}) OBVIOUS
  <2> QED BY <2>1 DEF IsSeq
<1>3. Ended(<<>>, None, 1) BY DEF Ended
<1>4. OneByOne(<<>>, None) BY DEF OneByOne
<1>5. Len(<<>>) + 1 = 1 OBVIOUS
<1>6. CallsInv BY <1>1, <1>2, <1>3, <1>4, <1>5 DEF CallsInv
<1>7. MainInv /\ KeysAreReleased BY <1>1 DEF MainInv, KeysAreReleased
<1> QED BY <1>6, <1>7 DEF IInv

LEMMA NextInv == IInv /\ [Next]_vars => IInv'
<1> SUFFICES ASSUME IInv, [Next]_vars PROVE IInv' OBVIOUS
<1>1. CASE User BY <1>1, UserInv
<1>2. CASE Network BY <1>2, OthersInv DEF Network
<1>3. CASE Server BY <1>3, OthersInv DEF Server
<1>4. CASE Viewing BY <1>4, OthersInv DEF Viewing
<1>5. CASE Hosting BY <1>5, HostingInv
<1>6. CASE MainHears BY <1>6, MainHearsInv
<1>7. CASE UNCHANGED vars
  BY <1>7, NoCallInv DEF vars, theHost, theMain, IInv, CallsInv
<1> QED BY <1>1, <1>2, <1>3, <1>4, <1>5, <1>6, <1>7 DEF Next, Main

-----------------------------------------------------------------------------
\* Whatever overtakes whatever on the way to the main process - the end of a session,
\* control given and taken, the kill switch, keys - no key is held down in the host
\* without control (host:setControl and
\* endHostSession of remote/app/main.js).
THEOREM NoKeyStaysDown == Spec => []KeysAreReleased
<1>1. IInv => KeysAreReleased BY DEF IInv
<1> QED BY <1>1, InitInv, NextInv, PTL DEF Spec

\* A session of the main process never takes the place of another: by the time the call
\* that begins it arrives, the one before has been ended there (onRequest and
\* endHostSession of remote/app/ui/app.js, begin of remote/app/main.js).
THEOREM SessionsBeginAlone ==
  Spec => [](ipc # <<>> /\ Head(ipc).t = "begin" => main.session = None)
<1>1. ASSUME IInv, ipc # <<>>, Head(ipc).t = "begin" PROVE main.session = None
  <2>1. IsSeq(ipc) /\ OneByOne(ipc, main.session) BY <1>1 DEF IInv, CallsInv
  <2>2. 1 \in 1..Len(ipc) /\ ipc[1].t = "begin" BY <1>1, <2>1, TailFacts
  <2>3. Ended(ipc, main.session, 1) BY <2>1, <2>2 DEF OneByOne
  <2>4. \A j \in 1..(1 - 1) : FALSE OBVIOUS
  <2> QED BY <2>3, <2>4 DEF Ended
<1>2. IInv => (ipc # <<>> /\ Head(ipc).t = "begin" => main.session = None) BY <1>1
<1> QED BY <1>2, InitInv, NextInv, PTL DEF Spec

(***************************************************************************)
(* Agreement of the host's window and the main process                     *)
(***************************************************************************)

\* Of the calls still to come the last one with a type in T is in G; if there is none, what
\* the main process has, x, is what it shall have, y.
Latest(q, T, G, x, y) ==
  \/ \E j \in 1..Len(q) : q[j].t \in T /\ q[j] \in G /\ \A k \in (j + 1)..Len(q) : q[k].t \notin T
  \/ x = y /\ \A k \in 1..Len(q) : q[k].t \notin T

Begins(s) == {m \in Calls : m.t = "begin" /\ m.s = s}
Sets(on) == {m \in Calls : m.on = on}

Agrees(q, session, control, s, on) ==
  /\ Latest(q, {"begin", "end"}, Begins(s), session, s)
  /\ Latest(q, {"begin", "control"}, Sets(on), control, on)

\* The kill switch is the one thing that the window does not know of before the main process.
AgreeInv == hostState # None /\ ~killed =>
              Agrees(ipc, main.session, main.control, hostState, object[hostState].control)

LEMMA LatestAdded ==
  ASSUME NEW q \in Seq(Calls), NEW m \in Calls, NEW T, NEW G, NEW x, NEW y,
         IF m.t \in T THEN m \in G ELSE Latest(q, T, G, x, y)
  PROVE  Latest(Append(q, m), T, G, x, y)
<1> DEFINE r == Append(q, m)
           n == Len(q) + 1
<1>1. /\ Len(q) \in Nat /\ Len(r) = n /\ r[n] = m /\ \A i \in 1..Len(q) : r[i] = q[i]
  OBVIOUS
<1>2. n \in Nat \ {0} /\ n = Len(q) + 1 /\ n \in 1..n /\ \A k \in (n + 1)..n : FALSE BY <1>1
<1>3. \A k \in 1..n : k = n \/ k \in 1..Len(q) BY <1>1
<1> SUFFICES Latest(r, T, G, x, y) OBVIOUS
<1> HIDE DEF r, n
<1>4. CASE m.t \in T BY <1>1, <1>2, <1>4 DEF Latest
<1>5. CASE m.t \notin T
  <2>1. ASSUME NEW j \in 1..Len(q), q[j].t \in T, q[j] \in G,
               \A k \in (j + 1)..Len(q) : q[k].t \notin T
        PROVE  Latest(r, T, G, x, y)
    <3>1. j \in 1..n BY <1>1, <1>2
    <3>2. \A k \in (j + 1)..n : k = n \/ k \in (j + 1)..Len(q) BY <1>1, <1>2
    <3>3. \A k \in (j + 1)..Len(q) : k \in 1..Len(q) BY <1>1
    <3> QED BY <1>1, <1>5, <2>1, <3>1, <3>2, <3>3 DEF Latest
  <2>2. CASE x = y /\ \A k \in 1..Len(q) : q[k].t \notin T
    BY <1>1, <1>3, <1>5, <2>2 DEF Latest
  <2>3. Latest(q, T, G, x, y) BY <1>5
  <2>4. \/ \E j \in 1..Len(q) : /\ q[j].t \in T /\ q[j] \in G
                               /\ \A k \in (j + 1)..Len(q) : q[k].t \notin T
        \/ x = y /\ \A k \in 1..Len(q) : q[k].t \notin T
    BY <2>3 DEF Latest
  <2> QED BY <2>1, <2>2, <2>4
<1> QED BY <1>4, <1>5

\* The first call is heard, and the main process has z for x.
LEMMA LatestHeard ==
  ASSUME NEW q \in Seq(Calls), q # <<>>, NEW T, NEW G, NEW x, NEW y, NEW z,
         Latest(q, T, G, x, y),
         (\A k \in 2..Len(q) : q[k].t \notin T)
           => IF q[1].t \in T THEN q[1] \in G => z = y ELSE x = y => z = y
  PROVE  Latest(Tail(q), T, G, z, y)
<1> DEFINE r == Tail(q)
           n == Len(q)
<1>1. n \in Nat \ {0} /\ Len(r) = n - 1 /\ \A i \in 1..(n - 1) : r[i] = q[i + 1] OBVIOUS
<1>2. 1 \in 1..n /\ \A k \in 2..n : k \in 1..n BY <1>1
<1>3. \A k \in 1..(n - 1) : k + 1 \in 2..n BY <1>1
<1> SUFFICES Latest(r, T, G, z, y) OBVIOUS
<1> HIDE DEF r
<1>4. ASSUME NEW j \in 2..n, q[j].t \in T, q[j] \in G, \A k \in (j + 1)..n : q[k].t \notin T
      PROVE  Latest(r, T, G, z, y)
  <2>1. j - 1 \in 1..(n - 1) /\ (j - 1) + 1 = j BY <1>1
  <2>2. r[j - 1] = q[j] BY <1>1, <2>1
  <2>3. \A k \in ((j - 1) + 1)..(n - 1) : k \in 1..(n - 1) /\ k + 1 \in (j + 1)..n BY <1>1
  <2>4. j - 1 \in 1..Len(r) /\ Len(r) = n - 1 BY <1>1, <2>1
  <2>5. \A k \in ((j - 1) + 1)..(n - 1) : r[k].t \notin T BY <1>1, <1>4, <2>3
  <2>6. r[j - 1].t \in T /\ r[j - 1] \in G BY <1>4, <2>2
  <2> QED BY <2>4, <2>5, <2>6 DEF Latest
<1>5. ASSUME z = y, \A k \in 2..n : q[k].t \notin T PROVE Latest(r, T, G, z, y)
  BY <1>1, <1>3, <1>5 DEF Latest
<1>6. ASSUME NEW j \in 1..n, q[j].t \in T, q[j] \in G, \A k \in (j + 1)..n : q[k].t \notin T
      PROVE  Latest(r, T, G, z, y)
  <2>1. CASE j = 1
    <3>1. \A k \in 2..n : q[k].t \notin T BY <1>6, <2>1
    <3> QED BY <1>5, <1>6, <2>1, <3>1
  <2>2. CASE j # 1
    <3>1. j \in 2..n BY <1>1, <2>2
    <3> QED BY <1>4, <1>6, <3>1
  <2> QED BY <2>1, <2>2
<1>7. CASE x = y /\ \A k \in 1..n : q[k].t \notin T
  <2>1. q[1].t \notin T /\ \A k \in 2..n : q[k].t \notin T BY <1>2, <1>7
  <2> QED BY <1>5, <1>7, <2>1
<1>8. \/ \E j \in 1..n : q[j].t \in T /\ q[j] \in G /\ \A k \in (j + 1)..n : q[k].t \notin T
      \/ x = y /\ \A k \in 1..n : q[k].t \notin T
  BY DEF Latest
<1> QED BY <1>6, <1>7, <1>8

LEMMA AgreeKept ==
  ASSUME TypeOK, AgreeInv, ControlIsKept, UNCHANGED <<ipc, hostState, main, killed>>
  PROVE  AgreeInv'
<1>1. hostState # None => hostState \in Viewers BY DEF TypeOK, Maybe
<1>2. hostState # None => object'[hostState'].control = object[hostState].control
  BY <1>1 DEF ControlIsKept
<1> QED BY <1>2 DEF AgreeInv

LEMMA AllowAgrees ==
  ASSUME TypeOK, NEW control \in BOOLEAN, Allow(control) PROVE AgreeInv'
<1> DEFINE m == Call("begin", asking, control)
<1>1. asking \in Maybe /\ object'[asking].control = control BY AllowTypes DEF TypeOK
<1>2. m \in Calls BY <1>1, CallType
<1>3. m.t = "begin" /\ m \in Begins(asking) /\ m \in Sets(control)
  BY <1>2 DEF Call, Begins, Sets
<1>4. ipc \in Seq(Calls) /\ ipc' = Append(ipc, m) /\ hostState' = asking /\ UNCHANGED main
  BY DEF Allow, TypeOK
<1> HIDE DEF m
<1>5. Latest(ipc', {"begin", "end"}, Begins(asking), main.session, asking)
  BY <1>2, <1>3, <1>4, LatestAdded
<1>6. Latest(ipc', {"begin", "control"}, Sets(control), main.control, control)
  BY <1>2, <1>3, <1>4, LatestAdded
<1> QED BY <1>1, <1>4, <1>5, <1>6 DEF AgreeInv, Agrees

LEMMA ToggleControlAgrees ==
  ASSUME TypeOK, AgreeInv, ToggleControl PROVE AgreeInv'
<1> DEFINE on == ~object[hostState].control
           m == Call("control", None, on)
<1>0. on \in BOOLEAN OBVIOUS
<1>1. /\ hostState # None /\ ipc \in Seq(Calls) /\ ipc' = Append(ipc, m)
      /\ UNCHANGED <<hostState, main, killed>>
  BY DEF ToggleControl, TypeOK
<1>2. object'[hostState].control = on BY ToggleControlTypes
<1> HIDE DEF on
<1>3. m \in Calls BY <1>0, CallType DEF Maybe
<1>4. m.t = "control" /\ m \in Sets(on) BY <1>3 DEF Call, Sets
<1> HIDE DEF m
<1>5. Latest(ipc, {"begin", "end"}, Begins(hostState), main.session, hostState)
        => Latest(ipc', {"begin", "end"}, Begins(hostState), main.session, hostState)
  BY <1>1, <1>3, <1>4, LatestAdded
<1>6. Latest(ipc', {"begin", "control"}, Sets(on), main.control, on)
  BY <1>1, <1>3, <1>4, LatestAdded
<1> QED BY <1>1, <1>2, <1>5, <1>6 DEF AgreeInv, Agrees

LEMMA KeyPressedAgrees ==
  ASSUME TypeOK, AgreeInv, NEW s \in Viewers, KeyPressed(s) PROVE AgreeInv'
<1> DEFINE m == Call("key", None, TRUE)
           on == object[hostState].control
<1>1. /\ ipc \in Seq(Calls) /\ ipc' = Append(ipc, m) /\ UNCHANGED <<hostState, object, main, killed>>
  BY DEF KeyPressed, TypeOK, theHost
<1>2. m \in Calls /\ m.t = "key"
  <2>1. m \in Calls BY CallType DEF Maybe
  <2> QED BY <2>1 DEF Call
<1> HIDE DEF m
<1>3. /\ Latest(ipc, {"begin", "end"}, Begins(hostState), main.session, hostState)
           => Latest(ipc', {"begin", "end"}, Begins(hostState), main.session, hostState)
      /\ Latest(ipc, {"begin", "control"}, Sets(on), main.control, on)
           => Latest(ipc', {"begin", "control"}, Sets(on), main.control, on)
  BY <1>1, <1>2, LatestAdded
<1> QED BY <1>1, <1>3 DEF AgreeInv, Agrees

\* A 'control' that is the last word about control is heard in its session: an 'end' in
\* front of it would have been followed by another 'begin'.
LEMMA MainHearsAgrees ==
  ASSUME TypeOK, AgreeInv, MainHears PROVE AgreeInv'
<1> DEFINE m == Head(ipc)
           s == hostState
           on == object[hostState].control
<1> SUFFICES ASSUME hostState # None, ~killed
             PROVE  Agrees(ipc', main'.session, main'.control, s, on)
  <2>1. UNCHANGED <<hostState, killed>> BY DEF MainHears
  <2>2. hostState \in Maybe BY DEF TypeOK
  <2>3. ControlIsKept BY MainHearsTypes
  <2> QED BY <2>1, <2>2, <2>3 DEF AgreeInv, ControlIsKept, Maybe
<1>1. ipc # <<>> /\ ipc' = Tail(ipc) /\ ipc \in Seq(Calls) BY DEF MainHears, TypeOK
<1>2. m \in Calls /\ m = ipc[1] /\ 1 \in 1..Len(ipc) /\ Len(ipc) \in Nat BY <1>1
<1>3. m.on \in BOOLEAN /\ m.s \in Maybe /\ m.t \in {"begin", "control", "end", "key"}
  BY <1>2 DEF Calls
<1>4. /\ main \in [session : Maybe, control : BOOLEAN, held : BOOLEAN] /\ on \in BOOLEAN
  BY DEF TypeOK, Object, Maybe
<1>5. /\ m.t = "begin" => main' = Begin(m.s, m.on)
      /\ m.t = "control" => main' = SetControl(m.on)
      /\ m.t = "end" => main' = EndedMain
      /\ m.t \notin {"begin", "control", "end"} => main' = [main EXCEPT !.held = @ \/ main.control]
  BY Zenon DEF MainHears
<1>6. Latest(ipc, {"begin", "end"}, Begins(s), main.session, s)
      /\ Latest(ipc, {"begin", "control"}, Sets(on), main.control, on)
  BY DEF AgreeInv, Agrees
<1> HIDE DEF m, on, s
<1>7. /\ m.t = "begin" => main'.session = m.s /\ main'.control = m.on
      /\ m.t = "control" => main'.session = main.session
      /\ m.t = "control" /\ main.session # None => main'.control = m.on
      /\ m.t = "key" => main'.session = main.session /\ main'.control = main.control
  <2>1. CASE m.t = "begin" BY <1>4, <1>5, <2>1 DEF Begin
  <2>2. CASE m.t = "control"
    <3> DEFINE control == m.on /\ main.session # None
               held == main.held /\ control
    <3>1. main' = [main EXCEPT !.control = control, !.held = held]
      BY <1>5, <2>2, Zenon DEF SetControl
    <3>2. main.session # None => control = m.on BY <1>3
    <3> HIDE DEF control, held
    <3> QED BY <1>4, <2>2, <3>1, <3>2
  <2>3. CASE m.t = "key"
    <3> DEFINE held == main.held \/ main.control
    <3>1. main' = [main EXCEPT !.held = held] BY <1>5, <2>3, Zenon
    <3> HIDE DEF held
    <3> QED BY <1>4, <2>3, <3>1
  <2>4. CASE m.t = "end" BY <2>4
  <2> QED BY <1>3, <2>1, <2>2, <2>3, <2>4
<1>8. Latest(ipc', {"begin", "end"}, Begins(s), main'.session, s)
  <2>1. m \in Begins(s) => m.t = "begin" /\ m.s = s BY DEF Begins
  <2>2. IF m.t \in {"begin", "end"} THEN m \in Begins(s) => main'.session = s
        ELSE main.session = s => main'.session = s
    BY <1>3, <1>7, <2>1
  <2> QED BY <1>1, <1>2, <1>6, <2>2, LatestHeard
<1>9. Latest(ipc', {"begin", "control"}, Sets(on), main'.control, on)
  <2>1. ASSUME \A k \in 2..Len(ipc) : ipc[k].t \notin {"begin", "control"}
        PROVE  IF m.t \in {"begin", "control"} THEN m \in Sets(on) => main'.control = on
               ELSE main.control = on => main'.control = on
    <3>1. m \in Sets(on) => m.on = on BY DEF Sets
    <3>2. m.t # "begin" => main.session = s /\ m.t # "end"
      <4> SUFFICES ASSUME m.t # "begin" PROVE main.session = s /\ m.t # "end" OBVIOUS
      <4>1. \A k \in 1..Len(ipc) : k = 1 \/ k \in 2..Len(ipc) BY <1>2
      <4>2. \A j \in 1..Len(ipc) : ipc[j].t # "begin" BY <1>2, <2>1, <4>1
      <4>3. \A j \in 1..Len(ipc) : ipc[j] \notin Begins(s) BY <4>2 DEF Begins
      <4>4. main.session = s /\ \A k \in 1..Len(ipc) : ipc[k].t \notin {"begin", "end"}
        BY <1>6, <4>3 DEF Latest
      <4> QED BY <1>2, <4>4
    <3>3. main.session = s => main.session # None BY DEF s
    <3> QED BY <1>3, <1>7, <3>1, <3>2, <3>3
  <2> QED BY <1>1, <1>2, <1>6, <2>1, LatestHeard
<1> QED BY <1>8, <1>9 DEF Agrees

LEMMA AgreeStep == TypeOK /\ AgreeInv /\ [Next]_vars => AgreeInv'
<1> SUFFICES ASSUME TypeOK, AgreeInv, [Next]_vars PROVE AgreeInv' OBVIOUS
<1>0. ASSUME hostState' = None \/ killed' PROVE AgreeInv' BY <1>0 DEF AgreeInv
<1>1. ASSUME UNCHANGED <<theHost, theMain>> PROVE AgreeInv'
  BY <1>1, AgreeKept DEF theHost, theMain, ControlIsKept
<1>2. CASE User
  <2>u. \A S : Unused(S) \subseteq S BY DEF Unused
  <2>1. CASE \E v \in Unused({u \in Viewers : viewer[u] = "idle"}) : ConnectTo(v)
    BY <1>1, <2>1 DEF ConnectTo
  <2>2. CASE \E c \in Unused({d \in HostConns : socket[d] = "none"}) : StartHost(c)
    BY <2>2, AgreeKept DEF StartHost, theMain, ControlIsKept
  <2>3. CASE \E v \in Viewers : KeyPressed(v) BY <2>3, KeyPressedAgrees
  <2>4. CASE LeaveClicked BY <1>1, <2>4 DEF LeaveClicked
  <2>5. CASE ToggleControl BY <2>5, ToggleControlAgrees
  <2>6. CASE EndClicked BY <1>0, <2>6 DEF EndClicked, EndHostSession
  <2>7. CASE StopClicked BY <1>0, <2>7 DEF StopClicked, StopHost
  <2>8. CASE Kill BY <1>0, <2>8 DEF Kill
  <2> QED BY <1>2, <2>1, <2>2, <2>3, <2>4, <2>5, <2>6, <2>7, <2>8 DEF User
<1>3. CASE Network \/ Server \/ Viewing
  BY <1>1, <1>3 DEF Network, Server, Viewing, Lost, ServerHears, OpenStage, StartPeer, ViewerHears
<1>4. CASE Hosting
  <2>1. ASSUME NEW c \in HostConns, HostHears(c) PROVE AgreeInv'
    <3>1. UNCHANGED <<main, killed>> BY <2>1 DEF HostHears
    <3> QED BY <1>0, <2>1, <3>1, HostHearsTypes, AgreeKept
  <2>2. ASSUME NEW v \in Viewers, Begun(v) PROVE AgreeInv'
    <3>1. UNCHANGED <<hostState, ipc, main, killed>> BY <2>2 DEF Begun, theMain
    <3> QED BY <2>2, <3>1, BegunTypes, AgreeKept
  <2>3. ASSUME NEW v \in Viewers, Negotiate(v) PROVE AgreeInv'
    <3>1. UNCHANGED <<main, killed>> BY <2>3 DEF Negotiate
    <3> QED BY <1>0, <2>3, <3>1, NegotiateTypes, AgreeKept
  <2>4. CASE \E v \in Viewers : PcFails(v) BY <1>0, <2>4 DEF PcFails, EndHostSession
  <2>5. CASE Deny BY <2>5, AgreeKept DEF Deny, theMain, ControlIsKept
  <2>6. CASE \E control \in BOOLEAN : Allow(control) BY <2>6, AllowAgrees
  <2>7. CASE Killed BY <1>0, <2>7 DEF Killed, EndHostSession
  <2> QED BY <1>4, <2>1, <2>2, <2>3, <2>4, <2>5, <2>6, <2>7 DEF Hosting
<1>5. CASE MainHears BY <1>5, MainHearsAgrees
<1>6. CASE UNCHANGED vars BY <1>1, <1>6 DEF vars
<1> QED BY <1>2, <1>3, <1>4, <1>5, <1>6 DEF Next, Main

\* When its calls have arrived, the main process lets in the input of the session that the
\* host's window shows, and only with the control the person gives there, in whatever order
\* prompts, ends, switches of control and kill switch happened (onRequest, the control button
\* and endHostSession of remote/app/ui/app.js; host:begin, host:setControl, host:end and the
\* kill switch of remote/app/main.js).
THEOREM InputAsConsented == Spec => []MainAgrees
<1>1. ASSUME TypeOK, IInv, AgreeInv PROVE MainAgrees
  <2> SUFFICES ASSUME ipc = <<>>, ~killed
               PROVE  /\ main.session = hostState
                      /\ main.control = (hostState # None /\ object[hostState].control)
    BY DEF MainAgrees
  <2>0. \A k \in 1..Len(ipc) : FALSE BY DEF TypeOK
  <2>1. main.control \in BOOLEAN BY <1>1 DEF TypeOK
  <2>2. CASE hostState = None
    <3>1. Ended(<<>>, main.session, 1) BY <1>1, <2>2 DEF IInv, CallsInv
    <3>2. main.session = None BY <3>1 DEF Ended
    <3>3. ~main.control BY <1>1, <3>2 DEF IInv, MainInv
    <3> QED BY <2>1, <2>2, <3>2, <3>3
  <2>3. CASE hostState # None
    <3>1. Agrees(ipc, main.session, main.control, hostState, object[hostState].control)
      BY <1>1, <2>3 DEF AgreeInv
    <3>2. main.session = hostState /\ main.control = object[hostState].control
      BY <2>0, <3>1 DEF Agrees, Latest
    <3> QED BY <2>1, <2>3, <3>2
  <2> QED BY <2>2, <2>3
<1>2. Init => AgreeInv BY DEF Init, AgreeInv
<1>3. TypeOK /\ IInv /\ AgreeInv => MainAgrees BY <1>1
<1> QED BY <1>2, <1>3, InitType, TypeStep, InitInv, NextInv, AgreeStep, PTL DEF Spec

(***************************************************************************)
(* The list of hosts                                                       *)
(***************************************************************************)

ListedInv == HostIsListed /\ (hosts # None => socket[hosts] # "closed")

Says1(x) == up' = Says(<<x>>)

LEMMA Longer ==
  ASSUME NEW q \in Seq(Msg), NEW x
  PROVE  ToSet(q) \subseteq ToSet(q \o <<x>>) /\ ToSet(q) \subseteq ToSet(Append(q, x))
<1> DEFINE S == Msg \union {x}
<1>1. q \in Seq(S) /\ x \in S OBVIOUS
<1> HIDE DEF S
<1>2. /\ q \o <<x>> \in Seq(S) /\ Len(q \o <<x>>) = Len(q) + 1 /\ Len(q) \in Nat
      /\ \A i \in 1..Len(q) : (q \o <<x>>)[i] = q[i] /\ i \in 1..(Len(q) + 1)
  BY <1>1
<1>3. /\ Append(q, x) \in Seq(S) /\ Len(Append(q, x)) = Len(q) + 1
      /\ \A i \in 1..Len(q) : Append(q, x)[i] = q[i]
  BY <1>1
<1> QED BY <1>1, <1>2, <1>3 DEF ToSet

\* Nothing is taken off the way to the server, and the server does nothing.
LEMMA ListedKept ==
  ASSUME ListedInv, UNCHANGED server,
         \A c \in HostConns : ToSet(up[c]) \subseteq ToSet(up'[c])
  PROVE  ListedInv'
BY DEF ListedInv, HostIsListed, server, Live

LEMMA SaysKept ==
  ASSUME TypeOK, ListedInv, UNCHANGED server, NEW x, Says1(x) \/ UNCHANGED up
  PROVE  ListedInv'
<1>0. up \in [Conns -> Seq(Msg)] /\ HostConns \subseteq Conns BY DEF TypeOK, Conns
<1>1. ASSUME NEW c \in HostConns PROVE ToSet(up[c]) \subseteq ToSet(up'[c])
  <2>1. up'[c] = up[c] \/ up'[c] = up[c] \o <<x>> BY <1>0 DEF Says1, Says
  <2> QED BY <1>0, <2>1, Longer
<1> QED BY <1>1, ListedKept

LEMMA EndHostSessionListed ==
  ASSUME TypeOK, ListedInv, UNCHANGED server, NEW objects, EndHostSession(objects)
  PROVE  ListedInv'
<1>1. Says1(M("end", hostState)) \/ UNCHANGED up BY DEF EndHostSession, Says1
<1> QED BY <1>1, SaysKept

LEMMA StopHostListed == ASSUME TypeOK, ListedInv, UNCHANGED server, StopHost PROVE ListedInv'
BY SaysKept DEF StopHost, Says1

LEMMA HostingListed == ASSUME TypeOK, ListedInv, Hosting PROVE ListedInv'
<1>1. ASSUME NEW c \in HostConns, HostHears(c) PROVE ListedInv'
  <2> DEFINE m == Head(down[c])
  <2>0. UNCHANGED server BY <1>1 DEF HostHears
  <2>1. StopHost \/ Request(m.s) \/ UNCHANGED up \/ EndHostSession(object)
    BY <1>1, Zenon DEF HostHears
  <2>2. CASE Request(m.s)
    <3>1. Says1(M("end", m.s)) \/ UNCHANGED up BY <2>2 DEF Request, Says1
    <3> QED BY <2>0, <3>1, SaysKept
  <2> QED BY <2>0, <2>1, <2>2, StopHostListed, EndHostSessionListed, SaysKept
<1>2. CASE \E v \in Viewers : Begun(v) BY <1>2, SaysKept DEF Begun
<1>3. ASSUME NEW v \in Viewers, Negotiate(v) PROVE ListedInv'
  <2> DEFINE answer == [M("answer", v) EXCEPT !.of = object[v].offer]
  <2>1. UNCHANGED server BY <1>3 DEF Negotiate
  <2>2. (\E objects : EndHostSession(objects)) \/ UNCHANGED up \/ Says1(answer)
    BY <1>3, Zenon DEF Negotiate, Says1
  <2> QED BY <2>1, <2>2, EndHostSessionListed, SaysKept
<1>4. CASE \E v \in Viewers : PcFails(v) BY <1>4, EndHostSessionListed DEF PcFails
<1>5. CASE Deny BY <1>5, SaysKept DEF Deny, Says1
<1>6. CASE \E control \in BOOLEAN : Allow(control) BY <1>6, SaysKept DEF Allow
<1>7. CASE Killed BY <1>7, EndHostSessionListed DEF Killed
<1> QED BY <1>1, <1>2, <1>3, <1>4, <1>5, <1>6, <1>7 DEF Hosting

\* A message other than the first 'hello' leaves that one on its way.
LEMMA Heard ==
  ASSUME NEW q \in Seq(Msg), q # <<>>, NEW x \in ToSet(q), x # Head(q)
  PROVE  x \in ToSet(Tail(q))
<1>1. PICK i \in 1..Len(q) : x = q[i] BY DEF ToSet
<1>2. Len(q) \in Nat /\ Len(Tail(q)) = Len(q) - 1 /\ Tail(q) \in Seq(Msg) /\ Head(q) = q[1]
      /\ \A j \in 1..(Len(q) - 1) : Tail(q)[j] = q[j + 1]
  OBVIOUS
<1>3. i # 1 BY <1>1, <1>2
<1>4. i - 1 \in 1..(Len(q) - 1) /\ (i - 1) + 1 = i BY <1>2, <1>3
<1>5. Tail(q)[i - 1] = x BY <1>1, <1>2, <1>4
<1>6. DOMAIN Tail(q) = 1..(Len(q) - 1) BY <1>2
<1> DEFINE r == Tail(q)
           j == i - 1
<1>7. j \in DOMAIN r /\ r[j] = x BY <1>4, <1>5, <1>6
<1> HIDE DEF r, j
<1>8. x \in ToSet(r) BY <1>7 DEF ToSet
<1> QED BY <1>8 DEF r

LEMMA ServerListed ==
  ASSUME TypeOK, ListedInv, NEW c \in Conns, ServerHears(c) PROVE ListedInv'
<1> DEFINE m == Head(up[c])
           hello == M("hello", None)
<1>0. /\ up \in [Conns -> Seq(Msg)] /\ socket \in [Conns -> {"none", "open", "closing", "closed"}]
      /\ hosts \in HostConns \union {None} /\ sessions \in [Viewers -> HostConns \union {None}]
      /\ HostConns \subseteq Conns /\ Viewers \subseteq Conns /\ None \notin Conns
      /\ Viewers \intersect HostConns = {}
  BY RemoteAssumption DEF TypeOK, Conns
<1>1. /\ up[c] # <<>> /\ up[c] \in Seq(Msg) /\ socket[c] \in {"open", "closing"}
      /\ up' = [up EXCEPT ![c] = Tail(@)]
  BY <1>0 DEF ServerHears
<1>2. hello.t = "hello" BY DEF M
<1> HIDE DEF m, hello
<1>3. ASSUME NEW d \in HostConns, hello \in ToSet(up[d]), d # c \/ m.t # "hello"
      PROVE  hello \in ToSet(up'[d])
  BY <1>0, <1>1, <1>2, <1>3, Heard DEF m
<1>4. /\ \A d \in HostConns : socket[d] = "open" /\ hello \notin ToSet(up[d]) => hosts = d
      /\ \A v \in Viewers : sessions[v] # None => socket[v] # "closed" /\ socket[sessions[v]] # "closed"
      /\ hosts # None => socket[hosts] # "closed"
  BY DEF ListedInv, HostIsListed, Live, hello
<1> SUFFICES
      /\ \A d \in HostConns : socket'[d] = "open" /\ hello \notin ToSet(up'[d]) => hosts' = d
      /\ \A v \in Viewers : sessions'[v] # None => socket'[v] # "closed" /\ socket'[sessions'[v]] # "closed"
      /\ hosts' # None => socket'[hosts'] # "closed"
  BY DEF ListedInv, HostIsListed, Live, hello
<1>5. CASE m.t = "close" /\ Closed(c)
  <2>1. /\ socket' = [socket EXCEPT ![c] = "closed"]
        /\ hosts' = IF hosts = c THEN None ELSE hosts
        /\ sessions' = [v \in Viewers |-> IF sessions[v] # None /\ c \in {v, sessions[v]} THEN None
                                         ELSE sessions[v]]
    BY <1>5 DEF Closed, Unlisted, EndSessions, Live
  <2>2. \A d \in HostConns : hello \in ToSet(up[d]) => hello \in ToSet(up'[d]) BY <1>3, <1>5
  <2>3. \A d \in HostConns : socket'[d] = "open" /\ hello \notin ToSet(up'[d]) => hosts' = d
    BY <1>0, <1>4, <2>1, <2>2
  <2>4. \A v \in Viewers : sessions'[v] # None => socket'[v] # "closed" /\ socket'[sessions'[v]] # "closed"
    BY <1>0, <1>4, <2>1
  <2>5. hosts' # None => socket'[hosts'] # "closed" BY <1>0, <1>4, <2>1
  <2> QED BY <2>3, <2>4, <2>5
<1>6. CASE c \in Viewers /\ ViewerSays(c, m)
  <2>1. UNCHANGED <<socket, hosts>> BY <1>6 DEF ViewerSays
  <2>2. sessions' = sessions \/ (hosts # None /\ sessions' = [sessions EXCEPT ![c] = hosts])
    BY <1>6, Zenon DEF ViewerSays
  <2>3. \A d \in HostConns : hello \in ToSet(up[d]) => hello \in ToSet(up'[d])
    BY <1>0, <1>3, <1>6
  <2>4. \A v \in Viewers : sessions'[v] # None => socket'[v] # "closed" /\ socket'[sessions'[v]] # "closed"
    BY <1>0, <1>1, <1>4, <2>1, <2>2
  <2> QED BY <1>4, <2>1, <2>3, <2>4
<1>7. CASE c \in HostConns /\ HostSays(c, m) /\ m.t = "hello"
  <2>1. /\ hosts' = c /\ UNCHANGED sessions
        /\ socket' = [d \in Conns |-> IF d = hosts /\ socket[d] = "open" THEN "closing" ELSE socket[d]]
    BY <1>7 DEF HostSays
  <2>2. \A d \in Conns : socket'[d] = "closed" <=> socket[d] = "closed" BY <1>0, <2>1
  <2>3. ASSUME NEW d \in HostConns, socket'[d] = "open", hello \notin ToSet(up'[d]), d # c
        PROVE  FALSE
    <3>1. d # hosts /\ socket[d] = "open" BY <1>0, <2>1, <2>3
    <3> QED BY <1>3, <1>4, <2>3, <3>1
  <2>4. \A v \in Viewers : sessions'[v] # None => socket'[v] # "closed" /\ socket'[sessions'[v]] # "closed"
    BY <1>0, <1>4, <2>1, <2>2
  <2> QED BY <1>0, <1>1, <2>1, <2>2, <2>3, <2>4
<1>8. CASE c \in HostConns /\ HostSays(c, m) /\ m.t # "hello"
  <2>1. UNCHANGED <<socket, hosts>> BY <1>8 DEF HostSays
  <2>2. \A v \in Viewers : sessions'[v] \in {sessions[v], None}
    BY <1>0, <1>8, Zenon DEF HostSays, EndSessions
  <2>3. \A d \in HostConns : hello \in ToSet(up[d]) => hello \in ToSet(up'[d]) BY <1>3, <1>8
  <2> QED BY <1>4, <2>1, <2>2, <2>3
<1>9. \/ m.t = "close" /\ Closed(c)
      \/ c \in Viewers /\ ViewerSays(c, m)
      \/ c \in HostConns /\ HostSays(c, m)
  BY Zenon DEF ServerHears, m, Conns
<1> QED BY <1>5, <1>6, <1>7, <1>8, <1>9

LEMMA ConnectionsListed ==
  ASSUME TypeOK, ListedInv,
         \/ \E c \in Conns : Lost(c)
         \/ \E c \in HostConns : socket[c] = "none" /\ StartHost(c)
         \/ \E v \in Viewers : ConnectTo(v) \/ OpenStage(v) \/ StartPeer(v) \/ ViewerHears(v)
         \/ LeaveClicked
  PROVE  ListedInv'
<1> DEFINE hello == M("hello", None)
<1>0. /\ up \in [Conns -> Seq(Msg)] /\ socket \in [Conns -> {"none", "open", "closing", "closed"}]
      /\ hosts \in HostConns \union {None} /\ sessions \in [Viewers -> HostConns \union {None}]
      /\ HostConns \subseteq Conns /\ Viewers \subseteq Conns /\ None \notin Conns
      /\ Viewers \intersect HostConns = {} /\ view \in Viewers \union {None}
  BY RemoteAssumption DEF TypeOK, Conns, Maybe
<1>a. /\ \A d \in HostConns : socket[d] = "open" /\ hello \notin ToSet(up[d]) => hosts = d
      /\ \A v \in Viewers : sessions[v] # None => socket[v] # "closed" /\ socket[sessions[v]] # "closed"
      /\ hosts # None => socket[hosts] # "closed"
  BY DEF ListedInv, HostIsListed, Live
<1>h. hello \in ToSet(<<hello>>) BY DEF ToSet
<1> HIDE DEF hello
<1>b. ASSUME UNCHANGED <<hosts, sessions>>,
             \A d \in HostConns : \/ socket'[d] # "open"
                                  \/ hello \in ToSet(up'[d])
                                  \/ socket'[d] = socket[d] /\ up'[d] = up[d],
             \A d \in Conns : socket'[d] = "closed" => socket[d] = "closed"
      PROVE  ListedInv'
  <2>1. \A d \in HostConns : socket'[d] = "open" /\ hello \notin ToSet(up'[d]) => hosts' = d
    BY <1>a, <1>b
  <2>2. \A v \in Viewers : sessions'[v] # None => socket'[v] # "closed" /\ socket'[sessions'[v]] # "closed"
    BY <1>0, <1>a, <1>b
  <2>3. hosts' # None => socket'[hosts'] # "closed" BY <1>0, <1>a, <1>b
  <2> QED BY <2>1, <2>2, <2>3 DEF ListedInv, HostIsListed, Live, hello
<1>1. ASSUME NEW c \in Conns, Lost(c) PROVE ListedInv' BY <1>0, <1>1, <1>b DEF Lost
<1>2. ASSUME NEW c \in HostConns, StartHost(c) PROVE ListedInv'
  BY <1>0, <1>2, <1>b, <1>h DEF StartHost, hello
<1>3. CASE \E v \in Viewers : ConnectTo(v) BY <1>3, <1>b DEF ConnectTo, server
<1>4. ASSUME NEW v \in Viewers, OpenStage(v) PROVE ListedInv' BY <1>0, <1>4, <1>b DEF OpenStage
<1>5. ASSUME NEW v \in Viewers, UNCHANGED server,
             (\E q : up' = [up EXCEPT ![v] = q]) \/ UNCHANGED up
      PROVE  ListedInv'
  BY <1>0, <1>5, <1>b DEF server
<1>6. ASSUME NEW v \in Viewers, StartPeer(v) \/ ViewerHears(v) PROVE ListedInv'
  <2>1. UNCHANGED server BY <1>6 DEF StartPeer, ViewerHears
  <2>2. (\E q : up' = [up EXCEPT ![v] = q]) \/ UNCHANGED up
    BY <1>6, Zenon DEF StartPeer, ViewerHears, Leave
  <2> QED BY <1>5, <2>1, <2>2
<1>7. CASE LeaveClicked
  <2>1. view \in Viewers /\ UNCHANGED server BY <1>0, <1>7 DEF LeaveClicked
  <2>2. \E q : up' = [up EXCEPT ![view] = q] BY <1>7 DEF LeaveClicked, Leave
  <2> QED BY <1>5, <2>1, <2>2
<1> QED BY <1>1, <1>2, <1>3, <1>4, <1>6, <1>7

LEMMA ListedStep == TypeOK /\ ListedInv /\ [Next]_vars => ListedInv'
<1> SUFFICES ASSUME TypeOK, ListedInv, [Next]_vars PROVE ListedInv' OBVIOUS
<1>0. ASSUME UNCHANGED <<up, server>> PROVE ListedInv' BY <1>0, SaysKept
<1>1. CASE User
  <2>u. \A S : Unused(S) \subseteq S BY DEF Unused
  <2>1. CASE \E v \in Unused({u \in Viewers : viewer[u] = "idle"}) : ConnectTo(v)
    BY <2>u, <2>1, ConnectionsListed
  <2>2. CASE \E c \in Unused({d \in HostConns : socket[d] = "none"}) : StartHost(c)
    BY <2>u, <2>2, ConnectionsListed
  <2>3. CASE \E v \in Viewers : KeyPressed(v) BY <1>0, <2>3 DEF KeyPressed
  <2>4. CASE LeaveClicked BY <2>4, ConnectionsListed
  <2>5. CASE ToggleControl BY <1>0, <2>5 DEF ToggleControl
  <2>6. CASE EndClicked BY <2>6, EndHostSessionListed DEF EndClicked
  <2>7. CASE StopClicked BY <2>7, StopHostListed DEF StopClicked
  <2>8. CASE Kill BY <1>0, <2>8 DEF Kill
  <2> QED BY <1>1, <2>1, <2>2, <2>3, <2>4, <2>5, <2>6, <2>7, <2>8 DEF User
<1>2. CASE Network BY <1>2, ConnectionsListed DEF Network
<1>3. CASE Server BY <1>3, ServerListed DEF Server
<1>4. CASE Viewing BY <1>4, ConnectionsListed DEF Viewing
<1>5. CASE Hosting BY <1>5, HostingListed
<1>6. CASE MainHears BY <1>0, <1>6 DEF MainHears
<1>7. CASE UNCHANGED vars BY <1>0, <1>7 DEF vars
<1> QED BY <1>1, <1>2, <1>3, <1>4, <1>5, <1>6, <1>7 DEF Next, Main

\* Whenever the close of a connection of the host comes - before or after the next one has
\* said hello - the newest one stays listed, and no session refers to a connection that is
\* closed (the 'close' handler and the hello of remote/server/server.js).
THEOREM NewestHostIsListed == Spec => []HostIsListed
<1>1. Init => ListedInv BY DEF Init, ListedInv, HostIsListed, Live, Conns
<1>2. ListedInv => HostIsListed BY DEF ListedInv
<1> QED BY <1>1, <1>2, InitType, TypeStep, ListedStep, PTL DEF Spec
=============================================================================
