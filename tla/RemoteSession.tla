---------------------------- MODULE RemoteSession ----------------------------
(***************************************************************************)
(* Remote control: the signaling server (remote/server/server.js), the     *)
(* application as a viewer and as the host (remote/app/ui/app.js) and the  *)
(* host's main process (remote/app/main.js), which alone injects input.    *)
(* Sessions are set up over two WebSockets; a person at the host consents. *)
(***************************************************************************)
EXTENDS Naturals, Sequences, FiniteSets, SequencesExt

CONSTANTS
    Viewers,    \* connections of viewers; each asks for one session, named after it
    HostConns,  \* connections of the host
    None,
    DoubleClicks,   \* does the viewer's user click again while a first click is handled?
    MaxEvents   \* what persons do, and connections that are lost

Conns == Viewers \union HostConns

ASSUME RemoteAssumption == /\ Viewers \intersect HostConns = {} /\ None \notin Conns
                           /\ IsFiniteSet(Viewers)
                           /\ MaxEvents \in Nat /\ DoubleClicks \in BOOLEAN

VARIABLES
    up, down,   \* messages on their way to the server and back
    socket,     \* the server's end of each connection
    hosts,      \* the connection of the host, as listed
    sessions,   \* per session, the host's connection in it
    viewer,     \* how far each viewer connection is
    view,       \* what the viewer looks at
    hostConn,   \* the connection the host shares over
    asking,     \* the request whose prompt is shown
    hostState,  \* the session the host takes for the active one
    early,      \* offers that came before their session was active
    object,     \* the host's object of each session
    ipc,        \* calls on their way to the main process
    main,       \* host.session and host.control, and whether keys are held down
    killed,     \* the renderer has yet to hear of the kill switch
    forgotten,  \* history: requests whose prompt was replaced, or whose offer was taken away
    events

server == <<socket, hosts, sessions>>
theViewer == <<viewer, view>>
theHost == <<hostConn, asking, hostState, early, object, forgotten>>
theMain == <<ipc, main, killed>>
vars == <<up, down, server, theViewer, theHost, theMain, events>>

Maybe == Viewers \union {None}
Msg == {m \in [t : {"connect", "session", "request", "offer", "answer", "end", "ended", "error",
                    "hello", "close"}, s : Maybe, of : Maybe] :
           m.t \in {"request", "offer"} => m.s # None}
M(t, s) == [t |-> t, s |-> s, of |-> s]

\* begun: arena.host.begin is awaited; step: the negotiation, whose awaits outlive the session.
Object == [control : BOOLEAN, begun : {"no", "sent", "answered", "over"},
           pc : {"none", "open", "closed"}, offer : Maybe,
           step : {"none", "capture", "answer", "done"},
           stream : {"none", "live", "stopped"}]

Calls == [t : {"begin", "control", "end", "key"}, s : Maybe, on : BOOLEAN]

TypeOK ==
    /\ up \in [Conns -> Seq(Msg)] /\ down \in [Conns -> Seq(Msg)]
    /\ socket \in [Conns -> {"none", "open", "closing", "closed"}]
    /\ hosts \in HostConns \union {None} /\ sessions \in [Viewers -> HostConns \union {None}]
    /\ viewer \in [Viewers -> {"idle", "pin", "open", "peer", "offered", "ready", "closed"}]
    /\ {view, asking, hostState} \subseteq Maybe /\ hostConn \in HostConns \union {None}
    /\ UNION {early, forgotten} \subseteq Viewers /\ object \in [Viewers -> Object]
    /\ ipc \in Seq(Calls)
    /\ main \in [session : Maybe, control : BOOLEAN, held : BOOLEAN] /\ killed \in BOOLEAN
    /\ events \in 0..MaxEvents

Init ==
    /\ up = [c \in Conns |-> <<>>] /\ down = [c \in Conns |-> <<>>]
    /\ socket = [c \in Conns |-> "none"] /\ hosts = None /\ sessions = [v \in Viewers |-> None]
    /\ viewer = [v \in Viewers |-> "idle"] /\ view = None
    /\ hostConn = None /\ asking = None /\ hostState = None /\ early = {} /\ forgotten = {}
    /\ object = [v \in Viewers |-> [control |-> FALSE, begun |-> "no", pc |-> "none",
                                    offer |-> None, step |-> "none", stream |-> "none"]]
    /\ ipc = <<>> /\ main = [session |-> None, control |-> FALSE, held |-> FALSE]
    /\ killed = FALSE /\ events = 0

-----------------------------------------------------------------------------
(* The server *)

IsClose(m) == m.t = "close"

\* A WebSocket that its owner has closed delivers no more messages, only its close.
OnlyClose(ms) == IF \E m \in ToSet(ms) : IsClose(m) THEN <<M("close", None)>> ELSE <<>>
Read(c, ms) == IF c = hostConn \/ (c \in Viewers /\ viewer[c] # "closed") THEN ms
               ELSE IF c \in Viewers THEN <<>> ELSE OnlyClose(ms)

\* send() looks at readyState; out[c] is what c is sent.
Tell(out) == down' = [c \in Conns |-> IF socket[c] = "open" THEN down[c] \o Read(c, out[c])
                                      ELSE down[c]]
To(c, m) == [d \in Conns |-> IF d = c THEN <<m>> ELSE <<>>]

\* endSession for the sessions in E: both ends are told, c only of its own close.
EndSessions(E, c) ==
    /\ sessions' = [v \in Viewers |-> IF v \in E THEN None ELSE sessions[v]]
    /\ Tell([d \in Conns |->
              IF d = c THEN <<M("close", None)>>
              ELSE SetToSeq({M("ended", v) : v \in {u \in E : d \in {u, sessions[u]}}})])

Live(v) == sessions[v] # None

ViewerSays(v, m) ==
    /\ CASE m.t = "connect" /\ hosts = None -> Tell(To(v, M("error", None))) /\ UNCHANGED sessions
         [] m.t = "connect" /\ hosts # None ->
              /\ sessions' = [sessions EXCEPT ![v] = hosts]
              /\ Tell([To(v, M("session", v)) EXCEPT ![hosts] = <<M("request", v)>>])
         [] OTHER -> Tell(To(sessions[v], m)) /\ UNCHANGED sessions   \* an offer
    /\ UNCHANGED <<socket, hosts>>

\* A second connection of the host takes the place of the first, which is closed.
HostSays(c, m) ==
    CASE m.t = "hello" ->
           /\ hosts' = c
           /\ Tell(To(hosts, M("close", None)))
           /\ socket' = [d \in Conns |-> IF d = hosts /\ socket[d] = "open" THEN "closing" ELSE socket[d]]
           /\ UNCHANGED sessions
      [] m.t # "hello" ->
           /\ IF sessions[m.s] # c THEN UNCHANGED <<down, sessions>>
              ELSE IF m.t = "end" THEN EndSessions({m.s}, None)
              ELSE Tell(To(m.s, m)) /\ UNCHANGED sessions
           /\ UNCHANGED <<socket, hosts>>

\* (Variant) Any close of a connection of the host takes the host off the list.
UnlistedAny(c) == IF c \in HostConns THEN None ELSE hosts

\* Only the connection that is listed is taken off the list.
Unlisted(c) == IF hosts = c THEN None ELSE hosts

\* (Variant) The other ends of its sessions are not told.
ClosedSilently(c) ==
    /\ socket' = [socket EXCEPT ![c] = "closed"]
    /\ hosts' = Unlisted(c)
    /\ EndSessions({}, c)

\* The client hears of its own close, and the other ends of its sessions are told.
Closed(c) ==
    /\ socket' = [socket EXCEPT ![c] = "closed"]
    /\ hosts' = Unlisted(c)
    /\ EndSessions({v \in Viewers : Live(v) /\ c \in {v, sessions[v]}}, c)

ServerHears(c) ==
    /\ up[c] # <<>> /\ socket[c] \in {"open", "closing"}
    /\ up' = [up EXCEPT ![c] = Tail(@)]
    /\ LET m == Head(up[c])
       IN IF m.t = "close" THEN Closed(c)
          ELSE IF c \in Viewers THEN ViewerSays(c, m) ELSE HostSays(c, m)
    /\ UNCHANGED <<theViewer, theHost, theMain>>

\* The network loses a connection; the server finds out by its ping.
Lost(c) ==
    /\ socket[c] = "open" /\ M("close", None) \notin ToSet(up[c])
    /\ up' = [up EXCEPT ![c] = <<M("close", None)>>]
    /\ down' = [down EXCEPT ![c] = <<M("close", None)>>]
    /\ socket' = [socket EXCEPT ![c] = "closing"]
    /\ UNCHANGED <<hosts, sessions, theViewer, theHost, theMain>>

-----------------------------------------------------------------------------
(* app.js, the viewer *)

\* view is looked at before the pinned key is awaited.
ConnectTo(v) ==
    /\ view = None /\ (DoubleClicks \/ \A u \in Viewers : viewer[u] # "pin")
    /\ viewer' = [viewer EXCEPT ![v] = "pin"]
    /\ UNCHANGED <<up, down, server, view, theHost, theMain>>

\* Who it is and what servers there are is told and answered before connect is sent.
OpenStage(v) ==
    /\ viewer[v] = "pin"
    /\ viewer' = [viewer EXCEPT ![v] = "open"] /\ view' = v
    /\ socket' = [socket EXCEPT ![v] = "open"]
    /\ up' = [up EXCEPT ![v] = <<M("connect", v)>>]
    /\ UNCHANGED <<down, hosts, sessions, theHost, theMain>>

StartPeer(v) ==
    /\ viewer[v] = "peer"
    /\ viewer' = [viewer EXCEPT ![v] = "offered"]
    /\ up' = [up EXCEPT ![v] = Append(@, M("offer", v))]
    /\ UNCHANGED <<down, server, view, theHost, theMain>>

\* Whichever connection it is for, view is cleared.  Its 'end' says what its close says.
Leave(v) ==
    /\ viewer' = [viewer EXCEPT ![v] = "closed"] /\ view' = None
    /\ down' = [down EXCEPT ![v] = <<>>]
    /\ up' = [up EXCEPT ![v] = Append(@, M("close", None))]

ViewerHears(v) ==
    /\ viewer[v] \notin {"idle", "pin", "closed"} /\ down[v] # <<>>
    /\ LET m == Head(down[v])
       IN IF m.t = "session" \/ (m.t = "answer" /\ m.of = v)
          THEN /\ viewer' = [viewer EXCEPT ![v] = IF m.t = "session" THEN "peer" ELSE "ready"]
               /\ down' = [down EXCEPT ![v] = Tail(@)] /\ UNCHANGED <<up, view>>
          ELSE Leave(v)   \* an end, an error, or an answer that does not verify
    /\ UNCHANGED <<server, theHost, theMain>>

LeaveClicked ==
    /\ view # None /\ viewer[view] # "closed"
    /\ Leave(view)
    /\ UNCHANGED <<server, theHost, theMain>>

-----------------------------------------------------------------------------
(* app.js, the host *)

Call(t, s, on) == [t |-> t, s |-> s, on |-> on]

StartHost(c) ==
    /\ hostConn = None
    /\ hostConn' = c
    /\ socket' = [socket EXCEPT ![c] = "open"]
    /\ up' = [up EXCEPT ![c] = <<M("hello", None)>>]
    /\ UNCHANGED <<down, hosts, sessions, theViewer, asking, hostState, early, object, forgotten, theMain>>

\* What hostConn sends; nothing reaches the server over a connection that is gone.
Says(ms) == IF hostConn = None THEN up ELSE [up EXCEPT ![hostConn] = @ \o ms]

\* Of a session s whose object is o.
Over(o) == [o EXCEPT !.pc = IF @ = "open" THEN "closed" ELSE @,
                     !.stream = IF @ = "live" THEN "stopped" ELSE @]

EndHostSession(objects) ==
    /\ hostState' = None
    /\ IF hostState = None THEN object' = objects /\ UNCHANGED <<up, ipc>>
       ELSE /\ object' = [objects EXCEPT ![hostState] = Over(@)]
            /\ up' = Says(<<M("end", hostState)>>)
            /\ ipc' = Append(ipc, Call("end", None, FALSE))

\* The session ends with the connection; arm(false) ends the main process's session too.
Unread(d) == [d EXCEPT ![hostConn] = OnlyClose(@)]

StopHost ==
    /\ hostState' = None /\ hostConn' = None
    /\ object' = IF hostState = None THEN object ELSE [object EXCEPT ![hostState] = Over(@)]
    /\ up' = Says(<<M("close", None)>>)
    /\ ipc' = Append(ipc, Call("end", None, FALSE))

\* onRequest: one session at a time; a new prompt takes the place of the one shown.
Request(v) ==
    /\ IF hostState # None THEN up' = Says(<<M("end", v)>>) /\ UNCHANGED <<asking, forgotten>>
       ELSE asking' = v /\ forgotten' = forgotten \union ({asking} \ {None}) /\ UNCHANGED up
    /\ UNCHANGED <<hostConn, hostState, early, object, ipc>>

\* onHostSignal: with no session its failure has no session to end.
Offer(v, objects) ==
    LET s == hostState
    IN IF s = None \/ objects[s].pc # "none" THEN object' = objects
       ELSE object' = [objects EXCEPT ![s].pc = "open", ![s].offer = v, ![s].step = "capture"]

\* The close of any connection ends the sharing, whatever it runs over by now.
HostHears(c) ==
    /\ down[c] # <<>>
    /\ LET m == Head(down[c])
           rest == [down EXCEPT ![c] = Tail(@)]
       IN /\ down' = IF IsClose(m) /\ hostConn # None THEN Unread(rest) ELSE rest
          /\ CASE m.t = "close" /\ hostConn # None -> StopHost /\ UNCHANGED <<asking, early, forgotten>>
               [] m.t = "request" -> Request(m.s)
               [] m.t = "offer" ->
                    /\ IF hostState = m.s THEN Offer(m.s, object) /\ UNCHANGED early
                       ELSE early' = early \union {m.s} /\ UNCHANGED object
                    /\ UNCHANGED <<up, hostConn, asking, hostState, forgotten, ipc>>
               [] m.t = "ended" /\ hostState = m.s ->
                    EndHostSession(object) /\ UNCHANGED <<hostConn, asking, early, forgotten>>
               [] OTHER -> UNCHANGED <<up, theHost, ipc>>
    /\ UNCHANGED <<server, theViewer, main, killed>>

\* The person at the host answers the prompt.
Deny ==
    /\ asking # None
    /\ asking' = None
    /\ up' = Says(<<M("end", asking)>>)
    /\ UNCHANGED <<down, server, theViewer, hostConn, hostState, early, object, forgotten, theMain>>

Allow(control) ==
    /\ asking # None
    /\ hostState' = asking /\ asking' = None
    /\ object' = [object EXCEPT ![asking].control = control, ![asking].begun = "sent"]
    /\ ipc' = Append(ipc, Call("begin", asking, control))
    /\ UNCHANGED <<up, down, server, theViewer, hostConn, early, forgotten, main, killed>>

\* onRequest goes on after begin: the offers kept so far are taken out, and the one of
\* this session is handled - for whichever session is active by now.
Begun(v) ==
    /\ object[v].begun = "answered"
    /\ early' = {} /\ forgotten' = forgotten \union (early \ {v})
    /\ LET objects == [object EXCEPT ![v].begun = "over"]
       IN IF v \in early THEN Offer(v, objects) ELSE object' = objects
    /\ UNCHANGED <<up, down, server, theViewer, hostConn, asking, hostState, theMain>>

\* The awaits of the negotiation.  A closed RTCPeerConnection makes the next call on it
\* fail, and the failure ends the session that is active by then; a capture that is
\* granted after the end of its session has been missed by it.
Negotiate(s) ==
    LET o == object[s]
        captured == IF o.step = "capture" THEN "live" ELSE o.stream
    IN /\ o.step \in {"capture", "answer"}
       /\ IF o.pc = "closed"
          THEN EndHostSession([object EXCEPT ![s].step = "done", ![s].stream = captured])
          ELSE /\ object' = [object EXCEPT ![s].stream = captured,
                     ![s].step = IF @ = "capture" THEN "answer" ELSE "done"]
               /\ up' = IF o.step # "answer" THEN up ELSE Says(<<[M("answer", s) EXCEPT !.of = o.offer]>>)
               /\ UNCHANGED <<hostState, ipc>>
       /\ UNCHANGED <<down, server, theViewer, hostConn, asking, early, forgotten, main, killed>>

\* (Variant) A media connection that fails is left to the signaling.
PcFailsUnseen(s) ==
    /\ object[s].pc = "open" /\ viewer[s] = "closed" /\ hostState = s
    /\ UNCHANGED vars

\* The other end is gone, and the connection of the media fails.
PcFails(s) ==
    /\ object[s].pc = "open" /\ viewer[s] = "closed" /\ hostState = s
    /\ EndHostSession(object)
    /\ UNCHANGED <<down, server, theViewer, hostConn, asking, early, forgotten, main, killed>>

\* (Variant) The main process is told what control was before.
ToggleControlLate ==
    /\ hostState # None
    /\ object' = [object EXCEPT ![hostState].control = ~@]
    /\ ipc' = Append(ipc, Call("control", None, object[hostState].control))
    /\ UNCHANGED <<up, down, server, theViewer, hostConn, asking, hostState, early, forgotten, main, killed>>

ToggleControl ==
    /\ hostState # None
    /\ object' = [object EXCEPT ![hostState].control = ~@]
    /\ ipc' = Append(ipc, Call("control", None, ~object[hostState].control))
    /\ UNCHANGED <<up, down, server, theViewer, hostConn, asking, hostState, early, forgotten, main, killed>>

EndClicked ==
    /\ hostState # None
    /\ EndHostSession(object)
    /\ UNCHANGED <<down, server, theViewer, hostConn, asking, early, forgotten, main, killed>>

StopClicked ==
    /\ hostConn # None
    /\ StopHost /\ down' = Unread(down)
    /\ UNCHANGED <<server, theViewer, asking, early, forgotten, main, killed>>

\* The viewer's input arrives over the data channel.
KeyPressed(s) ==
    /\ viewer[s] = "ready" /\ hostState = s /\ object[s].pc = "open" /\ object[s].control
    /\ ipc' = Append(ipc, Call("key", None, TRUE))
    /\ UNCHANGED <<up, down, server, theViewer, theHost, main, killed>>

-----------------------------------------------------------------------------
(* main.js *)

\* Ends any session, and lets go of the keys, if control was on.
EndedMain == [session |-> None, control |-> FALSE, held |-> main.held /\ ~main.control]

\* (Variant) Control is taken away, and what is pressed stays so.
SetControlHolding(on) == [main EXCEPT !.control = on /\ main.session # None]

SetControl(on) == LET control == on /\ main.session # None
                  IN [main EXCEPT !.control = control, !.held = @ /\ control]

Begin(v, control) == [main EXCEPT !.session = v, !.control = control]

MainHears ==
    /\ ipc # <<>> /\ ipc' = Tail(ipc)
    /\ LET m == Head(ipc)
       IN /\ main' = CASE m.t = "begin" -> Begin(m.s, m.on)
                       [] m.t = "control" -> SetControl(m.on)
                       [] m.t = "end" -> EndedMain
                       [] OTHER -> [main EXCEPT !.held = @ \/ main.control]
          /\ object' = IF m.t = "begin" THEN [object EXCEPT ![m.s].begun = "answered"] ELSE object
    /\ UNCHANGED <<up, down, server, theViewer, hostConn, asking, hostState, early, forgotten, killed>>

\* The kill switch acts in the main process, and then tells the renderer.
Kill ==
    /\ main' = EndedMain /\ killed' = TRUE
    /\ UNCHANGED <<up, down, server, theViewer, theHost, ipc>>

Killed ==
    /\ killed /\ killed' = FALSE
    /\ EndHostSession(object)
    /\ UNCHANGED <<down, server, theViewer, hostConn, asking, early, forgotten, main>>

-----------------------------------------------------------------------------
\* Connections that were not used yet are alike.
Unused(C) == IF C = {} THEN {} ELSE {CHOOSE c \in C : TRUE}
User == \/ \E v \in Unused({u \in Viewers : viewer[u] = "idle"}) : ConnectTo(v)
        \/ \E c \in Unused({d \in HostConns : socket[d] = "none"}) : StartHost(c)
        \/ \E v \in Viewers : KeyPressed(v)
        \/ LeaveClicked \/ ToggleControl \/ EndClicked \/ StopClicked \/ Kill

Network == \E c \in Conns : Lost(c)

Server == UNCHANGED events /\ \E c \in Conns : ServerHears(c)

Viewing == UNCHANGED events /\ \E v \in Viewers : OpenStage(v) \/ StartPeer(v) \/ ViewerHears(v)

Hosting == /\ UNCHANGED events
           /\ \/ \E c \in HostConns : HostHears(c)
              \/ \E v \in Viewers : Begun(v) \/ Negotiate(v) \/ PcFails(v)
              \/ Deny \/ (\E control \in BOOLEAN : Allow(control)) \/ Killed

Main == UNCHANGED events /\ MainHears

Next == \/ events < MaxEvents /\ events' = events + 1 /\ (User \/ Network)
        \/ Server \/ Viewing \/ Hosting \/ Main

\* Each program goes on as long as it can: messages arrive and are handled, awaits end,
\* prompts are answered, a media connection with no other end fails - each once.
Fairness == WF_vars(Server) /\ WF_vars(Viewing) /\ WF_vars(Hosting) /\ WF_vars(Main)

Spec == Init /\ [][Next]_vars /\ Fairness

-----------------------------------------------------------------------------
(* What makes it correct *)

\* The host's newest connection is the listed one, whenever the close of the one before
\* comes, and no session refers to a connection that is closed (server.js:139, 187).
HostIsListed ==
    /\ \A c \in HostConns : socket[c] = "open" /\ M("hello", None) \notin ToSet(up[c]) => hosts = c
    /\ \A v \in Viewers : Live(v) => "closed" \notin {socket[v], socket[sessions[v]]}

\* When its calls have arrived, the main process lets in the input of the session the
\* host's window shows, and only if control is on there: end, kill switch and switching
\* control overtake each other on the way (main.js:35, 89, 100).
MainAgrees ==
    ipc = <<>> /\ ~killed =>
        /\ main.session = hostState
        /\ main.control = (hostState # None /\ object[hostState].control)

\* Without control no key stays pressed (main.js:37, 103).
KeysAreReleased == main.held => main.control

\* Whoever asks for a session gets it, or is told that it does not, through lost
\* connections, a host that is busy, stops or starts again - unless its prompt was
\* replaced by another one, or its offer taken out with another's (app.js:478, 485).
NobodyWaits ==
    \A v \in Viewers : (viewer[v] \in {"open", "peer", "offered"})
                           ~> (viewer[v] \in {"ready", "closed"} \/ v \in forgotten)

\* The host gets free again: of a session whose viewer has left, even while the
\* prompt was open, something tells the host (app.js:467, 499).
HostGetsFree ==
    \A v \in Viewers : (hostState = v /\ object[v].pc = "open" /\ viewer[v] = "closed")
                           ~> (hostState # v)

-----------------------------------------------------------------------------
(* What the code does not keep; see the README. *)

\* Nothing is captured for a session that is over.
CaptureEnds == \A v \in Viewers : object[v].stream = "live" => hostState = v

\* The host stops sharing over a connection only for its own close or a person's wish.
OwnCloseOnly == [][\A c \in HostConns : hostConn = c /\ hostConn' = None /\ events' = events
                      => down[c] # <<>> /\ Head(down[c]).t = "close"]_vars

\* What is open is what is looked at.
OneStage == \A v \in Viewers : viewer[v] \in {"open", "peer", "offered", "ready"} => view = v

\* A session is answered by its own offer.
OwnOffer == \A v \in Viewers : object[v].offer \in {v, None}

\* The host is busy with a session that exists, or will hear of its end.
NoGhost == (hostState # None /\ viewer[hostState] = "closed") ~> (hostState = None \/ viewer[hostState] # "closed")
=============================================================================
