----------------------------- MODULE CommsEngine -----------------------------
(***************************************************************************)
(* One intercom client (class CommsEngine of comms-app/src/lib/comms.ts)   *)
(* with the session it has on the comms server: joining, losing the socket *)
(* and joining again, the talk keys and what is wired to them, the         *)
(* microphone that is only open while somebody is talked to, the tracks    *)
(* published to the media server, music sent on a channel, the mesh link   *)
(* to another participant, the program feed and its ducking.               *)
(*                                                                         *)
(* JavaScript runs one callback at a time: an action is a callback up to   *)
(* its next await.  What was read before an await may be old after it, and *)
(* that is where this client can go wrong.                                 *)
(***************************************************************************)
EXTENDS Naturals, Sequences, FiniteSets

CONSTANTS
  Chans,       \* the party lines of the account
  MaxEvents    \* bound: what users, admins and the network do

ASSUME EngineAssumption == MaxEvents \in Nat /\ "direct" \notin Chans

VARIABLES
  media,   \* what the server is set up for: mesh (with a program feed) or sfu
  eng,     \* status, stopped, welcomed, failedOpens and reconnectTimer
  keys,    \* held, latched, listen and channels (the rights as last told)
  mic,     \* micStream, a getUserMedia under way, micIdleTimer
  net,     \* the current socket and what is in flight on it, both ways
  srv,     \* the server's peer for this session, and the account's rights (and in lapsed,
           \* history: they were without music since START or since this session began)
  sfu,     \* room, sfuGains (those that are up: hot), LiveKit's tracks (sfuPubs)
  sync,    \* the chain of syncSfuTracks calls
  conn,    \* connectSfu after its welcome
  music,   \* musicTx and musicPubs of one channel, captures, publishMusic calls
  mesh,    \* the other participant: in the roster, as a Peer, and at its own end (and, as
           \* history, what the server said of its talking and a roster entry gone blank)
  prog,    \* program feed
  duck,    \* ducked and duckTimer
  n        \* events so far

vars == <<media, eng, keys, mic, net, srv, sfu, sync, conn, music, mesh, prog, duck, n>>
client == <<eng, keys, mic, net>>
sending == <<sfu, sync, conn, music>>
hearing == <<mesh, prog, duck>>

Names == Chans \cup {"direct"}
Rights == [talk : SUBSET Chans, music : BOOLEAN]
NoRights == [talk |-> {}, music |-> FALSE]
TalkSet(k) == k.held \cup k.latched
InSession == eng.status \in {"connected", "reconnecting"}
Event == n < MaxEvents /\ n' = n + 1

Jobs == [live : BOOLEAN, from : {"start", "conn"}]

TypeOK ==
  /\ media \in {"mesh", "sfu"}
  /\ eng \in [status : {"idle", "connecting", "connected", "reconnecting", "error"},
              stopped : BOOLEAN, welcomed : BOOLEAN, failed : 0..3, timer : BOOLEAN]
  /\ keys \in [held : SUBSET Names, latched : SUBSET Names, listen : SUBSET Chans,
               channels : Rights]
  /\ mic \in [open : BOOLEAN, boot : BOOLEAN, press : BOOLEAN, idle : BOOLEAN, refused : BOOLEAN]
  /\ net.ws \in {"none", "opening", "open", "lost", "closing"}
  /\ srv \in [phase : {"out", "token", "in"}, talk : SUBSET Names, listen : SUBSET Chans,
              music : BOOLEAN, rights : Rights, told : Rights, lapsed : BOOLEAN]
  /\ sfu \in [room : {"none", "connecting", "up", "stalled", "gone"}, gains : SUBSET Names,
              hot : SUBSET Names, tracks : SUBSET Names, hurt : BOOLEAN]
  /\ sync \in [busy : BOOLEAN, live : BOOLEAN, want : SUBSET Names, drop : SUBSET Names,
               cur : SUBSET Names, waiting : 0..4]
  /\ conn \in [at : {"none", "room", "sync", "music"}, wait : 0..5]
  /\ music \in [tx : BOOLEAN, pending : 0..2, leaked : BOOLEAN, pub : BOOLEAN, track : BOOLEAN,
                jobs : SUBSET Jobs, hurt : BOOLEAN]
  /\ mesh \in [roster : {"no", "pending", "peer"}, talks : BOOLEAN, said : BOOLEAN, blank : BOOLEAN,
               pc : {"none", "offering", "offered", "linked", "broken"}, first : BOOLEAN,
               on : BOOLEAN, here : BOOLEAN, speaks : BOOLEAN,
               far : {"none", "offering", "offered", "linked", "broken"}]
  /\ prog \in [wanted : BOOLEAN, pc : {"none", "gather", "post", "wait", "live"},
               retry : BOOLEAN, loc : BOOLEAN, old : SUBSET {"gather", "post"}, lost : BOOLEAN]
  /\ duck \in [on : BOOLEAN, timer : BOOLEAN]
  /\ n \in 0..MaxEvents

-----------------------------------------------------------------------------
(* What the methods compute, as functions of the state they change.        *)

\* send(): nothing leaves unless the socket is open.
Sent(w, m) == IF w.ws = "open" THEN [w EXCEPT !.up = Append(@, m)] ELSE w

\* signal(): one to a participant who is gone finds nobody at the server.
Signal(w, m) == IF [type |-> "peer-leave"] \in {w.down[i] : i \in DOMAIN w.down} THEN w ELSE Sent(w, m)

\* (Variant) Only held keys open the microphone, not latched ones.
MicSyncedHeld(m, k) ==
  IF k.held # {} THEN [m EXCEPT !.idle = FALSE, !.press = @ \/ ~m.open]
                 ELSE [m EXCEPT !.idle = @ \/ m.open]

\* syncMic(): open the microphone for the first key, let it linger after the last.
MicSynced(m, k) ==
  IF TalkSet(k) # {}
    THEN [m EXCEPT !.idle = FALSE, !.press = @ \/ ~m.open]
    ELSE [m EXCEPT !.idle = @ \/ m.open]

\* updateDuck(): an IFB talker in the roster ducks at once, the end is held 400 ms.
IfbTalks(k, e) == e.roster # "no" /\ e.talks /\ k.listen # {}
\* (Variant) The release of an earlier duck is left running.
DuckUpdatedTwice(d, k, e) ==
  IF e.roster # "no" /\ e.talks /\ k.listen # {} THEN [on |-> TRUE, timer |-> d.timer]
                                               ELSE [d EXCEPT !.timer = @ \/ d.on]

DuckUpdated(d, k, e) ==
  IF IfbTalks(k, e) THEN [on |-> TRUE, timer |-> FALSE]
                    ELSE [d EXCEPT !.timer = @ \/ d.on]

\* applyRouting(): gains follow the keys; in the mesh the other participant
\* (who listens to every channel) is sent the microphone while a key is down.
Routed(s, k) == [s EXCEPT !.hot = s.gains \cap TalkSet(k)]
Wired(e, k) == [e EXCEPT !.on = e.pc # "none" /\ TalkSet(k) # {}]

ApplyRouting(k, s, e) ==
  /\ keys' = k
  /\ sfu' = Routed(s, k)
  /\ mesh' = Wired(e, k)
  /\ mic' = MicSynced(mic, k)
  /\ duck' = DuckUpdated(duck, k, Wired(e, k))

\* pushState(): route, and tell the server.
StateMsg(k) == [type |-> "state", talk |-> TalkSet(k), listen |-> k.listen]
PushState(k) == ApplyRouting(k, sfu, mesh) /\ net' = Sent(net, StateMsg(k))

\* closeSfu(): the room and all that was published in it; calls still waiting
\* for its answers go on with a room that is gone.
ClosedSfu == [room |-> "none", gains |-> {}, hot |-> {}, tracks |-> {}, hurt |-> FALSE]
NoSync == [busy |-> FALSE, live |-> FALSE, want |-> {}, drop |-> {}, cur |-> {}, waiting |-> 0]
DeadSync == [sync EXCEPT !.live = FALSE]
NoConn == [at |-> "none", wait |-> 0]
DeadMusic == [music EXCEPT !.pub = FALSE, !.track = FALSE, !.hurt = FALSE,
                           !.jobs = {[live |-> FALSE, from |-> "start"] : j \in @}]
Silent(e) == [e EXCEPT !.talks = FALSE, !.said = FALSE, !.blank = FALSE]
NoPeer(e) == [Silent(e) EXCEPT !.roster = "no", !.pc = "none", !.on = FALSE, !.far = "none"]

\* teardownSession()
TeardownSession ==
  /\ sfu' = ClosedSfu /\ sync' = DeadSync /\ conn' = NoConn
  /\ mesh' = NoPeer(mesh)

\* The server sees the socket go (or gives it up): nothing of the session is left.
Forgotten == [srv EXCEPT !.phase = "out", !.talk = {}, !.listen = {}, !.music = FALSE, !.told = NoRights]
Closed(w) == [ws |-> w, up |-> <<>>, down |-> <<>>]

\* fatal(): the session ends with an error; keys, music and program are left.
Fatal ==
  /\ eng' = [eng EXCEPT !.stopped = TRUE, !.status = "error"]
  /\ TeardownSession /\ music' = DeadMusic
  /\ net' = Closed("none") /\ srv' = Forgotten
  /\ UNCHANGED <<keys, mic, prog, duck>>

\* closeProgPc(): what connectProgram still waits for is answered to nobody; a
\* feed whose Location is known is given back to the server.
ClosedProg(p) ==
  [p EXCEPT !.pc = "none", !.loc = FALSE, !.old = @ \cup ({p.pc} \cap {"gather", "post"})]

\* (Variant) The retry is left running when the feed is stopped.
StoppedProgRetrying(p) == [ClosedProg(p) EXCEPT !.wanted = FALSE]

StoppedProg(p) == [ClosedProg(p) EXCEPT !.wanted = FALSE, !.retry = FALSE]
FailedProg(p) == [ClosedProg(p) EXCEPT !.retry = p.wanted]
ConnectedProg(p) == IF p.wanted /\ p.pc = "none" THEN [p EXCEPT !.pc = "gather"] ELSE p

\* stopMusic() without a word to the server.
StoppedMusic(x) ==
  [x EXCEPT !.tx = FALSE, !.pub = FALSE, !.track = @ /\ ~x.pub, !.hurt = FALSE]
MusicMsg(on) == [type |-> "music", on |-> on]

\* leave(): everything but what is still awaited somewhere.
Left(e, booting) ==
  /\ eng' = e
  /\ keys' = [keys EXCEPT !.held = {}, !.latched = {}]
  /\ mic' = [mic EXCEPT !.open = FALSE, !.idle = FALSE, !.boot = booting]
  /\ net' = Closed("none") /\ srv' = Forgotten
  /\ TeardownSession
  /\ LET x == StoppedMusic(DeadMusic) IN music' = x
  /\ prog' = StoppedProg(prog)
  /\ duck' = [on |-> FALSE, timer |-> FALSE]

-----------------------------------------------------------------------------
(* Joining and the socket.                                                 *)

Init ==
  /\ media \in {"mesh", "sfu"}
  /\ eng = [status |-> "idle", stopped |-> TRUE, welcomed |-> FALSE, failed |-> 0, timer |-> FALSE]
  /\ keys = [held |-> {}, latched |-> {}, listen |-> {}, channels |-> NoRights]
  /\ mic = [open |-> FALSE, boot |-> FALSE, press |-> FALSE, idle |-> FALSE, refused |-> FALSE]
  /\ net = Closed("none")
  /\ srv = [phase |-> "out", talk |-> {}, listen |-> {}, music |-> FALSE, told |-> NoRights,
            rights |-> [talk |-> Chans, music |-> media = "sfu"], lapsed |-> FALSE]
  /\ sfu = ClosedSfu
  /\ sync = NoSync
  /\ conn = NoConn
  /\ music = [tx |-> FALSE, pending |-> 0, leaked |-> FALSE, pub |-> FALSE, track |-> FALSE, jobs |-> {},
              hurt |-> FALSE]
  /\ \E h \in {b \in BOOLEAN : b => media = "mesh"} :
       mesh = [roster |-> "no", talks |-> FALSE, said |-> FALSE, blank |-> FALSE,
               pc |-> "none", first |-> FALSE, on |-> FALSE, here |-> h, speaks |-> FALSE, far |-> "none"]
  /\ prog = [wanted |-> FALSE, pc |-> "none", retry |-> FALSE, loc |-> FALSE, old |-> {}, lost |-> FALSE]
  /\ duck = [on |-> FALSE, timer |-> FALSE]
  /\ n = 0

\* The Join button (there only while idle or after an error): leave() first, then
\* the microphone.
Join ==
  /\ Event /\ eng.status \in {"idle", "error"}
  /\ Left([status |-> "connecting", stopped |-> FALSE, welcomed |-> FALSE, failed |-> 0,
           timer |-> FALSE], TRUE)
  /\ UNCHANGED media

Leave ==
  /\ Event /\ InSession
  /\ Left([eng EXCEPT !.status = "idle", !.stopped = TRUE, !.timer = FALSE], FALSE)
  /\ UNCHANGED media

Booted ==
  /\ mic.boot
  /\ mic' = [mic EXCEPT !.boot = FALSE, !.open = TRUE, !.refused = FALSE]
  /\ net' = Closed("opening")
  /\ UNCHANGED <<media, eng, keys, srv, sending, hearing, n>>

\* No microphone: the join ends with an error.
BootRefused ==
  /\ Event /\ mic.boot
  /\ mic' = [mic EXCEPT !.boot = FALSE]
  /\ eng' = [eng EXCEPT !.stopped = TRUE, !.status = "error"]
  /\ UNCHANGED <<media, keys, net, srv, sending, hearing>>

Opened ==
  /\ net.ws = "opening"
  /\ net' = [ws |-> "open", up |-> <<[type |-> "join"]>>, down |-> <<>>]
  /\ UNCHANGED <<media, eng, keys, mic, srv, sending, hearing, n>>

\* (Variant) A session that had been welcomed waits for the user to join again.
SocketClosesForGood ==
  /\ eng' = IF eng.welcomed THEN [eng EXCEPT !.status = "reconnecting"]
             ELSE IF eng.failed = 2 THEN [eng EXCEPT !.stopped = TRUE, !.status = "error", !.failed = 3]
             ELSE [eng EXCEPT !.status = "connecting", !.timer = TRUE, !.failed = @ + 1]
  /\ TeardownSession /\ music' = DeadMusic /\ net' = Closed("none") /\ srv' = Forgotten
  /\ UNCHANGED <<media, keys, mic, prog, duck>>

\* onclose of the current socket: a session that was welcomed is joined again, one
\* that never was is given up after three tries.
SocketCloses ==
  /\ eng' = IF eng.welcomed THEN [eng EXCEPT !.status = "reconnecting", !.timer = TRUE]
             ELSE IF eng.failed = 2 THEN [eng EXCEPT !.stopped = TRUE, !.status = "error", !.failed = 3]
             ELSE [eng EXCEPT !.status = "connecting", !.timer = TRUE, !.failed = @ + 1]
  /\ TeardownSession /\ music' = DeadMusic /\ net' = Closed("none") /\ srv' = Forgotten
  /\ UNCHANGED <<media, keys, mic, prog, duck>>

SocketDrops == Event /\ net.ws \in {"opening", "open", "lost"} /\ SocketCloses
SocketClosed == net.ws = "closing" /\ SocketCloses /\ UNCHANGED n

\* The network swallows everything, and no close frame comes.
NetLost ==
  /\ Event /\ net.ws = "open"
  /\ net' = Closed("lost") /\ srv' = Forgotten
  /\ UNCHANGED <<media, eng, keys, mic, sending, hearing>>

\* Nine seconds without a pong; pings are sent from the welcome on.
PongTimeout ==
  /\ net.ws = "lost" /\ eng.status = "connected"
  /\ net' = Closed("closing")
  /\ UNCHANGED <<media, eng, keys, mic, srv, sending, hearing, n>>

Retry ==
  /\ eng.timer
  /\ eng' = [eng EXCEPT !.timer = FALSE]
  /\ net' = IF eng.stopped THEN net ELSE Closed("opening")
  /\ UNCHANGED <<media, keys, mic, srv, sending, hearing, n>>

-----------------------------------------------------------------------------
(* The server's end of the session.                                        *)

Tell(w, m) == IF w.ws = "open" THEN [w EXCEPT !.down = Append(@, m)] ELSE w
Read(w) == [w EXCEPT !.up = Tail(@)]
WelcomeMsg(s, rights) == [type |-> "welcome", rights |-> rights, listen |-> s.listen,
                  here |-> mesh.here, talks |-> mesh.speaks]

\* join: the peer is registered at once; in SFU mode its welcome waits for a token,
\* with the rights as they were before.
HearJoin ==
  LET s == [srv EXCEPT !.phase = IF media = "sfu" THEN "token" ELSE "in",
                       !.told = IF media = "sfu" THEN srv.rights ELSE @, !.listen = Chans,
                       !.lapsed = ~srv.rights.music]
  IN /\ srv' = s
     /\ net' = IF media = "sfu" THEN Read(net) ELSE Tell(Read(net), WelcomeMsg(s, s.rights))
     /\ UNCHANGED mesh
TokenReady ==
  /\ srv.phase = "token"
  /\ srv' = [srv EXCEPT !.phase = "in", !.told = NoRights]
  /\ net' = Tell(net, WelcomeMsg(srv, srv.told))
  /\ UNCHANGED <<media, eng, keys, mic, sending, hearing, n>>

HearState(m) ==
  /\ srv' = [srv EXCEPT !.listen = m.listen, !.talk = m.talk \cap (srv.rights.talk \cup {"direct"})]
  /\ net' = Read(net) /\ UNCHANGED mesh
HearMusic(m) ==
  /\ srv' = IF srv.rights.music THEN [srv EXCEPT !.music = m.on] ELSE srv
  /\ net' = Read(net) /\ UNCHANGED mesh

\* A signal goes to the other participant, who answers an offer.
HearOffer ==
  /\ mesh' = IF mesh.here THEN [mesh EXCEPT !.far = "linked"] ELSE mesh
  /\ net' = IF mesh.here THEN Tell(Read(net), [type |-> "answer"]) ELSE Read(net)
  /\ UNCHANGED srv
HearAnswer ==
  /\ mesh' = [mesh EXCEPT !.far = IF @ = "offered" THEN "linked" ELSE @]
  /\ net' = Read(net) /\ UNCHANGED srv

ServerHears ==
  /\ net.ws = "open" /\ net.up # <<>>
  /\ LET m == Head(net.up) IN
       \/ srv.phase = "out" /\ m.type # "join" /\ net' = Read(net) /\ UNCHANGED <<srv, mesh>>
       \/ m.type = "join" /\ HearJoin
       \/ srv.phase # "out" /\ m.type = "state" /\ HearState(m)
       \/ srv.phase # "out" /\ m.type = "music" /\ HearMusic(m)
       \/ srv.phase # "out" /\ m.type = "offer" /\ HearOffer
       \/ srv.phase # "out" /\ m.type = "answer" /\ HearAnswer
  /\ UNCHANGED <<media, eng, keys, mic, sending, prog, duck, n>>

\* An admin changes the account's rights: refreshAll() clamps and tells the client.
Edit(r) ==
  /\ Event /\ srv.phase # "out" /\ r # srv.rights
  /\ LET s == [srv EXCEPT !.rights = r, !.lapsed = @ \/ ~r.music, !.music = @ /\ r.music,
                          !.talk = @ \cap (r.talk \cup {"direct"})]
     IN /\ srv' = s
        /\ net' = Tell(net, [type |-> "directory", rights |-> r, listen |-> s.listen])
  /\ UNCHANGED <<media, eng, keys, mic, sending, hearing>>

\* An admin removes the user, or the account signs in elsewhere.
Kick ==
  /\ Event /\ srv.phase = "in"
  /\ net' = Tell(net, [type |-> "error"]) /\ srv' = Forgotten
  /\ UNCHANGED <<media, eng, keys, mic, sending, hearing>>

-----------------------------------------------------------------------------
(* Messages from the server: onMessage().                                  *)

Got(w) == [w EXCEPT !.down = Tail(@)]

\* welcome: adopt the rights, forget held keys, say what is latched, start media.
Welcome(m) ==
  LET k == [keys EXCEPT !.held = {}, !.listen = m.listen, !.channels = m.rights]
      e == IF media = "mesh" /\ m.here
             THEN [mesh EXCEPT !.roster = "peer", !.talks = m.talks, !.said = m.talks, !.blank = FALSE,
                               !.pc = "offering", !.first = TRUE]
             ELSE mesh
  IN /\ ApplyRouting(k, [sfu EXCEPT !.room = IF media = "sfu" THEN "connecting" ELSE @], e)
     /\ net' = Sent(Got(net), StateMsg(k))
     /\ eng' = [eng EXCEPT !.status = "connected", !.welcomed = TRUE, !.failed = 0]
     /\ conn' = IF media = "sfu" THEN [at |-> "room", wait |-> 0] ELSE conn
     /\ prog' = IF media = "mesh" /\ ~prog.wanted
                  THEN ConnectedProg([prog EXCEPT !.wanted = TRUE]) ELSE prog
     /\ UNCHANGED <<srv, sync, music>>

\* (Variant) The keys of channels that were taken away are dropped, but nothing is routed.
AdoptUnrouted(m) ==
  LET may == m.rights.talk \cup {"direct"}
  IN /\ keys' = [held |-> keys.held \cap may, latched |-> keys.latched \cap may,
                 listen |-> m.listen, channels |-> m.rights]
     /\ music' = IF m.rights.music THEN music ELSE StoppedMusic(music)
     /\ sync' = IF media = "sfu" THEN [sync EXCEPT !.waiting = @ + 1] ELSE sync
     /\ net' = Got(net)
     /\ UNCHANGED <<eng, mic, srv, sfu, conn, mesh, prog, duck>>

\* directory: the server's view of my rights replaces mine.
Adopt(m) ==
  LET may == m.rights.talk \cup {"direct"}
      k == [held |-> keys.held \cap may, latched |-> keys.latched \cap may,
            listen |-> m.listen, channels |-> m.rights]
  IN /\ ApplyRouting(k, sfu, mesh)
     /\ music' = IF m.rights.music THEN music ELSE StoppedMusic(music)
     /\ sync' = IF media = "sfu" THEN [sync EXCEPT !.waiting = @ + 1] ELSE sync
     /\ net' = Got(net)
     /\ UNCHANGED <<eng, srv, conn, prog>>

\* peer-join, peer-leave (which leaves the ducking alone) and peer-state.
PeerJoins ==
  /\ mesh' = [Silent(mesh) EXCEPT !.roster = "pending"]
  /\ net' = Got(net)
  /\ UNCHANGED <<eng, keys, mic, srv, sending, prog, duck>>
PeerLeaves ==
  /\ mesh' = [Silent(mesh) EXCEPT !.roster = "no", !.pc = "none", !.on = FALSE]
  /\ net' = Got(net)
  /\ UNCHANGED <<eng, keys, mic, srv, sending, prog, duck>>
PeerState(m) ==
  /\ ApplyRouting(keys, sfu, LET t == m.talks /\ mesh.roster # "no"
                             IN [mesh EXCEPT !.talks = t, !.said = t, !.blank = FALSE])
  /\ net' = Got(net)
  /\ UNCHANGED <<eng, srv, sync, conn, music, prog>>

\* onSignal(): an offer replaces the link, an answer completes mine.  Who has a link
\* already is no longer in pendingInfo: its roster entry is replaced by a blank one.
GotOffer ==
  /\ LET known == mesh.roster = "pending" IN
       ApplyRouting(keys, sfu, [mesh EXCEPT !.roster = "peer", !.pc = "linked", !.first = FALSE,
                                            !.talks = @ /\ known, !.blank = @ \/ ~known])
  /\ net' = Signal(Got(net), [type |-> "answer"])
  /\ UNCHANGED <<eng, srv, sync, conn, music, prog>>
GotAnswer ==
  /\ mesh' = [mesh EXCEPT !.pc = IF @ = "offered" THEN "linked" ELSE @]
  /\ net' = Got(net)
  /\ UNCHANGED <<eng, keys, mic, srv, sending, prog, duck>>

Hear ==
  /\ net.ws = "open" /\ net.down # <<>>
  /\ LET m == Head(net.down) IN
       \/ m.type = "welcome" /\ Welcome(m)
       \/ m.type = "directory" /\ Adopt(m)
       \/ m.type = "error" /\ Fatal
       \/ m.type = "peer-join" /\ PeerJoins
       \/ m.type = "peer-leave" /\ PeerLeaves
       \/ m.type = "peer-state" /\ PeerState(m)
       \/ m.type = "offer" /\ GotOffer
       \/ m.type = "answer" /\ GotAnswer
  /\ UNCHANGED <<media, n>>

-----------------------------------------------------------------------------
(* Talk keys and the microphone.                                           *)

MayTalk(t) == t = "direct" \/ t \in keys.channels.talk

Pushed(k) == PushState(k) /\ UNCHANGED <<media, eng, srv, sync, conn, music, prog>>

Press(t) ==
  /\ Event /\ InSession /\ MayTalk(t) /\ t \notin keys.held
  /\ Pushed([keys EXCEPT !.held = @ \cup {t}])
Release(t) ==
  /\ InSession /\ t \in keys.held
  /\ Pushed([keys EXCEPT !.held = @ \ {t}]) /\ UNCHANGED n
\* The window loses the focus.
ReleaseAll == keys.held # {} /\ Pushed([keys EXCEPT !.held = {}]) /\ UNCHANGED n
ToggleLatch(t) ==
  /\ Event /\ InSession /\ MayTalk(t)
  /\ Pushed([keys EXCEPT !.latched = (@ \ {t}) \cup ({t} \ @)])
SetListen(c) ==
  /\ Event /\ InSession
  /\ Pushed([keys EXCEPT !.listen = (@ \ {c}) \cup ({c} \ @)])

\* The device is there: nobody asks whether a key is still down.  After leave() there
\* is no audio context any more and the stream is stopped.
MicOpened ==
  /\ mic.press
  /\ mic' = [mic EXCEPT !.press = FALSE, !.refused = FALSE,
                        !.open = (eng.status # "idle")]
  /\ UNCHANGED <<media, eng, keys, net, srv, sending, hearing, n>>
MicRefused ==
  /\ Event /\ mic.press
  /\ mic' = [mic EXCEPT !.press = FALSE, !.refused = TRUE]
  /\ UNCHANGED <<media, eng, keys, net, srv, sending, hearing>>
MicLingered ==
  /\ mic.idle
  /\ mic' = [mic EXCEPT !.idle = FALSE, !.open = @ /\ TalkSet(keys) # {}]
  /\ UNCHANGED <<media, eng, keys, net, srv, sending, hearing, n>>

-----------------------------------------------------------------------------
(* The media server's room: connectSfu().                                  *)

Outstanding == sync.waiting + (IF sync.busy THEN 1 ELSE 0)

RoomConnected ==
  /\ conn.at = "room"
  /\ sfu' = [sfu EXCEPT !.room = "up"]
  /\ conn' = [at |-> "sync", wait |-> Outstanding + 1]
  /\ sync' = [sync EXCEPT !.waiting = @ + 1]
  /\ UNCHANGED <<media, client, srv, music, hearing, n>>
RoomRefused == Event /\ conn.at = "room" /\ Fatal /\ UNCHANGED media

\* publishMusic() up to its first await; with the room not up it does nothing.
PublishMusic(x, from) ==
  IF sfu.room = "up" THEN [x EXCEPT !.jobs = @ \cup {[live |-> TRUE, from |-> from]}, !.hurt = FALSE]
                     ELSE [x EXCEPT !.hurt = sfu.room = "stalled"]
Announced(x, w) == IF x.jobs = music.jobs THEN Sent(w, MusicMsg(TRUE)) ELSE w

\* (Variant) Music that was on is not published again in the new room.
ConnSyncedSilent ==
  /\ conn.at = "sync" /\ conn.wait = 0
  /\ conn' = NoConn
  /\ UNCHANGED <<media, client, srv, sfu, sync, music, hearing, n>>

\* The tracks are synced: what music was playing is published and announced again.
ConnSynced ==
  /\ conn.at = "sync" /\ conn.wait = 0
  /\ IF music.tx
       THEN LET x == PublishMusic([music EXCEPT !.pub = FALSE], "conn")
            IN /\ music' = x /\ net' = Announced(x, net)
               /\ conn' = [conn EXCEPT !.at = IF x.jobs = music.jobs THEN "none" ELSE "music"]
       ELSE conn' = NoConn /\ UNCHANGED <<music, net>>
  /\ UNCHANGED <<media, eng, keys, mic, srv, sfu, sync, hearing, n>>

\* LiveKit tries by itself for eight seconds, then the whole session is joined again.
CloseWs(w) == IF w.ws \in {"open", "lost"} THEN Closed("closing") ELSE w
RoomStalls ==
  /\ Event /\ sfu.room = "up"
  /\ sfu' = [sfu EXCEPT !.room = "stalled"]
  /\ UNCHANGED <<media, client, srv, sync, conn, music, hearing>>
RoomBack ==
  /\ sfu.room = "stalled"
  /\ sfu' = [sfu EXCEPT !.room = "up"]
  /\ UNCHANGED <<media, client, srv, sync, conn, music, hearing, n>>
StallTimeout ==
  /\ sfu.room = "stalled" /\ net.ws \in {"open", "lost"}
  /\ net' = CloseWs(net)
  /\ UNCHANGED <<media, eng, keys, mic, srv, sending, hearing, n>>
RoomGone ==
  /\ Event /\ sfu.room \in {"up", "stalled"}
  /\ sfu' = [sfu EXCEPT !.room = "gone", !.tracks = {}]
  /\ music' = [music EXCEPT !.track = FALSE]
  /\ net' = CloseWs(net)
  /\ UNCHANGED <<media, eng, keys, mic, srv, sync, conn, hearing>>

-----------------------------------------------------------------------------
(* syncSfuTracks(): one call after the other, each with its own room.      *)

Awaited == [conn EXCEPT !.wait = IF @ > 0 THEN @ - 1 ELSE 0]

SyncStart ==
  /\ ~sync.busy /\ sync.waiting > 0
  /\ LET want == {"direct"} \cup keys.channels.talk IN
       IF sfu.room = "up"
         THEN /\ sync' = [busy |-> TRUE, live |-> TRUE, want |-> want, drop |-> sfu.gains \ want,
                          cur |-> {}, waiting |-> sync.waiting - 1]
              /\ UNCHANGED <<sfu, conn>>
         ELSE /\ sync' = [sync EXCEPT !.waiting = @ - 1]
              /\ sfu' = [sfu EXCEPT !.hurt = @ \/ sfu.room = "stalled"]
              /\ conn' = Awaited
  /\ UNCHANGED <<media, client, srv, music, hearing, n>>

\* An unpublish that was awaited is done (a failing one is ignored).
SyncUnpublished(x) ==
  /\ sync.busy /\ x \in sync.drop
  /\ sync' = [sync EXCEPT !.drop = @ \ {x}]
  /\ sfu' = [sfu EXCEPT !.gains = @ \ {x}, !.hot = @ \ {x},
                        !.tracks = IF sync.live THEN @ \ {x} ELSE @]
  /\ UNCHANGED <<media, client, srv, conn, music, hearing, n>>

\* The gain is in the map before its track is published, direct first.
SyncAdds(x) ==
  /\ sync.busy /\ sync.drop = {} /\ sync.cur = {} /\ x \in sync.want \ sfu.gains
  /\ x = "direct" \/ "direct" \in sfu.gains
  /\ sync' = [sync EXCEPT !.cur = {x}]
  /\ sfu' = [sfu EXCEPT !.gains = @ \cup {x}, !.hurt = @ \/ ~sync.live]
  /\ UNCHANGED <<media, client, srv, conn, music, hearing, n>>
SyncPublished ==
  /\ sync.cur # {} /\ sync.live /\ sfu.room = "up"
  /\ sync' = [sync EXCEPT !.cur = {}]
  /\ sfu' = [sfu EXCEPT !.tracks = @ \cup sync.cur]
  /\ UNCHANGED <<media, client, srv, conn, music, hearing, n>>
\* A room that is gone refuses; one that is there may.
SyncFails ==
  /\ sync.cur # {}
  /\ IF sync.live /\ sfu.room # "gone" THEN Event ELSE UNCHANGED n
  /\ sync' = [NoSync EXCEPT !.waiting = sync.waiting]
  /\ sfu' = [sfu EXCEPT !.hurt = @ \/ sync.live]
  /\ conn' = Awaited
  /\ UNCHANGED <<media, client, srv, music, hearing>>
\* (Variant) The new tracks are not routed.
SyncEndsUnrouted ==
  /\ sync.busy /\ sync.drop = {} /\ sync.cur = {} /\ sync.want \subseteq sfu.gains
  /\ sync' = [NoSync EXCEPT !.waiting = sync.waiting]
  /\ conn' = Awaited
  /\ UNCHANGED <<media, client, srv, sfu, music, hearing, n>>

SyncEnds ==
  /\ sync.busy /\ sync.drop = {} /\ sync.cur = {} /\ sync.want \subseteq sfu.gains
  /\ sync' = [NoSync EXCEPT !.waiting = sync.waiting]
  /\ conn' = Awaited
  /\ IF sync.live THEN ApplyRouting(keys, sfu, mesh) ELSE UNCHANGED <<keys, sfu, mesh, mic, duck>>
  /\ UNCHANGED <<media, eng, net, srv, music, prog, n>>

Syncing ==
  \/ SyncStart \/ SyncPublished \/ SyncFails \/ SyncEnds
  \/ \E x \in Names : SyncUnpublished(x) \/ SyncAdds(x)

-----------------------------------------------------------------------------
(* Music sent on a channel.                                                *)

\* START: the capture is asked for; what was sent before ends without a word.
StartMusic ==
  /\ Event /\ InSession /\ keys.channels.music /\ ~music.tx /\ music.pending < 2
  /\ music' = [StoppedMusic(music) EXCEPT !.pending = @ + 1]
  /\ srv' = [srv EXCEPT !.lapsed = ~srv.rights.music]
  /\ UNCHANGED <<media, client, sfu, sync, conn, hearing>>

\* The capture is there, whatever happened meanwhile: the map entry is replaced, and
\* publishing starts (or is skipped when the room is not up).
CaptureReady ==
  /\ music.pending > 0
  /\ LET x == PublishMusic([music EXCEPT !.pending = @ - 1, !.leaked = @ \/ music.tx, !.tx = TRUE],
                           "start")
     IN music' = x /\ net' = Announced(x, net)
  /\ UNCHANGED <<media, eng, keys, mic, srv, sfu, sync, conn, hearing, n>>
CaptureRefused ==
  /\ music.pending > 0
  /\ music' = [music EXCEPT !.pending = @ - 1]
  /\ UNCHANGED <<media, client, srv, sfu, sync, conn, hearing, n>>

\* publishMusic() has its answer, and whoever called it announces the music.
MusicPublished(j) ==
  /\ j \in music.jobs /\ j.live /\ sfu.room = "up"
  /\ music' = [music EXCEPT !.jobs = @ \ {j}, !.pub = TRUE, !.track = TRUE]
  /\ net' = Sent(net, MusicMsg(TRUE))
  /\ conn' = IF j.from = "conn" THEN NoConn ELSE conn
  /\ UNCHANGED <<media, eng, keys, mic, srv, sfu, sync, hearing, n>>
\* It fails (surely in a room that is gone): the music is stopped, and yet announced.
MusicFails(j) ==
  /\ j \in music.jobs
  /\ IF j.live /\ sfu.room # "gone" THEN Event ELSE UNCHANGED n
  /\ music' = [StoppedMusic(music) EXCEPT !.jobs = @ \ {j}]
  /\ net' = Sent(IF music.tx THEN Sent(net, MusicMsg(FALSE)) ELSE net, MusicMsg(TRUE))
  /\ conn' = IF j.live /\ j.from = "conn" THEN NoConn ELSE conn
  /\ UNCHANGED <<media, eng, keys, mic, srv, sfu, sync, hearing>>

\* STOP, or the share is ended from the browser's own bar.
StopMusic ==
  /\ Event /\ music.tx
  /\ music' = StoppedMusic(music)
  /\ net' = Sent(net, MusicMsg(FALSE))
  /\ UNCHANGED <<media, eng, keys, mic, srv, sfu, sync, conn, hearing>>

Musical == \/ CaptureReady \/ CaptureRefused
           \/ \E j \in Jobs : MusicPublished(j) \/ MusicFails(j)

-----------------------------------------------------------------------------
(* The mesh link to the other participant.                                 *)

MakeOffer ==
  /\ mesh.pc = "offering"
  /\ mesh' = [mesh EXCEPT !.pc = "offered"]
  /\ net' = Signal(net, [type |-> "offer"])
  /\ UNCHANGED <<media, eng, keys, mic, srv, sending, prog, duck, n>>

\* A failed link is rebuilt, and only its initiator offers again.
PcFails ==
  /\ mesh.pc = "broken"
  /\ IF mesh.first THEN mesh' = Wired([mesh EXCEPT !.pc = "offering"], keys)
                   ELSE mesh' = [mesh EXCEPT !.pc = "none", !.roster = "pending", !.on = FALSE]
  /\ UNCHANGED <<media, client, srv, sending, prog, duck, n>>

\* The other participant: comes (and then offers, as the newcomer), talks on the IFB
\* channel, leaves without a word; links break at both ends.
Other(e, m) ==
  /\ mesh' = e
  /\ net' = IF srv.phase = "in" /\ m # <<>> THEN Tell(net, m[1]) ELSE net
  /\ UNCHANGED <<media, eng, keys, mic, srv, sending, prog, duck>>
OtherComes ==
  /\ Event /\ media = "mesh" /\ ~mesh.here
  /\ Other([mesh EXCEPT !.here = TRUE, !.far = IF srv.phase = "in" THEN "offering" ELSE "none"],
           <<[type |-> "peer-join"]>>)
OtherOffers ==
  /\ mesh.far = "offering"
  /\ Other([mesh EXCEPT !.far = "offered"], <<[type |-> "offer"]>>) /\ UNCHANGED n
OtherSpeaks ==
  /\ Event /\ mesh.here
  /\ Other([mesh EXCEPT !.speaks = ~@], <<[type |-> "peer-state", talks |-> ~mesh.speaks]>>)
OtherLeaves ==
  /\ Event /\ mesh.here
  /\ mesh' = [mesh EXCEPT !.here = FALSE, !.speaks = FALSE, !.far = "none"]
  /\ LET w == [net EXCEPT !.up = SelectSeq(@, LAMBDA m : m.type \notin {"offer", "answer"})]
     IN net' = IF srv.phase = "in" THEN Tell(w, [type |-> "peer-leave"]) ELSE w
  /\ UNCHANGED <<media, eng, keys, mic, srv, sending, prog, duck>>
LinkBreaks ==
  /\ Event /\ mesh.pc = "linked" /\ mesh.far = "linked"
  /\ Other([mesh EXCEPT !.pc = "broken", !.far = "broken"], <<>>)
FarFails ==
  /\ mesh.far = "broken"
  /\ Other([mesh EXCEPT !.far = IF mesh.first THEN "none" ELSE "offering"], <<>>) /\ UNCHANGED n

-----------------------------------------------------------------------------
(* Program feed and ducking.                                               *)

Feed(p) == prog' = p /\ UNCHANGED <<media, client, srv, sending, mesh, duck>>

Gathered == prog.pc = "gather" /\ Feed([prog EXCEPT !.pc = "post"]) /\ UNCHANGED n
WhepAnswers ==
  prog.pc = "post" /\ Feed([prog EXCEPT !.pc = "live", !.loc = TRUE]) /\ UNCHANGED n
\* The feed is refused (not on air), fails or stalls: again in three seconds.
FeedFails == Event /\ prog.pc \in {"post", "live"} /\ Feed(FailedProg(prog))
FeedRetries == prog.retry /\ Feed(ConnectedProg([prog EXCEPT !.retry = FALSE])) /\ UNCHANGED n
\* A connection that was closed meanwhile: its offer may still be posted, and the
\* answer's Location is then dropped.
OldGathered ==
  /\ "gather" \in prog.old
  /\ \E posted \in BOOLEAN :
       Feed([prog EXCEPT !.old = (@ \ {"gather"}) \cup (IF posted THEN {"post"} ELSE {})])
  /\ UNCHANGED n
OldAnswered ==
  /\ "post" \in prog.old
  /\ \E made \in BOOLEAN :
       Feed([prog EXCEPT !.old = @ \ {"post"}, !.lost = @ \/ made])
  /\ UNCHANGED n

DuckReleased ==
  /\ duck.timer
  /\ duck' = [on |-> FALSE, timer |-> FALSE]
  /\ UNCHANGED <<media, client, srv, sending, mesh, prog, n>>

Feeding == \/ Gathered \/ WhepAnswers \/ FeedRetries \/ OldGathered \/ OldAnswered
           \/ DuckReleased

-----------------------------------------------------------------------------
Socket == \/ Opened \/ SocketClosed \/ PongTimeout \/ Retry
          \/ ServerHears \/ TokenReady \/ Hear
Room == RoomConnected \/ ConnSynced \/ RoomBack \/ StallTimeout
Linking == MakeOffer \/ PcFails \/ OtherOffers \/ FarFails
Microphone == MicOpened \/ MicLingered
System == Booted \/ Socket \/ Room \/ Syncing \/ Musical \/ Linking \/ Feeding \/ Microphone

User ==
  \/ Join \/ Leave \/ StartMusic \/ StopMusic \/ ReleaseAll
  \/ \E t \in Names : Press(t) \/ Release(t) \/ ToggleLatch(t)
  \/ \E c \in Chans : SetListen(c)
Outside ==
  \/ BootRefused \/ SocketDrops \/ NetLost \/ Kick \/ MicRefused
  \/ RoomRefused \/ RoomStalls \/ RoomGone
  \/ OtherComes \/ OtherSpeaks \/ OtherLeaves \/ LinkBreaks \/ FeedFails
  \/ \E r \in Rights : media = "sfu" /\ Edit(r)

Next == System \/ User \/ Outside

Spec == Init /\ [][Next]_vars

\* What the event loop, the server and the media server have under way goes on to its
\* end; nothing makes users, admins or the network do anything.
FairSpec == Spec /\ WF_vars(System)

-----------------------------------------------------------------------------
(* Properties.                                                             *)

\* Nobody is heard where no key is down: a published track carries the microphone
\* only while its channel is held or latched, in the mesh the other participant's link
\* only while some key is, whatever happened to rights, rooms and tracks meanwhile.
HotOnlyWhileKeyed ==
  sfu.hot \subseteq TalkSet(keys) /\ (mesh.on => TalkSet(keys) # {})

\* A lit talk key always has the microphone open, or on its way (unless it was
\* refused): the 1.2 s release never takes it from a key pressed again meanwhile.
KeyedIsFed == InSession /\ TalkSet(keys) # {} /\ ~mic.refused => mic.open \/ mic.press

\* Once the room is joined and no sync is left, exactly the channels the account may
\* talk on, and direct, are published, and those that are keyed are on.  (hurt: a
\* publish failed, or one of the three ways below made a sync do nothing.)
Synced == sfu.room = "up" /\ conn.at = "none" /\ ~sync.busy /\ sync.waiting = 0
PublishedAsAllowed ==
  Synced /\ ~sfu.hurt =>
    /\ sfu.tracks = {"direct"} \cup keys.channels.talk
    /\ sfu.hot = sfu.tracks \cap TalkSet(keys)

\* comms.ts:985, "the server forgot my music state with the old session: publish again
\* and re-announce": music that is on is published and announced in every session it
\* lives through, whatever rooms, stalls, refusals and edits it met before.  Two things
\* leave it on and silent: an account that was without the right to send music since
\* START or since the session began, however briefly (srv.lapsed), and a publish that
\* found the room stalled and did nothing (music.hurt), until the next publish or STOP.
MusicAtRest == /\ Synced /\ music.tx /\ music.jobs = {}
               /\ net.ws = "open" /\ srv.phase = "in" /\ net.up = <<>>
MusicIsRestored == MusicAtRest /\ ~srv.lapsed /\ ~music.hurt => music.track /\ srv.music

\* comms/README.md:19, "while anyone talks on an IFB channel a user listens to, that user's
\* program feed ducks": at once and as long as the server says that he talks; the release of
\* an earlier duck never brings the program back under him.  The exception is an entry in the
\* roster that a renewed offer made blank (comms.ts:769), until he is heard of again.
IfbCutsThrough ==
  eng.status = "connected" /\ mesh.roster # "no" /\ mesh.said /\ keys.listen # {} =>
    duck.on \/ mesh.blank

\* A feed has one connection or one retry under way, never both, and none after leave().
OneFeed == /\ ~(prog.retry /\ prog.pc # "none")
           /\ (eng.status = "idle" => ~prog.wanted /\ prog.pc = "none" /\ ~prog.retry)

\* The client always comes back: unless the user left, it was turned away, or it went
\* deaf before its welcome (when it sends no pings), it ends up connected with its
\* room and feed, and in the mesh linked to whoever is there.
Deaf == net.ws = "lost" /\ eng.status # "connected"
ComesBack ==
  <>[](\/ eng.status \in {"idle", "error"} \/ Deaf
       \/ /\ eng.status = "connected" /\ net.ws = "open"
          /\ media = "sfu" => Synced
          /\ media = "mesh" => /\ prog.pc = "live"
                               /\ mesh.here => mesh.pc = "linked" /\ mesh.far = "linked")

-----------------------------------------------------------------------------
(* What the code does not keep; see the README. *)

\* The microphone is closed, or about to be, when no key is down (comms.ts:358).
MicIdles == eng.status = "connected" /\ TalkSet(keys) = {} => ~mic.open \/ mic.idle

\* When everything said has been heard, the server has the keys and channels I have.
SettledSession == net.ws = "open" /\ srv.phase = "in" /\ net.up = <<>> /\ net.down = <<>>
AnnouncedIsKeyed ==
  SettledSession /\ eng.status = "connected" =>
    srv.talk = TalkSet(keys) /\ srv.listen = keys.listen /\ srv.rights = keys.channels

\* Synced tracks are the right ones even when something went wrong meanwhile.
TracksHeal == Synced => sfu.tracks = {"direct"} \cup keys.channels.talk

\* Music that is off is neither published nor announced, and no capture is forgotten.
OffIsOff ==
  Synced /\ SettledSession /\ ~music.tx /\ music.jobs = {} =>
    ~music.track /\ ~srv.music /\ ~music.leaked

\* Music that is on is heard, also if its publish met a stall (comms.ts:1302).
MusicSurvivesStalls == MusicAtRest /\ ~srv.lapsed => music.track /\ srv.music

\* Nobody sends music whose right was taken (comms.ts:658).
NoMusicWithoutRight ==
  eng.status = "connected" /\ net.down = <<>> /\ ~keys.channels.music => ~music.tx

\* An IFB talker is over the program as long as the server says that he talks.
IfbStaysOver ==
  eng.status = "connected" /\ mesh.roster # "no" /\ mesh.said /\ keys.listen # {} => duck.on

\* Once the IFB talker is gone the program comes back up.
DuckEnds == mesh.roster = "no" => ~duck.on \/ duck.timer

\* Every feed the program server made for us is given back to it.
FeedsAreReturned == ~prog.lost
=============================================================================
