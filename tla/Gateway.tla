------------------------------- MODULE Gateway -------------------------------
(***************************************************************************)
(* The comms gateway: its page (src/App.tsx) keeps the audio graph of      *)
(* GatewayRuntime (src/ports.ts) in step with the settings and with the    *)
(* intercom connection; the graph's ports key their channels by voice, or  *)
(* send music; the main process (electron/main.ts, asio.ts, rtp.ts) holds  *)
(* the RTP sockets and the helper process that owns the ASIO driver.       *)
(*                                                                         *)
(* Building the graph awaits drivers, devices and sockets.  Meanwhile the  *)
(* user edits, disconnects and connects again, the session comes and goes, *)
(* and the 20 ms voice tick of the former graph runs on.                   *)
(***************************************************************************)
EXTENDS Naturals, FiniteSets, FiniteSetsExt

CONSTANTS
  NPorts,        \* ports are numbered in the order of the settings
  Chans,         \* party lines
  Interfaces,    \* ASIO interfaces
  PortSettings,  \* what a port may be set to: [chan, source, stereo]
  None,
  MaxGraphEvents      \* bound: what users, admins and the network do

Ports == 1..NPorts
Off == [source |-> "off"]

ASSUME GatewayAssumption ==
  /\ NPorts \in Nat \ {0} /\ MaxGraphEvents \in Nat
  /\ PortSettings \subseteq [chan : Chans, source : {"device", "asio", "rtp"}, stereo : BOOLEAN]

VARIABLES
  settings,  \* cfg of the page
  g,         \* the engine, the runtime, the build under way and the main process
  events     \* how many there were

graphVars == <<settings, g, events>>

PageSettings == [asio : Interfaces \cup {None}, ports : [Ports -> PortSettings \cup {Off}]]
NoPort == [open |-> FALSE]
WiredPorts == [set : PortSettings, voice : BOOLEAN, node : BOOLEAN, open : BOOLEAN]
AllPorts == [Ports -> WiredPorts \cup {NoPort}]
DeviceKeys == [asio : Interfaces \cup {None}, device : BOOLEAN]
NoneWired == [p \in Ports |-> NoPort]

\* The engine's music: what it says it sends (musicTx), what is published in the media
\* server's room, that room, and (history) what a stall of the room kept from it.
Mixes == [sending : SUBSET Chans, published : SUBSET Chans, muted : SUBSET Chans,
          room : {"none", "joining", "up", "stalled"}]
NoMix(room) == [sending |-> {}, published |-> {}, muted |-> {}, room |-> room]

Graphs ==
  [\* the engine
   status : {"idle", "connected", "reconnecting", "error"},
   rights : [Chans -> {"talk", "music", "both", "none"}],
   held : SUBSET Chans, mix : Mixes, tx : SUBSET Chans,
   \* the runtime
   built : PageSettings \cup {None}, dev : DeviceKeys \cup {None},
   timer : BOOLEAN, streams : BOOLEAN, sinks : BOOLEAN, asio : {"none", "failed", "open"},
   ports : AllPorts, pending : PageSettings \cup {None},
   \* build() under way: what it awaits, for which settings, the ports it keeps
   at : {"none", "list", "open", "media", "in", "out", "worklet", "rtp"},
   cfg : PageSettings \cup {None}, keep : AllPorts, next : 0..NPorts,
   \* the main process
   slot : Interfaces \cup {None}, dying : SUBSET Interfaces,
   rtp : [Ports -> {"closed", "opening", "open"}],
   \* (history) what the properties leave out
   over : BOOLEAN, torn : BOOLEAN, leaked : SUBSET Ports, stuck : SUBSET Chans]
GraphTypeOK == settings \in PageSettings /\ g \in Graphs /\ events \in 0..MaxGraphEvents

Happens == events < MaxGraphEvents /\ events' = events + 1

Active(cfg) == {p \in Ports : cfg.ports[p] # Off}
Wired(x) == {p \in Ports : x.ports[p] # NoPort}
DeviceKey(cfg) ==
  [asio |-> cfg.asio, device |-> \E p \in Active(cfg) : cfg.ports[p].source = "device"]
TxOf(cfg) == {cfg.ports[p].chan : p \in Active(cfg)}

MayTalk(k) == k \in {"talk", "music", "both"}   \* canTalk, whatever the channel carries
MayPlay(k) == k \in {"music", "both"}
\* Stereo ports send music: by choice, or because the channel has no voice.
IsStereo(s, x) == s.stereo \/ x.rights[s.chan] = "music"

-----------------------------------------------------------------------------
(* Music in the engine.                                                    *)

StopMusic(m, C) ==
  [m EXCEPT !.sending = @ \ C, !.published = @ \ C, !.muted = @ \ C]
\* startMusic() with its publishMusic(), which does nothing unless the room is up.
StartMusic(m, C) ==
  [m EXCEPT !.sending = @ \cup C,
            !.published = IF m.room = "up" THEN @ \cup C ELSE @ \ C,
            !.muted = IF m.room = "stalled" THEN @ \cup C ELSE @ \ C]
\* connectSfu(): the room is joined, and what the engine sends is published in it.
Joined(m) == [m EXCEPT !.room = "up", !.published = m.sending, !.muted = {}]
LeftRoom(m) == [m EXCEPT !.room = "none", !.published = {}, !.muted = {}]

-----------------------------------------------------------------------------
(* What the methods of the runtime compute, on the state x they change.    *)

\* The channels whose keys the ports of S let go.
ReleasedTooLate(x, S) ==  \* (Variant) `open` is reset before it is looked at
  {}
Released(x, S) == {x.ports[p].set.chan : p \in {q \in S : x.ports[q].open}}

\* teardownPort(): the key, the music and the socket of each port of S.
TeardownPorts(x, S) ==
  LET live  == S \cap Wired(x)
      music == {p \in live : IsStereo(x.ports[p].set, x)}
      keyed == Released(x, live)
      rtp   == {p \in live : x.ports[p].set.source = "rtp"}
  IN [x EXCEPT !.ports = [p \in Ports |-> IF p \in S THEN NoPort ELSE @[p]],
               !.held = @ \ keyed, !.stuck = @ \ keyed,
               !.mix = StopMusic(@, {x.ports[p].set.chan : p \in music}),
               !.rtp = [p \in Ports |-> IF p \in rtp /\ @[p] = "open" THEN "closed" ELSE @[p]],
               !.leaked = @ \cup {p \in rtp : x.rtp[p] = "opening"}]

TeardownDevices(x) ==
  LET known == x.asio # "none"   \* only what asioInfo knows of is closed
  IN [x EXCEPT !.streams = FALSE, !.sinks = FALSE, !.asio = "none", !.dev = None,
               !.slot = IF known THEN None ELSE @,
               !.dying = IF known /\ x.slot # None THEN @ \cup {x.slot} ELSE @]

TeardownLeavingDevices(x) ==  \* (Variant) the devices stay open for the next connection
  [TeardownPorts(x, Ports) EXCEPT !.timer = FALSE, !.pending = None, !.built = None,
                                  !.torn = x.at # "none"]
Teardown(x) ==
  [TeardownDevices(TeardownPorts(x, Ports)) EXCEPT
     !.timer = FALSE, !.pending = None, !.built = None, !.torn = x.at # "none"]

\* The synchronous part of wirePort(); a stereo mix needs its interface.
NewPort(x, s) ==
  [set |-> s, voice |-> ~IsStereo(s, x), open |-> FALSE,
   node |-> IsStereo(s, x) /\ s.source = "asio" /\ x.asio = "open"]

\* The music of the ports that were added, and the end of build().
Started(x, S) ==
  {c \in Chans : /\ x.status # "idle" /\ MayPlay(x.rights[c])
                 /\ \E p \in S : x.ports[p].set.chan = c /\ x.ports[p].node}
Done(x) ==
  [x EXCEPT !.at = "none", !.timer = TRUE, !.cfg = None, !.keep = NoneWired, !.next = 0,
            !.mix = StartMusic(@, Started(x, {p \in Wired(x) : x.keep[p] = NoPort}))]

\* The loop of buildPorts() from port k on, up to the next socket it awaits.
Wire(x, k) ==
  LET awaited == {p \in k..NPorts : /\ p \in Active(x.cfg) /\ x.keep[p] = NoPort
                                     /\ x.cfg.ports[p].source = "rtp"}
      last == IF awaited = {} THEN NPorts ELSE Min(awaited)
      y == [x EXCEPT !.ports = [p \in Ports |->
              IF p \notin k..last THEN @[p]
              ELSE IF p \notin Active(x.cfg) THEN NoPort
              ELSE IF x.keep[p] # NoPort THEN x.keep[p]
              ELSE NewPort(x, x.cfg.ports[p])]]
  IN IF awaited = {} THEN Done(y)
     ELSE [y EXCEPT !.at = "rtp", !.next = last, !.rtp[last] = "opening", !.leaked = @ \ {last}]

\* Ports whose routing did not change are left running.
KeptById(x) ==  \* (Variant) a port is kept whatever was changed about it
  {p \in Wired(x) : p \in Active(x.cfg)}
Kept(x) == {p \in Wired(x) : x.cfg.ports[p] = x.ports[p].set}
BuildPorts(x) ==
  LET kept == Kept(x)
      y == [TeardownPorts(x, Ports \ kept) EXCEPT
              !.tx = TxOf(x.cfg), !.ports = NoneWired,
              !.keep = [p \in Ports |-> IF p \in kept THEN x.ports[p] ELSE NoPort]]
  IN IF \E p \in Active(x.cfg) : x.cfg.ports[p].source = "rtp"
     THEN [y EXCEPT !.at = "worklet"] ELSE Wire(y, 1)

\* build() with no build under way.
StartBuild(x, cfg) ==
  LET y == [x EXCEPT !.built = cfg, !.cfg = cfg, !.pending = None]
  IN IF DeviceKey(cfg) = x.dev THEN BuildPorts(y)
     ELSE [TeardownDevices(TeardownPorts(y, Ports)) EXCEPT
             !.dev = DeviceKey(cfg), !.torn = FALSE,
             !.at = IF cfg.asio # None THEN "list" ELSE "media"]

Build(x, cfg) ==
  IF x.at = "none" THEN StartBuild([x EXCEPT !.over = FALSE], cfg)
  ELSE [x EXCEPT !.pending = cfg, !.over = FALSE]

\* The finally of build(): the settings that came meanwhile are built.
Finally(x) ==
  IF x.at # "none" THEN x
  ELSE IF x.pending # None /\ x.pending # x.built THEN StartBuild(x, x.pending)
  ELSE [x EXCEPT !.pending = None]

\* The page's effect on cfg and status.  With the settings back at what is being
\* built, older ones that wait are not taken back.
Effect(x, cfg) ==
  CASE x.status = "connected" /\ x.built # cfg -> Build(x, cfg)
    [] x.status = "connected" /\ x.built = cfg ->
         [x EXCEPT !.over = @ \/ x.pending \notin {None, cfg}]
    [] x.status \in {"idle", "error"} -> Teardown(x)
    [] OTHER -> x

GraphInit ==
  /\ settings \in PageSettings   \* what was saved
  /\ g = [status |-> "idle", rights |-> [c \in Chans |-> "both"], held |-> {}, mix |-> NoMix("none"),
          tx |-> {}, built |-> None, dev |-> None, timer |-> FALSE, streams |-> FALSE, sinks |-> FALSE,
          asio |-> "none", ports |-> NoneWired, pending |-> None, at |-> "none", cfg |-> None,
          keep |-> NoneWired, next |-> 0, slot |-> None, dying |-> {},
          rtp |-> [p \in Ports |-> "closed"], over |-> FALSE, torn |-> FALSE,
          leaked |-> {}, stuck |-> {}]
  /\ events = 0

-----------------------------------------------------------------------------
(* The session.                                                            *)

Connect ==   \* at the start, or the button
  /\ g.status \in {"idle", "error"}
  /\ g' = Effect([g EXCEPT !.status = "connected", !.held = {}, !.stuck = {},
                           !.mix = NoMix("joining")], settings)
  /\ UNCHANGED <<settings, events>>
\* The button tears the graph down, the engine lets go of everything, and the
\* effect tears down once more.
Disconnect ==
  /\ Happens /\ g.status # "idle"
  /\ LET x == Teardown(g)
     IN g' = Effect([x EXCEPT !.status = "idle", !.held = {}, !.stuck = {}, !.mix = NoMix("none")],
                    settings)
  /\ UNCHANGED settings
\* The socket or the room is lost, the line was switched, or the room stalled for eight
\* seconds; the graph stays.
Drop ==
  /\ g.status = "connected"
  /\ Happens \/ (g.mix.room = "stalled" /\ UNCHANGED events)
  /\ g' = [g EXCEPT !.status = "reconnecting", !.mix = LeftRoom(@)]
  /\ UNCHANGED settings
Rejoin ==
  /\ g.status = "reconnecting"
  /\ g' = Effect([g EXCEPT !.status = "connected", !.held = {}, !.stuck = {},
                           !.mix.room = "joining"], settings)
  /\ UNCHANGED <<settings, events>>
Fatal ==
  /\ Happens /\ g.status \in {"connected", "reconnecting"}
  /\ g' = Effect([g EXCEPT !.status = "error", !.mix = LeftRoom(@)], settings)
  /\ UNCHANGED settings
\* The media server's room: joined after the welcome; it stalls and recovers, and a
\* recovery publishes nothing.
RoomJoined ==
  /\ g.mix.room = "joining" /\ g' = [g EXCEPT !.mix = Joined(@)]
  /\ UNCHANGED <<settings, events>>
\* It stalls in the middle of publishing what the engine sends: the rest is not published.
StallsOnJoining ==
  /\ Happens /\ g.mix.room = "joining"
  /\ \E P \in SUBSET g.mix.sending :
       g' = [g EXCEPT !.mix = [@ EXCEPT !.room = "stalled", !.published = P,
                                        !.muted = g.mix.sending \ P]]
  /\ UNCHANGED settings
RoomStalls ==
  /\ Happens /\ g.mix.room = "up" /\ g' = [g EXCEPT !.mix.room = "stalled"]
  /\ UNCHANGED settings
RoomBack ==
  /\ g.mix.room = "stalled" /\ g' = [g EXCEPT !.mix.room = "up"]
  /\ UNCHANGED <<settings, events>>
\* An admin edits the rights: keys and music that are no longer allowed go; a
\* key on a channel that now carries only music stays in the engine.
Directory(c, k) ==
  /\ Happens /\ g.status = "connected" /\ g.rights[c] # k
  /\ g' = [g EXCEPT !.rights[c] = k,
                    !.held = IF MayTalk(k) THEN @ ELSE @ \ {c},
                    !.mix = IF MayPlay(k) THEN @ ELSE StopMusic(@, {c}),
                    !.stuck = IF k = "music" THEN @ \cup (g.held \cap {c})
                              ELSE IF MayTalk(k) THEN @ ELSE @ \ {c}]
  /\ UNCHANGED settings
MusicFails(c) ==   \* publishMusic() could not
  /\ Happens /\ c \in g.mix.sending \cap g.mix.published
  /\ g' = [g EXCEPT !.mix = StopMusic(@, {c})]
  /\ UNCHANGED settings

SetPort(p, s) ==
  /\ Happens /\ settings.ports[p] # s
  /\ settings' = [settings EXCEPT !.ports[p] = s] /\ g' = Effect(g, settings')
SetAsio(i) ==
  /\ Happens /\ settings.asio # i
  /\ settings' = [settings EXCEPT !.asio = i] /\ g' = Effect(g, settings')

-----------------------------------------------------------------------------
(* The answers that build() awaits.                                        *)

Answer(x) == g' = Finally(x) /\ UNCHANGED settings
\* A driver is surely listed unless a helper that was told to close still has
\* it; one that is listed is opened by a helper of its own.
Listed ==
  /\ g.at = "list" /\ UNCHANGED events
  /\ Answer([g EXCEPT !.at = "open", !.slot = g.cfg.asio])
NotListed ==
  /\ g.at = "list" /\ (Happens \/ (g.cfg.asio \in g.dying /\ UNCHANGED events))
  /\ Answer([g EXCEPT !.at = "media"])
Opened ==
  /\ g.at = "open" /\ g.cfg.asio \notin g.dying /\ UNCHANGED events
  /\ Answer([g EXCEPT !.at = "media", !.asio = "open"])
NotOpened ==   \* the helper stays
  /\ g.at = "open" /\ (Happens \/ (g.cfg.asio \in g.dying /\ UNCHANGED events))
  /\ Answer([g EXCEPT !.at = "media", !.asio = "failed"])
\* The PC's own audio.  Without a port of the audio devices nothing more is awaited.
Captured ==
  /\ g.at = "media" /\ UNCHANGED events
  /\ Answer(IF DeviceKey(g.cfg).device THEN [g EXCEPT !.streams = TRUE, !.at = "in"]
            ELSE BuildPorts([g EXCEPT !.streams = TRUE]))
\* getIn() and getOut(): an input and an output are opened once for all ports; when one
\* cannot be, the build goes on without it.
GetIn ==
  /\ g.at = "in"
  /\ \/ UNCHANGED events /\ Answer([g EXCEPT !.streams = TRUE, !.at = "out"])
     \/ Happens /\ Answer([g EXCEPT !.at = "out"])
GetOut ==
  /\ g.at = "out"
  /\ \/ UNCHANGED events /\ Answer(BuildPorts([g EXCEPT !.sinks = TRUE]))
     \/ Happens /\ Answer(BuildPorts(g))
WorkletLoaded ==
  /\ g.at = "worklet" /\ UNCHANGED events /\ Answer(Wire(g, 1))
\* rtp:open enters the socket only now: an rtp:close that came before found none.
Bound ==
  /\ g.at = "rtp" /\ UNCHANGED events
  /\ Answer(Wire([g EXCEPT !.rtp[g.next] = "open"], g.next + 1))
NotBound ==
  /\ g.at = "rtp" /\ Happens
  /\ Answer(Wire([g EXCEPT !.rtp[g.next] = "closed", !.leaked = @ \ {g.next}], g.next + 1))

\* A helper that was told to close lets the driver go, or is killed after 500 ms.
HelperEnds(i) ==
  /\ i \in g.dying /\ g' = [g EXCEPT !.dying = @ \ {i}] /\ UNCHANGED <<settings, events>>
HelperCrashes ==
  /\ Happens /\ g.slot # None /\ g.at # "open" /\ g' = [g EXCEPT !.slot = None]
  /\ UNCHANGED settings

-----------------------------------------------------------------------------
(* Voice.                                                                  *)

RetriedNever(x) == {}  \* (Variant) music is only started when its port is wired
Retried(x) == Started(x, {p \in Wired(x) : IsStereo(x.ports[p].set, x)}) \ x.mix.sending

\* voxTick(): the ports in S hear somebody (or still hang on); the last port of
\* a channel has the last word on its key.  Music that is not sent is started.
VoxTick(S, due) ==
  LET voiced(c) == {p \in Wired(g) : g.ports[p].set.chan = c /\ ~IsStereo(g.ports[p].set, g)}
      wants(p) == p \in S /\ MayTalk(g.rights[g.ports[p].set.chan])
      held == {c \in Chans : IF voiced(c) = {} THEN c \in g.held ELSE wants(Max(voiced(c)))}
  IN /\ g.timer /\ S \subseteq Wired(g)
     /\ g' = [g EXCEPT
          !.ports = [p \in Ports |->
             IF @[p] = NoPort THEN NoPort
             ELSE [@[p] EXCEPT !.open = p \in voiced(g.ports[p].set.chan) /\ wants(p)]],
          !.held = held, !.stuck = @ \cap held,
          !.mix = IF due THEN StartMusic(@, Retried(g)) ELSE @]
     /\ UNCHANGED <<settings, events>>

Answers == Listed \/ NotListed \/ Opened \/ NotOpened \/ Captured \/ GetIn \/ GetOut \/ WorkletLoaded \/ Bound
GraphNext ==
  \/ Answers \/ Connect \/ Rejoin \/ RoomJoined \/ StallsOnJoining \/ RoomStalls \/ RoomBack
  \/ \E i \in Interfaces : HelperEnds(i)
  \/ Disconnect \/ Drop \/ Fatal \/ NotBound \/ HelperCrashes
  \/ \E c \in Chans, k \in {"talk", "music", "both", "none"} : Directory(c, k)
  \/ \E c \in Chans : MusicFails(c)
  \/ \E p \in Ports, s \in PortSettings \cup {Off} : SetPort(p, s)
  \/ \E i \in Interfaces \cup {None} : SetAsio(i)
  \/ \E S \in SUBSET Ports, due \in BOOLEAN : VoxTick(S, due)

\* What is awaited is answered, the engine joins again, timers fire: each line is
\* weak fairness of the action, with the state that enables it spelled out.
MusicDue == g.timer /\ Retried(g) # {}
GraphSpec ==
  /\ GraphInit /\ [][GraphNext]_graphVars
  /\ WF_graphVars(Rejoin) /\ WF_graphVars(RoomJoined)
  /\ []<>(g.at = "none") \/ []<><<Answers>>_graphVars
  /\ []<>(~MusicDue) \/ []<><<\E S \in SUBSET Ports : VoxTick(S, TRUE)>>_graphVars

-----------------------------------------------------------------------------
(* Properties.                                                             *)

InStep ==
  /\ g.at = "none" /\ g.timer /\ g.built = settings /\ g.dev = DeviceKey(settings)
  /\ g.tx = TxOf(settings) /\ Wired(g) = Active(settings)
  /\ \A p \in Wired(g) : g.ports[p].set = settings.ports[p]

\* "Keep the audio graph in step with the connection and the config": once the
\* session stays up, the graph comes to be that of the settings and stays so,
\* whatever was edited while it was built, unless settings waiting from before
\* overtake a return to what is being built.
FollowsConfig ==
  <>[](g.status = "connected") => <>[](g.over \/ InStep)

\* "releasing its channel": a key is down only for a port of the channel whose
\* voice tick saw somebody speak, through rewiring, teardown and rejoining; keys
\* that were down when their channel became a music channel apart.
KeysHaveAPort ==
  \A c \in g.held \ g.stuck :
    \E p \in Ports : \E port \in {g.ports[p], g.keep[p]} : port.open /\ port.set.chan = c

\* The main process holds a socket only for a port of the graph, of the build
\* under way, or torn down while it was opened; with no session and no build that
\* was torn down half-way, microphones, timer, driver and ports are let go.
NothingLeftOpen ==
  /\ \A p \in Ports : g.rtp[p] # "closed" =>
       p \in g.leaked \cup Wired(g) \/ g.keep[p] # NoPort
  /\ g.status \in {"idle", "error"} /\ g.at = "none" /\ ~g.torn =>
       ~g.timer /\ ~g.streams /\ ~g.sinks /\ g.slot = None /\ Wired(g) = {}
         /\ g.held \subseteq g.stuck

\* "a stereo port must bring it back by itself instead of staying silent": while the
\* line may carry its music, the mix of a wired stereo port comes to be sent and
\* published for good, whatever dropped it, and through new sessions and rooms.  The
\* exception is a mix that was to be published while the room stalled (muted): it counts as
\* sent, and so nobody starts it again before the next session.
MusicComesBack ==
  \A c \in Chans :
    <>[](/\ g.status = "connected" /\ MayPlay(g.rights[c])
         /\ \E p \in Wired(g) : /\ g.ports[p].set.chan = c /\ g.ports[p].node
                                /\ IsStereo(g.ports[p].set, g))
      => <>[](c \in g.mix.sending /\ c \in g.mix.published \cup g.mix.muted)

(* What the code does not guarantee; every one is refuted by TLC.          *)

Settled == g.status = "connected" /\ g.at = "none"
\* A mix started while the room stalls stays silent after the room is back.
MixIsHeard ==
  Settled /\ g.mix.room = "up" => g.mix.sending \subseteq g.mix.published
\* Settings changed and changed back during a build: the ones in between are built.
AlwaysFollows == Settled => InStep
\* Disconnected during a build: it goes on and wires what was torn down.
IdleIsIdle == g.status = "idle" /\ g.at = "none" => ~g.timer /\ ~g.streams /\ g.slot = None
\* A socket that was being bound when its port was torn down is never closed.
SocketsAreClosed == g.at = "none" => \A p \in Ports : g.rtp[p] # "closed" => p \in Wired(g)
\* Closing and opening an interface at once may find the driver taken; it is not tried again.
DriverIsFree == [][g.at = "open" /\ g'.at # "open" /\ events' = events => g'.asio = "open"]_graphVars
\* The helper dies: the graph stays on a driver that is gone.
DriverIsServed == Settled /\ g.asio = "open" => g.slot # None
\* A channel becomes a music channel or stops being one: its ports are not wired again.
OpenIsHeard == \A p \in Ports : g.ports[p].open => g.ports[p].voice
\* The key of a channel that became a music channel is not let go.
NoStuckKey == g.status = "connected" => g.stuck = {}
\* A port that is kept while others are awaited is not in the graph: its key is not watched.
KeysAreWatched ==
  \A c \in g.held \ g.stuck : \E p \in Ports : g.ports[p].open /\ g.ports[p].set.chan = c
=============================================================================
