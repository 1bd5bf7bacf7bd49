# Arena Stream in TLA+

Specifications of Arena Stream (live video over SRT, an intercom, remote
control), their model checks and their proofs. They are written from the code;
`PROJECT.json` says for every definition which lines of `src/` it stands for.

Files: `X.tla` is a component, `MCX.tla` with `X_<run>.cfg` an instance of it for
TLC, `X_proofs.tla` its theorems. Operators marked *variant* are plausible bugs:
`PROJECT.json` pairs each property with one that must break it.

    tlc -workers 2 -config CommsRouting_rooms.cfg MCCommsRouting.tla
    tlapm CommsRouting_proofs.tla

## The system

### Parts, their state and what they do

**Comms server** (`comms/server`, Node.js). One process for an intercom.
- *Rights and routing* (`server.js`, `directory.js`, `sfu.js`). State: per
  connected peer its rights, listen/talk/music switches, the list of its tracks
  read back from LiveKit and the set of tracks it is believed to be subscribed to.
  Operations: join, leave, `state`, `music`, `tracks` messages, directory edits
  (`refreshAll`), reconcile passes (one chain per listener), the self-heal timer.
- *Server player* (`player.js`, called from `admin.js` and `server.js`). State: a
  map from channel to the player object with its ffmpeg process, LiveKit room,
  timer and count of quick failures. Operations: start, stop, the events of the
  process, the restart timer.
- *Directory* (`directory.js`): users, groups, channels and gateways, saved to a
  file. *Sign-in and presence* (`auth.js`, `server.js`): sessions, throttling,
  kicks, pings. *Watcher* (`arena.js`): polls the stream server and reports feeds
  that stop. *Log and alerts* (`eventlog.js`, `alerts.js`).

**Comms client** (`ui/comms-app`, `comms.ts`). State: the status of the session, talk
keys (held, latched), the microphone, the socket, the room with its published tracks,
music, mesh links, the programme feed and its ducking. Operations: join, leave, keys,
messages of the server, answers of devices and rooms, timers.

**Comms gateway** (`ui/comms-gateway`). A client with audio *ports*: `ports.ts` builds a
graph of ASIO, network (AES67/RTP) and device ports around the awaits of drivers and
sockets, `asio.ts` and `rtp.ts` own them in the main process. A *line failover*
(`failover.ts`, `netfail.ts`) prefers one of two network lines by PowerShell scripts.

**Stream application** (`ui/electron-app`). Main process: a slot per card, shared
processes for webcams, a lock per device, beacons, scans for devices. Window: the channels
of the last scan, and what it believes is selected, active and live. They talk by calls and events, in one queue.

**Remote control** (`remote`). *Signaling server*: hosts, viewers, sessions over
WebSockets. *Application*: the viewer, the host's window with its consent prompt and
negotiations, the host's main process, which alone injects input, and a kill switch.

**Encoder program** (`cpp/src/main.cpp`). State: four bounded queues
(`frame_queue.h`) between a capture thread, two encoding threads, a preview and a
network thread; two atomics for bit rates. Operations: push and pop, a second's
heartbeat with congestion control, lines on stdin, an ordered shutdown.

**Redundancy** (`redundancy.cpp`, SMPTE 2022-7). *Output*: one connection per path
with a thread that replaces it when writes keep failing; a lock, a flag, a count.
*Receiver*: packets of two paths in one buffer, an output thread that holds each
for a window, orders and deduplicates.

**Low-latency relay** (`cpp/relay/srt_relay.cpp`). State: publishers and readers by
name, one thread per publisher. Operations: accept, relay, takeover, drop a reader.

**Others.** The receiver program (`receive_main.cpp`, `srt_input.cpp`), the link
encoder's fan-out (`ts_fanout.h`), the link and decoder programs, the link directory
(`directory.py`), the link application and link sharing service, devices, statistics,
installation. `PROJECT.json` lists every one with its status.

### How they interact

    administrator --> directory --edit--> routing --updateSubscriptions--> LiveKit
          \--> server player --publish--------------------------------------^
    client --state/music/tracks--> routing --listTracks--> LiveKit <--publish-- client

    gateway ports --keys, music--> client <--welcome, directory, signals--> routing
    line failover --scripts--> Windows' metrics --line of the next connection--> client

    window --calls--> main process (lock per device) --> encoder processes, beacons
          <--answers and events, one queue--

    viewer <--> signaling server <--> host's window --ipc--> host's main process
       \------- peer connection ---------/                    (input, kill switch)

    capture --> vq,aq --> encoders --> netq --> netout --> output: path 1, path 2
    stdin --> heartbeat --> video worker --> encoder       |           |
                ^--- drops of netq                         v           v
                                                      receiver: merge --> next hop
    link encoder --> relay --> link decoders

Calls to LiveKit are awaited and may fail before or after they had an effect;
callbacks of processes, timers and sockets come between any two awaits; the C++
parts share state under mutexes and in atomics.

### What is hard, and what makes each part correct

| part | hard | correct when |
|---|---|---|
| routing | sets computed before an await and stored after it; failed calls; lists answered out of order; a tick that forgets what it believed | who lost a right loses the track; who has it gets the track in the end; nobody stays switched on without a right |
| server player | start and stop overlap in their awaits; late answers and frames | one player per channel, with the saved URL, announced as it is; a stopped one lets go of everything; a bad stream is given up |
| relay | a packet received before and sent after a takeover; two threads closing one socket | one publisher per name; no socket lost or left |
| receiver | loss and skew, callbacks outside the lock, eviction by the clock | one ordered stream with each packet once; nothing lost, nothing held for long |
| output | the flag that asks for a reconnect, a count over several connections | a path never stays down; a connection is given up only for cause |
| bit rate | three threads over two atomics; truncated products | the latest decision arrives; between floor and ceiling; down under congestion and up again |
| client | every await (microphone, token, room, publish, feed) is overtaken by keys, edits, kicks, lost sockets; a resumed session meets leftovers of the former | the microphone is heard only while a key is down, and open whenever one is; tracks, music and feed are there again after every loss |
| gateway ports | settings, rights and connection change while the graph is built; sockets and helpers that answer after teardown | the graph comes to be that of the settings; keys, sockets, devices and drivers are let go |
| line failover | a tick, an edit and a test during a script of 20 s; two scripts at once; the end | what is shown is what Windows prefers; the good line is found; the network is left as it was |
| stream application | late ends of replaced processes, calls that queue, events and answers out of date | one process per card; the window comes to show what runs; what streams is announced |
| remote control | two negotiations, a prompt, calls to the main process and a kill switch overtake each other; a host that connects again before its old connection closes | input only for the session and consent in force; nobody waits for ever; the host gets free |
| pipeline | full queues; shutdown in the right order | order kept, latest frames kept, losses counted; the process ends |

## The modules

**CommsRouting** - rights and routing, with LiveKit and the clients' media side as
the server sees them (external). One action per message handler (`State`, `Music`,
`TracksMsg`, `Join`, `Close`), directory edit (`GrantEdit`, `KindEdit`), timer (`Heal`), awaited
answer (`CallReturns`, `CallFails`, `ListReturns`, `ListFails`) and microtask
(`StartPass`). `pass[L]` is the pass of L's promise chain: its `want`, `add` and
`drop` are the local variables of `reconcile` that survive its awaits. `Settled`
says that microtasks run before the next message or timer. A LiveKit call takes
effect (`LiveKitApplies`) and is answered in two steps, or fails before or after
its effect. `refreshTracks` is not awaited (server.js:493), so each of `ListCalls` is a list
call of its own: several of one publisher run at once and are answered in any order.
`lost` is history: the tracks that an older list, answered late, took out of the server's
sight.

**ServerPlayer** - one channel's player: `start` and `stop` with every await a step
of its own, the ffmpeg process and its two event handlers, the restart timer, the
administrator's requests at any moment, and `syncPlayers` after an edit. Player objects are
elements of `Players`; the map holds at most one of them. Four histories say how requests
overlapped: who started before whom (`older`), who waited over an edit (`missed`), who
spoke last (`speaker`), whose frame returned after its failure (`late`).

**SrtRelay** - the accepting thread and one thread per publisher. A critical section
of `g_mtx` is one action; the packet between `srt_recvmsg` and the lock is a state of
its own.

**RedundancyReceiver** and **OrderedMerge** - the receiver, in ticks of time. The paths
deliver in order, late by up to `Skew`, and may lose; the output thread works with
the time at which its pass began; callbacks run without the lock and take up to
`Stall` per pass. OrderedMerge is what it promises: every packet that arrived at most
once, each stream in order. The receiver implements it with the packets delivered for
`arrived` and the emitted ones for `emitted`.

**RedundantOutput** - writers and the reconnect thread of each path, one action per
atomic access or critical section.

**BitrateControl** - stdin, heartbeat and video worker, one action per access to
`g_user_bitrate_req` and `g_enc_bitrate_req`.

**EncoderPipeline** - the four queues and five threads; `Script` is what the main
thread does from start to end, one entry per call.

**StreamApp** - `main.ts` and `App.tsx` of the stream application. `lock[d]` is the
promise chain of a device, its head the call being handled; `proc` the child processes,
`captureProcs`, `captureProc` and `relayProc` the slots they are kept in; `inbox` what the
window has not read yet, answers and events in one order. The handlers of the four
calls are actions up to their awaits (`waiting` is the pause before a stream starts);
`Closed` is a process's `close` handler, which may come after its successor's start. A scan finds
any set of devices its programs can list, or nothing after its time-out.

**RemoteSession** - the signaling server, the viewer, the host's window and its
main process, over queues in both directions and the `ipc` of the host. A session is
named by its viewer's connection; the host has several connections in a row, whose closes
come late. `object[v]` is the window's session object with its negotiation, whose awaits
(`step`) outlive the session.

**CommsEngine** - `comms.ts`, one client with the server's end of its session, the media
server's room, one other participant and the programme server. One action per callback
up to its next await; `sync` is the chain of `syncSfuTracks`, `conn` the rest of
`connectSfu`, `music.jobs` the `publishMusic` calls whose answer is out. What the methods
compute (`Routed`, `Wired`, `MicSynced`, `DuckUpdated`) are functions, put together by
`ApplyRouting` as the code does. Histories: `srv.lapsed`, the right to send music was missing
at some time since START or the session's begin; `music.hurt`, a publish found the room
stalled; `mesh.said` and `mesh.blank`, what the server said of the other participant, and
whether a renewed offer put a blank entry in its place.

**Gateway** - `ports.ts` with the effects of `App.tsx` that call it and the main process's
RTP sockets and ASIO helper. `g.at` is the await `build()` stands at, `g.cfg` what it is
building, `g.keep` the ports it carries over, `g.pending` settings that wait for it. A port's
microphone and loudspeaker are awaits of their own (`in`, `out`), each of which may be refused.
Of the client, `g.mix` is what it counts as sent (`musicTx`), what is published in its room, and
that room, which is joined after the welcome, stalls and recovers; `publishMusic` does nothing
in a room that is not up, and only joining one publishes again (`Joined`).

**LineFailover** - `failover.ts` and `netfail.ts`: ticks, `switchTo`, `configure`, the scripts
as calls that take effect and return in two steps (or fail, or time out having had their
effect), Windows' choice of adapter, and the connection that goes over it. The gateway ends
by before-quit (`Quit`) or by `app.exit(0)` (`Relaunch`), which before-quit does not hear of; the
metrics it finds are automatic or set.

## The runs

Every run must pass. Numbers are distinct states; a run takes from seconds to about three minutes.

| run | instance | states | shows |
|---|---|---|---|
| CommsRouting_rooms | a talker who only sends and the server player, which listens, on one channel; two list calls at once, one operation, one failure in all, one waiting pass | 0.8 M | `RevokedIsDropped`, `SwitchedOnIsAllowed`; `Delivered`, by the self-heal |
| ServerPlayer_requests | three players, one URL that an edit takes away, requests at any moment | 1.6 M | `PlayerIsSound`, `StoppedLetsGo`, `GivesUp` |
| SrtRelay_takeover | three publishers and two readers of two names | 235 k | `TakeoverIsClean`, `DeadPublisherGoes` |
| RedundancyReceiver_merges | three packets of two streams, two with one time stamp, window and skew 2, stall 1 | 91 k | `Merges` (OrderedMerge), `ComesOutInTime` |
| RedundantOutput_two_paths | one writer, two paths, two deaths each, threshold 2 | 72 k | `KeptForCause`, `PathsRecover` |
| BitrateControl_adapts | two lines, two congestions, 100 kbps | 571 k | `RateIsSound`, `FollowsTheNetwork` |
| EncoderPipeline_pressure | three video and one audio frame, capacities 2, 1, 2, 1 | 436 k | `FramesAreAccounted`, `Ends` |
| StreamApp_channels | an AJA card, a DeckLink card, a webcam, four processes, three operations, one process that ends by itself | 693 k | `OneProcessPerCard`, `WindowAgrees`, `LiveIsAnnounced`, `ClicksAreAnswered` |
| RemoteSession_consent | two viewers, two connections of the host, four events | 218 k | `HostIsListed`, `MainAgrees`, `KeysAreReleased`, `NobodyWaits`, `HostGetsFree` |
| CommsEngine_session | one channel, mesh and SFU, four events | 1.2 M | `HotOnlyWhileKeyed`, `KeyedIsFed`, `PublishedAsAllowed`, `MusicIsRestored`, `IfbCutsThrough`, `OneFeed`, `ComesBack` |
| Gateway_ports | two ports on a line, an interface, network audio or stereo, a room that stalls, three events | 643 k | `FollowsConfig`, `KeysHaveAPort`, `NothingLeftOpen`, `MusicComesBack` |
| LineFailover_lines | two adapters, metrics found automatic or set, thresholds of one to three ticks, four events | 2.1 M | `LineAgrees`, `LeftAsFound`, `FindsTheGoodLine` |

A property that names several (`PlayerIsSound`, `TakeoverIsClean`, `ComesOutInTime`,
`KeptForCause`, `PathsRecover`, `RateIsSound`, `FollowsTheNetwork`, `FramesAreAccounted`) is
their conjunction, in its module; those of the player, the receiver and the pipeline
contain `TypeOK`. The `TypeOK` of the routing, player, relay, output, bit rate, pipeline, stream
application, failover, gateway (`GraphTypeOK`) and remote control is proved; that of CommsEngine holds in
its run with `TypeOK` added to the cfg.

### Bounds, and why they are enough

- *Routing.* `MaxOps` operations and edits, `MaxQueue` waiting passes, `MaxFaults` failures of
  all kinds together. Two list calls of one publisher are enough for one to overtake the
  other; a client announces its tracks (`Announce`) until it has published all it has.
  Listeners influence each other only through the tracks of their
  publishers, so two people have all the cases; the shortest run that leaves a revoked
  track needs one edit and a pass under way. For longer histories there are the theorems.
  Direct tracks and a call that fails after its effect are in
  the module but not in the instance: with them the run takes too long.
- *Player.* Three player objects let a start replace one that is itself being
  replaced, and a third overtake both; `MaxQuickFails` is 2 instead of 5. Nobody waits for
  anybody: a request, an edit or a late frame may come at every await of another.
- *Relay.* A third publisher meets the thread of the first; names do not interact.
- *Receiver.* Each packet has two copies, so three packets are up to six entries, with
  a late copy in front of a newer packet and two streams with equal time stamps.
  `Skew` does not exceed `Window` and `Stall` is less than it, as the window is meant
  to be chosen.
- *Output.* The threshold is 2 instead of 10, enough for a count that is reset, one
  that is carried over and one that is reached; each path dies twice, so that it comes
  back by the way of the back-off as well as without.
- *Bit rate.* A floor of 40 % is far enough for several steps down and up; a second line
  moves floor and ceiling below and above the current rate.
- *Pipeline.* Each queue can be overfull and the order of kinds in the network queue
  can be mixed. With capacity 1 a queue is empty or full, with 2 it has a middle.

- *Stream application.* Three kinds of devices are three ways of starting a process; a
  channel that goes live, stops and is clicked again meets the late end of its first
  process within three operations. The four processes are never all in use.
- *Remote control.* The second viewer meets the first at the prompt and in the session;
  the second connection of the host replaces the first, whose close comes late. Four
  events are a request, an answer at the prompt, and two that disturb.
- *Client.* Joining is the first event; three more are a key or music, an edit or a
  loss, and one that meets its consequences. Channels are independent but for the keys
  being counted together, which the theorems have for any number.
- *Gateway.* Two ports are needed for one that is kept while another awaits, and for two
  on a channel. Joining is the first event, as above; two more are an edit, a device or a
  music that fails, or a stall, and one that meets its consequences.
- *Failover.* Ticks are counted by saturating counters; short thresholds keep their
  order (`Half`, `Minute` at most `Hold` at most `MaxHold`). Four events are: on, a line that goes bad,
  one that comes back or a failing script, and an edit or an end. The metrics found are
  automatic or prefer either adapter.

Only BitrateControl and CommsRouting check for deadlock: the heartbeat and the heal timer
go on for ever. In the others everything may come to rest: connections and events are
used up, processes end, users do nothing.

### Fairness

- *CommsRouting*: the event loop runs what is ready, LiveKit answers subscription calls in the
  end, and the heal timer fires. Answers and the timer have strong fairness since
  microtasks of other chains, which go first, disable them. `Delivered` needs nothing of
  track lists; `ListFairness`, with which `tracks` messages and answers to listTracks arrive, is
  for `FailedListIsRetried` only. Nobody has to do anything, and no failure has to happen.
- *ServerPlayer*: awaited answers arrive, events and timers are handled; ffmpeg and
  administrators are free.
- *SrtRelay*: threads that can run do; peers are free.
- *RedundancyReceiver*: time passes, packets arrive or get lost, the output thread runs.
  What holds the lock for a moment makes the fairness of the others strong.
- *RedundantOutput*: frames keep coming; a thread that keeps asking for the lock gets it
  (strong, as the other side takes it in between - with a single writer, which has
  pauses, a `shared_mutex` does so; with several overlapping writers it need not); a
  receiver that can be reached answers in the end.
- *StreamApp*: the main process and the window handle what is queued, killed processes end.
- *RemoteSession*: server, viewer, host and main process handle what is queued and get
  answers from the browser; persons are free.
- *CommsEngine*: what event loop, server and media server have under way goes on (weak
  fairness of `System` as a whole is enough: each of its steps uses something up).
- *Gateway*: the client joins again, and the room after the welcome; a stalled room need not
  recover; build() is answered or ends; the voice tick of a
  stereo port comes, every 20 ms while its music is due.
- *LineFailover*: scripts end, ticks tick, connections drop, come back and are measured.
- *BitrateControl*: seconds go by, frames keep coming, a jammed network drops packets.
- *EncoderPipeline*: a thread that can go on does; nobody has to capture or to stop it.

## What is proved

For every value of the constants that satisfies the assumptions of its module.

| module | theorem | says |
|---|---|---|
| CommsRouting_proofs | `TypeCorrect` | `[]TypeOK` |
| | `SwitchedOnAllowed` | `[]SwitchedOnIsAllowed` |
| | `RevokedGetsDropped` | `[]RevokedIsDropped`, for any number of list calls in flight, answered in any order |
| SrtRelay_proofs | `RelayTypeCorrect`, `CleanTakeover` | `[]TypeOK`, `[]TakeoverIsClean` |
| ServerPlayer_proofs | `PlayerTypeCorrect`, `StoppedPlayersLetGo` | `[]TypeOK`, `[]StoppedLetsGo`, for any callers, overlapping ones included |
| | `PlayerStaysSound` | `[]PlayerIsSound`, for any callers and late frames |
| Encoder_proofs | `OutputTypeCorrect`, `PathsAreKept` | RedundantOutput: `[]TypeOK`, `KeptForCause`, for any number of paths and concurrent writers |
| | `BitrateTypeCorrect`, `RateStaysSound` | BitrateControl: `[]RateTypeOK`, `[]RateIsSound` |
| | `PipelineTypeCorrect`, `FramesStayAccounted` | EncoderPipeline: `[]PipelineTypeOK`, `[]FramesAreAccounted`, for any capacities and any number of frames |
| StreamApp_proofs | `AppTypeCorrect`, `OneProcessForEachCard`, `LiveStaysAnnounced` | `[]TypeOK`, `[]OneProcessPerCard`, `[]LiveIsAnnounced` |
| | `WindowTellsTruth` | `[]WindowAgrees`, for any devices, processes, clicks and deaths |
| Gateway_proofs | `LineTypeCorrect`, `ShownLineIsPreferred`, `NetworkIsLeftAsFound` | LineFailover: `[]TypeOK`, `[]LineAgrees`, `[]LeftAsFound`, for any adapters, thresholds, metrics found and overlaps of scripts |
| | `GraphTypeCorrect`, `KeysKeepAPort`, `NothingStaysOpen` | Gateway: `[]GraphTypeOK`, `[]KeysHaveAPort`, `[]NothingLeftOpen`, for any number of ports, any lines, interfaces and edits |
| CommsEngine_proofs | `HeardOnlyWhileKeyed`, `KeyedHasMicrophone`, `IfbIsNeverDrowned`, `FeedIsSingle` | `[]HotOnlyWhileKeyed`, `[]KeyedIsFed`, `[]IfbCutsThrough`, `[]OneFeed`, for any channels |
| | `TracksAreAsAllowed`, `MusicComesBack` | `[]PublishedAsAllowed`, `[]MusicIsRestored`, for any channels, edits, stalls and sessions; the exceptions are in the properties |
| RemoteSession_proofs | `RemoteTypeCorrect`, `NewestHostIsListed`, `InputAsConsented`, `NoKeyStaysDown` | `[]TypeOK`, `[]HostIsListed`, `[]MainAgrees`, `[]KeysAreReleased`, for any finite set of viewers and any connections of the host |
| | `SessionsBeginAlone` | a session of the main process never takes the place of another |

*Routing.* That a chain which has run dry has dropped what was revoked is not
inductive. `PassInv` says of each state of a pass what it still owes: run dry, about
to start, or under way before its first call, between the calls and before the store,
how LiveKit's set, `subs` and the pass's local sets relate, and that a right which
changed since has put another pass in the queue. It needs that LiveKit forwards only
published tracks (`MediaInv`), that lists name tracks of their publisher (`TracksInv`), that
a track held for somebody is known, its publisher gone, or lost from sight (`HeldInv`), and
that a connection that has not joined holds nothing (`NewInv`). Lists may be answered in any order: what an older one takes
away is in `lost` from then on, and `PassInv` is about the tracks `Known`, the others. It
is claimed as long as no call has failed: with a failure the property is false
(`FailedDropIsRetried`, below).

*Relay.* `Registered`: a running publisher with an open socket is the registered one;
`Stale`: how many packets it can still send by where its thread is; `Joined`: sockets
and threads begin together.

*Output.* `HoldersInv` says who may hold the lock, `ConnectingInv` what is true while a
connection is made. For `TornDownForCause`, `CountInv` bounds the shared count with the
failures that concurrent writers have not counted yet - a finite set whose cardinality
moves by one - by the failures of this connection, and `CauseInv` says that whoever asks
for a new connection has reason to.

*Bit rate.* The conjunction of the three is inductive.

*Pipeline.* `InOrder` is about a concatenation, `Path`, and no step of the code concatenates.
`OrderInv` takes it apart: what was sent, netout's hand, `netq`, the encoder's hand and the
capture queue each hold the frames of a kind in the order captured, and each only
older ones than the place behind it (`Chain`), none newer than the last captured. That is
kept however a push drops the oldest frame (`PushFacts`), and put together again by
`PathFacts`. `KindInv`: up to its encoder, a kind has its way for itself, so that its frame may go to
the end of `netq` without a look at the other kind's. `CountedInv` sums per worker what it
holds, has waiting and has lost, so that a step moves one frame between two sums.
`ScriptInv` reads from `main`, the step of the shutdown, who has not begun, what may be closed and
who has ended; hence no push is into a closed queue, where a frame would be lost
without being counted, and clear() comes before the encoders.

*Player.* For any callers: `LetGoInv`: a stopped player has no process, no timer and no room,
and its connection waits for nothing but a room that is being taken down; `CountInv`: a player is
given up for its failures at once; `StartInv`: process, timer, frames and errors come after
the start of a player, and the one in the map has been created. `PlayerIsSound` has an
invariant per part: `OlderInv`, the player in the map knows every start() that waits, so that one that is
pushed out was pushed out by an older start; `UrlInv`, a start() that waits holds the saved URL
or was edited over; `IdleInv`, nobody is announced after an "idle"; `LateInv`, a frame is late
only for a player that failed. Without the four exceptions the parts are false (below).

*Stream application.* `RolesFit`: a process has a role its device can have, and a card has one
only if the program is installed; `PauseInv`: the call whose 300 ms pause it is is still the
first of its device, and has announced it if it does so before the pause. With `TypeOK`
and the two properties that is inductive. What the window shows agrees with what runs only
when nothing is on its way, so the invariant is about what the window *will* show: `Will` reads
a queue to its end - the last word that raises a channel comes after all that lower it, or it
is shown now and nothing lowers it. `SlotInv`: a stream in its slot will be shown live;
`LiveInv`: what will be shown live streams or is about to close, which will be heard, and
no go-live of it waits; `ActiveInv` the same of captures, where the close of a superseded
preview is not heard, so that another one must be dying (`PreviewInv`); `OneToggle`: the
button is off from its click to its answer, so that two toggles never overlap; `CallsFit`:
streams are the button's and captures the clicks', as long as nothing is renamed. Each step
is then one of few: something for another device, something heard, a call, one message read.

*Failover.* `AloneInv`: a call that is alone will bring about what the settings ask for, and
has done so once its script is through; `OthersBlur`: any other sets `blurred`, the history of
what may have got mixed up; `OffInv`: a watcher without settings is off. `NotedInv` does not
care for overlaps: of a gateway that ever set metrics (`touched`) they are automatic, noted as
changed, or about to be noted by a call whose script is through - unless the last answer
was untrue (`loose`), because a script failed half-way or its metrics had been overtaken when
it was answered. A history is needed for that: the code asks nobody what the metrics are.

*Gateway.* The methods of the runtime compute on a record, so the invariant is a predicate of
one (`GraphInv`), and a lemma per method says that it keeps it; an action then only has to
show what it hands to them. A build takes the ports it keeps out of the graph and puts them
back one by one, with awaits between: `Current` is the port of a number wherever it is, and
`BuildInv` says where that is - ports are aside only at the worklet or a socket, and only those
beyond the loop's place, where the graph has none yet. `KeysHaveAPort` alone is not
inductive: a voice tick or a teardown lets go of a key only through a port that has a voice.
`VoiceInv` adds that no open port is a stereo one and no key that counts is down on a channel for
music alone; it is the edit of rights (`Directory`) that makes a key one of `stuck`. `SocketsInv`:
a socket that is not `leaked` has a current port of network audio. `DriverInv`: a helper runs only if
`asioInfo` knows of it or is about to, so that teardown closes it; `IdleInv`: without a session
nothing waits to be built, and a build under way was torn down. That the last port of a
channel has the last word needs that a set of ports has a greatest one, from the
well-foundedness of the natural numbers.

*Client.* `SessionInv` ties status, retry timer, first microphone prompt, socket and room
together: no socket without a session, no pending retry beside a socket, no room without
a socket. That is why no welcome can resume a session the user has left. `DuckInv`: no
release is pending while an IFB talker is in the roster; `SaidInv`: who was said to talk is one of
them, but for a blank entry; `RetryInv`: a feed's retry excludes
its connection. `Shapes` has the records' fields; the fields' values need no types.

That the published tracks are the allowed ones is true only between two runs of
`syncSfuTracks`, which awaits LiveKit track by track while rights change and rooms are lost.
`TracksInv` therefore says what a run has still to do: it has read the rights as they are or
another one waits behind it, the tracks there are and those it notes (`gains`) differ by the one it
is publishing, and a run that belongs to an earlier room finds nothing. `RoomsInv` says when
there is a room at all. The music needs more, since the server learns of it by messages in
a queue and forgets it with each session: `Knows` says that the last word about music
among the messages still on their way is "on", or there is none and the server has it on.
`Greeting` keeps the one message that would make the server forget, the join, in front of all
others; `Unknown` says that a server has no session of a client without a socket;
`Entitled` says that an account that never lost the right (`~srv.lapsed`) has it, through every
edit of the others; `SoundInv` puts them together. Both sections rest on lemmas about what each way of sending,
reading and losing messages does to the two queues.

*Remote control.* The window and the main process are related through the calls between them.
`Agrees`: the last call still to come that begins or ends a session begins the one the window
shows, or there is none and the main process is in it already; the same of the last
call about control. Only the kill switch breaks that, until the window hears of it. A
`control` could be dropped by a main process without a session; it is not, since an `end` in front
of it would have been followed by another `begin`. `CallsInv`: a `begin` comes when all before it
have been ended (the prompt is open only without a session), so that no key is held
when control is given again. `ListedInv` adds that the listed connection is not closed.

Only model-checked: all that says something will happen (`Delivered`, `GivesUp`,
`DeadPublisherGoes`, `ComesOutInTime`, `PathsRecover`, `FollowsTheNetwork`, `Ends`,
`ClicksAreAnswered`, `NobodyWaits`, `HostGetsFree`, `ComesBack`, `FollowsConfig`, `MusicComesBack`,
`FindsTheGoodLine`), since liveness and ENABLED are out of the prover's reach; the
receiver, whose buffer is sorted and whose order would need induction over sequences.

## Where the code does not do what it says

None of these is part of a run. Each can be seen by naming the property in the cfg of the
component's run, changed where it says so (`LeftAsItWas` and what starts with `<>` or `[]`
as PROPERTY, the others as INVARIANT).

| seen with | against | what happens |
|---|---|---|
| `FailedDropIsRetried` in CommsRouting | server.js:229, "retry anything a transient LiveKit error left unsynced" | a drop call that failed is forgotten when the third heal tick clears the subscriptions (235) |
| `FailedListIsRetried` in CommsRouting, `ListFairSpec`, `FaultKinds = {"list"}`, `MaxOps = 0` | server.js:229, "retry anything a transient LiveKit error left unsynced" | a failed listTracks is never repeated |
| `TrackListIsReal` in CommsRouting | server.js:492, "the real track list is read back" | two lists answered out of order leave the older one |
| `RevokedIsDroppedAlways` in CommsRouting | comms/README.md:104, "rights that were removed stop working at once" | an older list, answered late, takes a track out of sight; the pass that drops it from `subs` forgets who holds it, and a revocation then drops nothing |
| `SubscribedFromScratch` in CommsRouting | server.js:221, "subscribe from scratch" | a pass under way restores the old belief; repaired by the third heal tick |
| `ReplacedIsStopped` in ServerPlayer | player.test.js:90, "starting again replaces the old player" | two starts overlap in their await of stop (player.js:102): the first player goes on, in no map |
| `PlaysSavedUrl` in ServerPlayer | comms/README.md:48, changing the URL "stops it" | an edit while start() awaits stop() is missed |
| `AnnouncedIsOnAir` in ServerPlayer | server.js:141, clients see it as a sender | the late `idle` of a replaced player takes its successor off |
| `ReasonStays` in ServerPlayer | comms/README.md:46, "stops with the reason shown" | a frame that returns late sets a failed player to playing |
| `NewestWins` in SrtRelay | srt_relay.cpp:174, "newest publisher wins" | one packet of the old publisher follows the takeover |
| `HeldForTheWindow` in RedundancyReceiver, `Stall = 0` | redundancy.h:141, how long a packet is held | a late copy in front holds newer packets for longer |
| `Deduplicates` in RedundancyReceiver, `Window = 1`, `Skew = 1`, `Stall = 3` | redundancy.h:17, deduplicates | after a long callback the keys are gone before the second copy |
| `OtherPathGoesOn` in RedundantOutput | redundancy.h:13, "transparent to the caller" | the writer waits for a path that is being taken down |
| `StepsDown` in BitrateControl, `Live = FALSE` | main.cpp:238, "steps down under real network congestion" | with libx264 the controller steps and the encoder does not |
| `BacksUp` in BitrateControl, `FloorPct = 10`, `Lines = {}`, `MaxJams = 12` | main.cpp:239, "back up gradually once clean" | below 20 kbps a step of 5 % is none |
| `DrainedAtTheEnd` in EncoderPipeline | main.cpp:936, "exit after draining" | stop makes netout leave with packets queued (950) |
| `RunningIsShown` in StreamApp | App.tsx:484 | a channel whose tile is taken away while its Go Live is awaited goes live without one |
| `AnnouncedIsLive` | main.ts, stopBeacon | the close handler of a live process leaves its beacon; UDP announces before the program is found (1344) |
| `NothingOutlives` | main.ts:255, stopAll | a go-live in its pause of 300 ms starts its process while the application closes |
| `StoppedCamEnds` | main.ts:1251 | stop-capture looks into the cards' slots only: a webcam's capture or relay goes on |
| `CaptureEnds` in RemoteSession | app.js:510, 611 | a session that ends while its screen is captured leaves the capture on |
| `OwnCloseOnly` | app.js:455 | the late close of an old connection stops sharing over the new one |
| `OneStage`, `DoubleClicks = TRUE` | app.js:152, 314 | a second click opens a second session beside the first |
| `OwnOffer` | app.js:485 | the one slot for an early offer gives it to another session |
| `NoGhost` | app.js:482 | an offer for a session that is over makes the host busy with nobody |
| `MicIdles` in CommsEngine | comms.ts:358 | a microphone granted after its key was released stays open |
| `AnnouncedIsKeyed` | server.js:412 | a welcome computed before its token is awaited has older rights than an edit meanwhile |
| `TracksHeal` | comms.ts:1030 | the gain is noted before its publish fails, and the track never tried again; a sync during a stall does nothing |
| `OffIsOff` | comms.ts, publishMusic | music that failed to publish is announced; START twice leaves a capture running |
| `DuckEnds` | comms.ts, peer-leave | an IFB talker who leaves without a word keeps the programme down |
| `FeedsAreReturned` | comms.ts, connectProgram | a feed answered after it was closed is never deleted |
| `MusicSurvivesStalls` | comms.ts:985, "publish again and re-announce" | publishMusic returns silently while the room stalls (1302), and its recovery (973) publishes nothing |
| `NoMusicWithoutRight` | comms.ts:658, music without the right is stopped | startMusic looks at the right before its await (1204) and not after it |
| `IfbStaysOver` | comms/README.md:19, "that user's program feed ducks" | an offer renewed on a broken link, whose first one took the pending entry (720), makes the roster entry blank (769), and the duck is released under the talker |
| `AlwaysFollows` in Gateway | App.tsx:144, ports.ts:280 | settings changed and changed back during a build: the ones in between are built |
| `MixIsHeard` | ports.ts:645, "bring it back by itself instead of staying silent" | a mix started while the room stalls counts as sent (comms.ts:1302) and is published by nobody (973) until the next session |
| `IdleIsIdle`, `SocketsAreClosed` | main.ts:107, 121 | a build torn down half-way goes on; a socket bound after its port's teardown is kept |
| `DriverIsFree`, `DriverIsServed` | asio.ts:84, 57 | an interface reopened at once may be taken; a helper that dies is not noticed |
| `OpenIsHeard`, `NoStuckKey`, `KeysAreWatched` | ports.ts:116, 659, 486 | ports are not wired again when their channel changes kind; their key stays down; a key's port is out of the graph while others are awaited |
| `ShownIsPreferred` in LineFailover | failover.ts:76 | a failed switch back is shown as "main" a minute later |
| `OffIsOff` | failover.ts:33, 88 | switched off during a switch, its answer turns the state on again |
| `AlwaysLeftAsFound`, `NobodyChangesAfterQuit` | netfail.ts:77, "leave the PC's network the way it was found" | a script cut short, overtaken or under way at the end leaves its metrics |
| `ExitLeavesNothing` | netfail.ts:77 | app.exit(0) (main.ts:57, netfail.ts:74) skips the restoring script, and the successor takes the metrics for those it found |
| `LeftAsItWas` | netfail.ts:77 | metrics that were set before are automatic afterwards |

Seen while reading, and not stated as a property: a live channel that is renamed leaves
the window not live (App.tsx:269), the late close of a replaced process takes its
successor's tile (main.ts:944), the result of start-capture is ignored (App.tsx:451) -
`muddled` leaves the first two out of `WindowAgrees`; a prompt that is replaced leaves its
viewer waiting (app.js:478) - `forgotten` in `NobodyWaits`; the client sends no pings before its
welcome - `Deaf` in `ComesBack`; `fatal()` stops neither feed, music nor keys; the quality of
the link is not reset by a reconnect (comms.ts:897); a builtKey is set before a build
that throws, and RTP and ASIO errors are not tried again (ports.ts).

## What is left out of the modules

Names, texts, colours and logs; passwords and tokens; audio and video (a frame or a
packet is its kind and number, and an encoder makes one packet per frame); the length
of pauses, of which only the order matters, except in the receiver and the failover.
Arithmetic of bit rates is exact, with the code's truncation; values stay far below an
integer's limit. Frames in a queue when the process exits count as on their way, not as
lost: `EveryLossIsCounted` is about the counters. `g_stop` may be set at any time.

- *StreamApp*: live changes of the bit rate, the DVR proxy, time-outs of scans, previews'
  pictures, mediamtx, share links, round-trip times.
- *RemoteSession*: login, enrolment, direct mode, unattended access, the secure desktop,
  ICE candidates, statistics, how input is injected.
- *CommsEngine*: volumes, levels, jitter, statistics, devices other than the
  microphone (assumed released when idle, the default); the mesh has one other participant.
- *Gateway*: gains, meters, the test tone, the coding of RTP, the windows.
- *LineFailover*: the automatic choice of TCP.

## Not modelled

The receiver program, the fan-out, sign-in, the stream watcher and the link application
have state of their own and are in the plan. Vendors' device drivers, statistics, codec
choice, installation, and the display of the windows have none that others depend on, or no code
of this repository. `PROJECT.json` gives the reason for every component.

## Plan

Done: CommsRouting, ServerPlayer, SrtRelay, RedundancyReceiver with OrderedMerge,
RedundantOutput, BitrateControl, EncoderPipeline; StreamApp, RemoteSession, CommsEngine,
Gateway, LineFailover; proofs of all but the receiver.

Next, in this order:
1. **SdiReceive** (`receive_main.cpp`, `srt_input.cpp`): two inputs over the receiver,
   one output that the first of them initialises, stop against reconnect. Composes
   with RedundancyReceiver: what it emits before the header is written is lost.
2. **CommsPresence** (`server.js` join, kick, ping; `auth.js`): sign-in across its awaits.
   Abstract specification: a client's list of peers follows the server's.
3. **ArenaWatcher** (`arena.js`), **TsFanout** (`ts_fanout.h`).
4. CommsEngine as the environment of CommsRouting, in place of its external actions, and
   of Gateway, which has of the client its status, its keys and its music.
5. **LinkApp** (`ui/link-app`), **Directory** (`directory.js`), link and decoder programs.

Proofs: that the receiver's steps are steps of OrderedMerge as far as no order of sequences is
needed.
