------------------------------ MODULE StreamApp ------------------------------
(***************************************************************************)
(* The stream application: the main process (electron/main.ts), which      *)
(* starts one capture or streaming process per device, and its window      *)
(* (src/App.tsx), which shows what it believes is running.  Calls of the   *)
(* window go through a lock per device; answers and events come back in    *)
(* one queue, and may be out of date when they are read.                   *)
(***************************************************************************)
EXTENDS Naturals, Sequences

CONSTANTS
    Aja,        \* AJA and NDI sources: a process each, any protocol
    DeckLink,   \* DeckLink cards: a process each, SRT only
    Cams,       \* webcams: one shared capture process, one shared relay
    Procs,      \* processes that can exist at a time
    None,
    MaxOps,     \* clicks, scans and renames of the user
    MaxEnds     \* processes that end by themselves

Cards == Aja \union DeckLink
Devices == Cards \union Cams

ASSUME AppAssumption == /\ Cards \intersect Cams = {} /\ Devices # {}
                        /\ None \notin Devices \union Procs
                        /\ {MaxOps, MaxEnds} \subseteq Nat

VARIABLES
    proc,         \* processes: state, device and what they do
    captureProcs, \* per device, the process in its slot
    captureProc, relayProc,
    superseded,   \* devices whose next end of a preview is not to be reported
    beacons,      \* devices announced to receivers
    lock,         \* calls per device; the first is being handled
    waiting,      \* devices whose go-live is in its pause of 300 ms
    app, installed, \* the application, and whether arena_stream.exe is there
    devices,      \* the channels the window lists
    selected, activeIds, liveIds, toggling,
    capturing,    \* the device whose start or stop by a click is under way
    scan,         \* the scan under way, and the activeIds it was rendered with
    rendered,     \* activeIds when the selection was last taken back
    inbox,        \* from the main process to the window
    muddled,      \* history: devices for which the window was misled
    ops, ends     \* operations of the user and ends so far

main == <<proc, captureProcs, captureProc, relayProc, superseded, beacons, lock, waiting>>
window == <<devices, selected, activeIds, liveIds, toggling, capturing, scan, rendered>>
vars == <<main, app, installed, window, inbox, muddled, ops, ends>>

Roles == {"preview", "live", "ndi", "cam", "relay"}
Protocols == {"srt", "udp", "ndi"}
Call == [op : {"start-capture", "stop-capture", "start-stream", "stop-stream"},
         by : {"click", "toggle", "rename"}, protocol : Protocols]
Event == [kind : {"stream-stopped", "capture-stopped"}, dev : Devices]
Answer == [kind : {"answer"}, call : Call, dev : Devices, ok : BOOLEAN]

TypeOK ==
    /\ proc \in [Procs -> [state : {"free", "running", "dying"}, dev : Devices, role : Roles]]
    /\ captureProcs \in [Cards -> Procs \union {None}]
    /\ {captureProc, relayProc} \subseteq Procs \union {None}
    /\ UNION {superseded, muddled} \subseteq Cards
    /\ UNION {beacons, waiting, devices, activeIds, liveIds, toggling, rendered} \subseteq Devices
    /\ lock \in [Devices -> Seq(Call)] /\ app \in {"open", "quitting", "gone"}
    /\ installed \in BOOLEAN
    /\ {selected, capturing} \subseteq Devices \union {None}
    /\ scan \in [state : {"none", "mount", "first", "list"}, active : SUBSET Devices]
    /\ inbox \in Seq(Event \union Answer) /\ ops \in 0..MaxOps /\ ends \in 0..MaxEnds

Free == [state |-> "free", dev |-> CHOOSE d \in Devices : TRUE, role |-> "preview"]

Init ==
    /\ proc = [p \in Procs |-> Free]
    /\ captureProcs = [d \in Cards |-> None]
    /\ captureProc = None /\ relayProc = None
    /\ superseded = {} /\ beacons = {} /\ waiting = {} /\ muddled = {}
    /\ lock = [d \in Devices |-> <<>>] /\ app = "open" /\ installed \in BOOLEAN
    /\ devices = {} /\ selected = None /\ capturing = None
    /\ activeIds = {} /\ liveIds = {} /\ toggling = {} /\ rendered = {}
    /\ scan = [state |-> "mount", active |-> {}] /\ inbox = <<>>
    /\ ops = 0 /\ ends = 0

-----------------------------------------------------------------------------
(* Processes *)

Running(p) == proc[p].state = "running"

Killed(ps) == [p \in Procs |-> IF p \in ps /\ Running(p)
                               THEN [proc[p] EXCEPT !.state = "dying"] ELSE proc[p]]

Spawned(ps, p, d, role) ==
    [Killed(ps) EXCEPT ![p] = [state |-> "running", dev |-> d, role |-> role]]

\* A process nobody refers to; which one does not matter.
Unused == LET free == {p \in Procs : proc[p].state = "free" /\ p \notin {captureProc, relayProc}}
          IN IF free = {} THEN {} ELSE {CHOOSE p \in free : TRUE}

\* The window is told as long as there is one.
Send(ms) == inbox' = IF app = "open" THEN inbox \o ms ELSE inbox

Stopped(kind, d) == [kind |-> kind, dev |-> d]

\* (Variant) The next call is not let in after a refusal.
ReturnStuck(d, ok, events) ==
    /\ Send(IF ok THEN Append(events, [kind |-> "answer", call |-> Head(lock[d]), dev |-> d, ok |-> ok])
            ELSE events)
    /\ lock' = [lock EXCEPT ![d] = Tail(@)]
    /\ waiting' = waiting \ {d}

\* A handler returns: its answer goes out after what it has sent, and the next call
\* for the device gets its turn.
Return(d, ok, events) ==
    /\ Send(Append(events, [kind |-> "answer", call |-> Head(lock[d]), dev |-> d, ok |-> ok]))
    /\ lock' = [lock EXCEPT ![d] = Tail(@)]
    /\ waiting' = waiting \ {d}

\* A device is announced until its entry is taken away; one timer sends all entries.
StartBeacon(d) == beacons' = beacons \union {d}
StopBeacon(d) == beacons' = beacons \ {d}

\* The handler of d's first call begins.
Handles(d, op) == lock[d] # <<>> /\ Head(lock[d]).op = op /\ d \notin waiting

-----------------------------------------------------------------------------
(* main.ts, start-capture and stop-capture *)

CaptureAja(d, p) ==
    /\ proc' = Spawned({captureProcs[d]}, p, d, "preview")
    /\ captureProcs' = [captureProcs EXCEPT ![d] = p]
    /\ captureProc' = p

CaptureDeckLink(d, p) == CaptureAja(d, p)

\* Whatever captureProc holds is killed, be it a card's.
CaptureCam(d, p) ==
    /\ proc' = Spawned({captureProc}, p, d, "cam")
    /\ captureProc' = p
    /\ UNCHANGED captureProcs

\* (Variant) The beacon is stopped for all devices when one starts its preview.
StartCaptureSilencing(d) ==
    /\ Handles(d, "start-capture")
    /\ beacons' = {}
    /\ \E p \in Unused : IF d \in Cams THEN CaptureCam(d, p) ELSE CaptureAja(d, p)
    /\ Return(d, TRUE, <<>>)
    /\ UNCHANGED <<relayProc, superseded, app, window, muddled>>

StartCapture(d) ==
    /\ Handles(d, "start-capture")
    /\ StopBeacon(d)
    /\ IF d \in Cards /\ ~installed
       THEN Return(d, FALSE, <<>>) /\ UNCHANGED <<proc, captureProcs, captureProc>>
       ELSE \E p \in Unused :
              /\ CASE d \in Aja -> CaptureAja(d, p)
                   [] d \in DeckLink -> CaptureDeckLink(d, p)
                   [] OTHER -> CaptureCam(d, p)
              /\ Return(d, TRUE, <<>>)
    /\ UNCHANGED <<relayProc, superseded, app, window, muddled>>

\* A webcam has no slot, and nothing is killed.
StopCapture(d) ==
    /\ Handles(d, "stop-capture")
    /\ IF d \in Cards
       THEN /\ proc' = Killed({captureProcs[d]})
            /\ captureProcs' = [captureProcs EXCEPT ![d] = None]
            /\ captureProc' = IF captureProcs[d] = captureProc THEN None ELSE captureProc
       ELSE UNCHANGED <<proc, captureProcs, captureProc>>
    /\ StopBeacon(d)
    /\ Return(d, TRUE, <<Stopped("stream-stopped", d)>>)
    /\ UNCHANGED <<relayProc, superseded, app, window, muddled>>

-----------------------------------------------------------------------------
(* main.ts, start-stream and stop-stream *)

\* Refused at once: no destination, a protocol the device cannot do, no program.
RefuseStream(d) ==
    /\ Handles(d, "start-stream")
    /\ \/ Head(lock[d]).protocol = "udp"
       \/ Head(lock[d]).protocol = "ndi" /\ d \notin Aja
       \/ d \in Cards /\ ~installed
    /\ IF Head(lock[d]).protocol = "udp" /\ d \in Aja /\ ~installed
       THEN StartBeacon(d) ELSE UNCHANGED beacons
    /\ Return(d, FALSE, <<>>)
    /\ UNCHANGED <<proc, captureProcs, captureProc, relayProc, superseded, app, window, muddled>>

\* The pause before the process is started.  UDP and RTP announce themselves before it.
BeginStream(d) ==
    /\ Handles(d, "start-stream") /\ d \in Cards /\ installed
    /\ Head(lock[d]).protocol # "srt" => d \in Aja
    /\ waiting' = waiting \union {d}
    /\ IF Head(lock[d]).protocol = "udp" THEN StartBeacon(d) ELSE UNCHANGED beacons
    /\ UNCHANGED <<proc, captureProcs, captureProc, relayProc, superseded, lock, app, window,
                   inbox, muddled>>

ReplaceStreamProc(d, p, role) ==
    /\ proc' = Spawned({captureProcs[d]}, p, d, role)
    /\ superseded' = IF captureProcs[d] # None THEN superseded \union {d} ELSE superseded
    /\ captureProcs' = [captureProcs EXCEPT ![d] = p]

Streams(d, protocol) == d \in waiting /\ Head(lock[d]).protocol = protocol

PushUdp(d) ==
    /\ Streams(d, "udp")
    /\ \E p \in Unused : ReplaceStreamProc(d, p, "live")
    /\ Return(d, TRUE, <<>>)
    /\ UNCHANGED <<captureProc, relayProc, beacons, app, window, muddled>>

BroadcastNdi(d) ==
    /\ Streams(d, "ndi")
    /\ \E p \in Unused : ReplaceStreamProc(d, p, "ndi")
    /\ Return(d, TRUE, <<>>)
    /\ UNCHANGED <<captureProc, relayProc, beacons, app, window, muddled>>

PublishSrt(d) ==
    /\ Streams(d, "srt")
    /\ \E p \in Unused : ReplaceStreamProc(d, p, "live")
    /\ StartBeacon(d)
    /\ Return(d, TRUE, <<>>)
    /\ UNCHANGED <<captureProc, relayProc, app, window, muddled>>

RelayCam(d) ==
    /\ Handles(d, "start-stream") /\ d \in Cams /\ Head(lock[d]).protocol = "srt"
    /\ \E p \in Unused : proc' = Spawned({relayProc}, p, d, "relay") /\ relayProc' = p
    /\ StartBeacon(d)
    /\ Return(d, TRUE, <<>>)
    /\ UNCHANGED <<captureProcs, captureProc, superseded, app, window, muddled>>

\* With nothing in its slot the device is taken for a webcam.
StopStream(d) ==
    /\ Handles(d, "stop-stream")
    /\ IF d \in Cards /\ captureProcs[d] # None
       THEN /\ proc' = Killed({captureProcs[d]})
            /\ captureProcs' = [captureProcs EXCEPT ![d] = None]
            /\ UNCHANGED relayProc
       ELSE proc' = Killed({relayProc}) /\ relayProc' = None /\ UNCHANGED captureProcs
    /\ StopBeacon(d)
    /\ Return(d, TRUE, <<Stopped("stream-stopped", d), Stopped("capture-stopped", d)>>)
    /\ UNCHANGED <<captureProc, superseded, app, window, muddled>>

-----------------------------------------------------------------------------
(* The ends of processes *)

\* A process ends by itself: the signal is lost, the encoder crashes.
Ends(p) ==
    /\ Running(p)
    /\ proc' = Killed({p})
    /\ UNCHANGED <<captureProcs, captureProc, relayProc, superseded, beacons, lock, waiting,
                   app, window, inbox, muddled>>

\* (Variant) A closed process empties the slot, whoever is in it.
VacatedAlways(d, p) == [captureProcs EXCEPT ![d] = None]

\* Only a process that is still in the slot empties it.
Vacated(d, p) == [captureProcs EXCEPT ![d] = IF @ = p THEN None ELSE @]

\* History: what is sent for p concerns its successor, if there is one.
Misled(d, p, ms) ==
    muddled' = IF ms # <<>> /\ captureProcs[d] \notin {p, None} THEN muddled \union {d} ELSE muddled

PreviewClosed(p) ==
    LET d == proc[p].dev
        ms == IF d \in superseded THEN <<>> ELSE <<Stopped("capture-stopped", d)>>
    IN /\ captureProcs' = Vacated(d, p)
       /\ captureProc' = IF captureProc = p THEN None ELSE captureProc
       /\ superseded' = superseded \ {d}
       /\ Send(ms) /\ Misled(d, p, ms)

\* (Variant) The window is told that the stream has ended, not that the capture has.
StreamClosedAlive(p) ==
    LET ms == <<Stopped("stream-stopped", proc[p].dev)>>
    IN /\ captureProcs' = Vacated(proc[p].dev, p)
       /\ Send(ms) /\ Misled(proc[p].dev, p, ms)
       /\ UNCHANGED <<captureProc, superseded>>

StreamClosed(p) ==
    LET d == proc[p].dev
        ms == <<Stopped("stream-stopped", d), Stopped("capture-stopped", d)>>
    IN /\ captureProcs' = Vacated(d, p)
       /\ Send(ms) /\ Misled(d, p, ms)
       /\ UNCHANGED <<captureProc, superseded>>

CamClosed(p) ==
    /\ Send(<<Stopped(IF proc[p].role = "cam" THEN "capture-stopped" ELSE "stream-stopped",
                      proc[p].dev)>>)
    /\ UNCHANGED <<captureProcs, captureProc, superseded, muddled>>

Closed(p) ==
    /\ proc[p].state = "dying"
    /\ CASE proc[p].role = "preview" -> PreviewClosed(p)
         [] proc[p].role \in {"live", "ndi"} -> StreamClosed(p)
         [] OTHER -> CamClosed(p)
    /\ proc' = [proc EXCEPT ![p] = Free]
    /\ UNCHANGED <<relayProc, beacons, lock, waiting, app, window>>

\* The window is closed: stopAll.  A pause that is over before the process has quit
\* still starts its stream.
CloseWindow ==
    /\ app = "open"
    /\ proc' = Killed({captureProcs[d] : d \in Cards} \union {captureProc, relayProc})
    /\ captureProcs' = [d \in Cards |-> None] /\ captureProc' = None /\ relayProc' = None
    /\ beacons' = {}
    /\ app' = "quitting" /\ inbox' = <<>>
    /\ devices' = {} /\ selected' = None /\ capturing' = None /\ rendered' = {}
    /\ activeIds' = {} /\ liveIds' = {} /\ toggling' = {}
    /\ scan' = [state |-> "none", active |-> {}]
    /\ UNCHANGED <<superseded, lock, waiting, muddled>>

Quit ==
    /\ app = "quitting"
    /\ app' = "gone"
    /\ UNCHANGED <<main, window, inbox, muddled>>

-----------------------------------------------------------------------------
(* main.ts, scan-devices and query-formats: a program that lists what it finds, until a
   time-out resolves the call with nothing. *)

ScanViaSdiStream == {{}, Cards}
ScanAjaPnp == {{}, Aja}
ScanDirectShow == {{}, Cams}

\* The answers of scan-devices, and what comes first in them: a card, if there is one.
ScanDevices == {cards \union cams :
                  cards \in (IF installed THEN ScanViaSdiStream ELSE ScanAjaPnp), cams \in ScanDirectShow}
FirstOf(found) == CHOOSE d \in found : found \intersect Cards # {} => d \in Cards

-----------------------------------------------------------------------------
(* App.tsx *)

Calls(d, op, by, protocol) ==
    lock' = [lock EXCEPT ![d] = Append(@, [op |-> op, by |-> by, protocol |-> protocol])]

\* selectDevice with the activeIds of the render it belongs to: a channel that runs is
\* switched to, another one is started after its formats were asked for (FormatsKnown).
Select(d, active) == selected' = d /\ capturing' = IF d \in active THEN capturing ELSE d

\* A click on the channel that is looked at stops it.
Click(d) ==
    /\ d \in devices /\ capturing = None
    /\ IF d \in activeIds /\ selected = d
       THEN capturing' = d /\ Calls(d, "stop-capture", "click", "srt") /\ UNCHANGED selected
       ELSE Select(d, activeIds) /\ UNCHANGED lock
    /\ UNCHANGED <<proc, captureProcs, captureProc, relayProc, superseded, beacons, waiting, app,
                   devices, activeIds, liveIds, toggling, scan, rendered, inbox, muddled>>

Captures(d) == \E i \in DOMAIN lock[d] : lock[d][i].by = "click"
Answered(d) == \E i \in DOMAIN inbox : inbox[i].kind = "answer" /\ inbox[i].dev = d
                                       /\ inbox[i].call.by = "click"

FormatsKnown ==
    /\ app = "open" /\ capturing # None
    /\ ~Captures(capturing) /\ ~Answered(capturing)
    /\ Calls(capturing, "start-capture", "click", "srt")
    /\ UNCHANGED <<proc, captureProcs, captureProc, relayProc, superseded, beacons, waiting, app,
                   window, inbox, muddled>>

\* The callback of the button belongs to the render in which the selection changed last.
Scan ==
    /\ app = "open" /\ scan.state = "none"
    /\ scan' = IF selected = None THEN [state |-> "first", active |-> rendered]
               ELSE [state |-> "list", active |-> {}]
    /\ UNCHANGED <<main, app, devices, selected, activeIds, liveIds, toggling, capturing, rendered,
                   inbox, muddled>>

Scanned ==
    /\ app = "open" /\ scan.state # "none"
    /\ scan' = [state |-> "none", active |-> {}]
    /\ \E found \in ScanDevices :
         /\ devices' = found
         /\ IF found = {} \/ scan.state = "list" \/ capturing # None
            THEN UNCHANGED <<selected, capturing>>
            ELSE Select(FirstOf(found), scan.active)
    /\ UNCHANGED <<main, app, activeIds, liveIds, toggling, rendered, inbox, muddled>>

ToggleStream(protocol) ==
    /\ app = "open" /\ selected # None /\ selected \notin toggling
    /\ toggling' = toggling \union {selected}
    /\ IF selected \in liveIds THEN Calls(selected, "stop-stream", "toggle", "srt")
       ELSE Calls(selected, "start-stream", "toggle", protocol)
    /\ UNCHANGED <<proc, captureProcs, captureProc, relayProc, superseded, beacons, waiting, app,
                   devices, selected, activeIds, liveIds, capturing, scan, rendered, inbox, muddled>>

\* A live channel is stopped and started again under its new name.
Rename(d) ==
    /\ d \in devices \intersect liveIds
    /\ Calls(d, "stop-stream", "rename", "srt")
    /\ muddled' = muddled \union ({d} \intersect Cards)
    /\ UNCHANGED <<proc, captureProcs, captureProc, relayProc, superseded, beacons, waiting, app,
                   window, inbox>>

OnEvent(m) ==
    /\ IF m.kind = "stream-stopped"
       THEN liveIds' = liveIds \ {m.dev} /\ UNCHANGED activeIds
       ELSE activeIds' = activeIds \ {m.dev} /\ UNCHANGED liveIds
    /\ UNCHANGED <<lock, selected, toggling, capturing, rendered>>

\* selectDevice after its await; what start-capture returned is not looked at.
AfterClick(m) ==
    /\ capturing' = None
    /\ IF m.call.op = "start-capture"
       THEN activeIds' = activeIds \union {m.dev} /\ UNCHANGED <<selected, rendered>>
       ELSE /\ activeIds' = activeIds \ {m.dev} /\ selected' = None /\ rendered' = activeIds'
    /\ UNCHANGED <<lock, liveIds, toggling>>

AfterToggle(m) ==
    /\ toggling' = toggling \ {m.dev}
    /\ liveIds' = IF m.call.op = "stop-stream" THEN liveIds \ {m.dev}
                  ELSE IF m.ok THEN liveIds \union {m.dev} ELSE liveIds
    /\ UNCHANGED <<lock, selected, activeIds, capturing, rendered>>

AfterRename(m, protocol) ==
    /\ IF m.call.op = "stop-stream"
       THEN Calls(m.dev, "start-stream", "rename", protocol) /\ UNCHANGED liveIds
       ELSE liveIds' = (IF m.ok THEN liveIds ELSE liveIds \ {m.dev}) /\ UNCHANGED lock
    /\ UNCHANGED <<selected, activeIds, toggling, capturing, rendered>>

Receive ==
    /\ app = "open" /\ inbox # <<>>
    /\ inbox' = Tail(inbox)
    /\ LET m == Head(inbox)
       IN IF m.kind # "answer" THEN OnEvent(m)
          ELSE CASE m.call.by = "click" -> AfterClick(m)
                 [] m.call.by = "toggle" -> AfterToggle(m)
                 [] OTHER -> \E protocol \in Protocols : AfterRename(m, protocol)
    /\ UNCHANGED <<proc, captureProcs, captureProc, relayProc, superseded, beacons, waiting, app,
                   devices, scan, muddled>>

-----------------------------------------------------------------------------
User == /\ ops < MaxOps /\ ops' = ops + 1 /\ UNCHANGED ends
        /\ \/ \E d \in Devices : Click(d) \/ Rename(d)
           \/ \E protocol \in Protocols : ToggleStream(protocol)
           \/ Scan \/ CloseWindow

Dies == ends < MaxEnds /\ ends' = ends + 1 /\ UNCHANGED ops /\ \E p \in Procs : Ends(p)

Handler(d) == \/ StartCapture(d) \/ StopCapture(d) \/ StopStream(d)
              \/ RefuseStream(d) \/ BeginStream(d) \/ RelayCam(d)
              \/ PushUdp(d) \/ BroadcastNdi(d) \/ PublishSrt(d)

\* Handlers run, pauses and scans end, killed processes close, the window reads.
System == /\ \/ \E d \in Devices : Handler(d)
             \/ \E p \in Procs : Closed(p)
             \/ FormatsKnown \/ Scanned \/ Receive \/ Quit
          /\ app # "gone" /\ UNCHANGED <<installed, ops, ends>>

Next == \/ app # "gone" /\ UNCHANGED installed /\ (User \/ Dies)
        \/ System

\* The system goes on as long as anything can; each call, message and end is handled once.
Fairness == WF_vars(System)

Spec == Init /\ [][Next]_vars /\ Fairness

-----------------------------------------------------------------------------
(* What makes it correct *)

\* A card is captured by one process at a time, and it is the one in its slot: neither
\* clicks that overlap nor the late close of a replaced process leave one running that
\* nobody can stop (main.ts:168, 920).
OneProcessPerCard ==
    \A p \in Procs : Running(p) /\ proc[p].dev \in Cards => captureProcs[proc[p].dev] = p

Streaming(d) == \E p \in Procs : Running(p) /\ proc[p].dev = d /\ proc[p].role \in {"live", "ndi"}
Capturing(d) == \E p \in Procs : Running(p) /\ proc[p].dev = d

Quiet(d) == /\ lock[d] = <<>> /\ \A i \in DOMAIN inbox : inbox[i].dev # d
            /\ \A p \in Procs : proc[p].dev = d => proc[p].state # "dying"

\* When all that was sent has been read, a channel is shown live if and only if it is
\* streaming, and no dead channel is left among the active ones, where a click would
\* only attach to it (App.tsx:342) - unless it was renamed while it was live, or a
\* process of it ended after its successor had been started.
WindowAgrees ==
    app = "open" /\ installed => \A d \in Cards \ muddled : Quiet(d) =>
        (d \in liveIds <=> Streaming(d)) /\ (d \in activeIds => Capturing(d))

\* A channel that streams to the network is announced to receivers, whatever other
\* channels do (main.ts:848, 1695).
LiveIsAnnounced ==
    app = "open" => \A p \in Procs : Running(p) /\ proc[p].role = "live" => proc[p].dev \in beacons

\* A click on Go Live or on a source is answered in the end: calls for one device wait
\* for each other, never for ever (main.ts:178).
ClicksAreAnswered ==
    /\ \A d \in Devices : (d \in toggling) ~> (d \notin toggling)
    /\ (capturing # None) ~> (capturing = None)

-----------------------------------------------------------------------------
(* What the code does not keep; see the README. *)

\* A channel that runs has its tile.
RunningIsShown ==
    app = "open" => \A d \in Cards \ muddled : Quiet(d) /\ Streaming(d) => d \in activeIds

\* A channel that is announced is streaming.
AnnouncedIsLive == \A d \in Cards : Quiet(d) /\ d \in beacons => Streaming(d)

\* The processes end with the application (stopAll, main.ts:255).
NothingOutlives == app = "gone" => \A p \in Procs : ~Running(p)

\* A webcam that was stopped is not captured any more.
StoppedCamEnds == \A d \in Cams : Quiet(d) /\ Capturing(d) => d \in activeIds

=============================================================================
