---------------------------- MODULE ServerPlayer ----------------------------
(***************************************************************************)
(* The server-side music player of the comms server                        *)
(* (src/comms/server/player.js), with the two callers of it: the admin's   *)
(* player route (admin.js) and syncPlayers after a directory edit          *)
(* (server.js).  Channels do not influence each other, so this is one      *)
(* channel.                                                                *)
(*                                                                         *)
(* start() and stop() are asynchronous and nothing serialises them: each   *)
(* await is a point where another request, edit or event may come in.  The *)
(* player objects that start() creates are the elements of Players; at     *)
(* most one of them is in the `players` map.  One action per call, awaited *)
(* answer, event of the ffmpeg process and timer.  ffmpeg and LiveKit are  *)
(* external.                                                               *)
(***************************************************************************)
EXTENDS Naturals, FiniteSets

CONSTANTS Players,      \* bound: the player objects that start() may create
          None,
          Urls,         \* the stream URLs an admin may save
          FirstUrl,     \* the URL saved at first, or None
          MaxQuickFails,\* MAX_QUICK_FAILS (5 in the code)
          StableRuns,   \* may a run of ffmpeg last STABLE_MS?
          MaxEdits      \* bound: directory edits

ASSUME PlayerAssumption ==
  /\ None \notin Players \cup Urls /\ FirstUrl \in Urls \cup {None}
  /\ MaxQuickFails \in Nat \ {0} /\ MaxEdits \in Nat
  /\ StableRuns \in BOOLEAN

VARIABLES
  saved,      \* the channel's stream URL in the directory; None: no music here
  current,    \* the channel's entry in the `players` map
  url,        \* p.url
  phase,      \* how far start() is with p: "unborn", "connecting", "publishing", "done"
  state,      \* p.state
  stopped,    \* p.stopped
  room,       \* p.room and p.source are set
  conn,       \* LiveKit: p's room is connected
  sid,        \* p.sid is set: the track is published
  proc,       \* p's ffmpeg: "none", "alive", "ended" ('close' to be handled),
              \* "missing" (could not be spawned, 'error' to be handled)
  timer,      \* the restart timer of p is running
  fails,      \* p.fails
  frame,      \* a read loop of p waits for captureFrame
  closing,    \* what stop(p) does after teardown(p): "no", "stop", or "start" anew
  failing,    \* fail(p) waits for teardown(p)
  awaiting,   \* which teardowns of p wait for its room to disconnect
  next,       \* the URL for the player that follows p (closing[p] = "start")
  announced,  \* clients were told that SERVER PLAYER is on
  edits,
  \* History, read by no action:
  speaker,    \* whose change of state onPlayerChange was called with last; None: 'idle'
  older,      \* the players whose stop() a start() was waiting for when p entered the map
  missed,     \* players of a start() that waited while the channel was edited
  late        \* failed players that a frame set to playing again

object   == <<url, phase, state, stopped, room, conn, sid>>
process  == <<proc, timer, fails, frame>>
teardowns == <<closing, failing, awaiting, next>>
told     == <<announced, speaker>>
memory   == <<older, missed, late>>
vars == <<saved, current, object, process, teardowns, told, edits, memory>>

TypeOK ==
  /\ saved \in Urls \cup {None}
  /\ current \in Players \cup {None}
  /\ url \in [Players -> Urls \cup {None}]
  /\ phase \in [Players -> {"unborn", "connecting", "publishing", "done"}]
  /\ state \in [Players -> {"starting", "playing", "error"}]
  /\ stopped \in [Players -> BOOLEAN]
  /\ room \in [Players -> BOOLEAN]
  /\ conn \in [Players -> BOOLEAN]
  /\ sid \in [Players -> BOOLEAN]
  /\ proc \in [Players -> {"none", "alive", "ended", "missing"}]
  /\ timer \in [Players -> BOOLEAN]
  /\ fails \in [Players -> 0..MaxQuickFails]
  /\ frame \in [Players -> BOOLEAN]
  /\ closing \in [Players -> {"no", "stop", "start"}]
  /\ failing \in [Players -> BOOLEAN]
  /\ awaiting \in [Players -> SUBSET {"stop", "fail"}]
  /\ next \in [Players -> Urls \cup {None}]
  /\ announced \in BOOLEAN
  /\ edits \in 0..MaxEdits
  /\ speaker \in Players \cup {None}
  /\ older \in [Players -> SUBSET Players]
  /\ missed \subseteq Players /\ late \subseteq Players

Init ==
  /\ saved = FirstUrl /\ current = None
  /\ url = [p \in Players |-> None] /\ phase = [p \in Players |-> "unborn"]
  /\ state = [p \in Players |-> "starting"] /\ stopped = [p \in Players |-> FALSE]
  /\ room = [p \in Players |-> FALSE] /\ conn = [p \in Players |-> FALSE]
  /\ sid = [p \in Players |-> FALSE] /\ proc = [p \in Players |-> "none"]
  /\ timer = [p \in Players |-> FALSE] /\ fails = [p \in Players |-> 0]
  /\ frame = [p \in Players |-> FALSE] /\ closing = [p \in Players |-> "no"]
  /\ failing = [p \in Players |-> FALSE] /\ awaiting = [p \in Players |-> {}]
  /\ next = [p \in Players |-> None] /\ announced = FALSE /\ edits = 0
  /\ speaker = None /\ older = [p \in Players |-> {}] /\ missed = {} /\ late = {}

StopMayGoOn(p) == closing[p] # "no" /\ "stop" \notin awaiting[p]
FailMayGoOn(p) == failing[p] /\ "fail" \notin awaiting[p]
\* A teardown with nothing (more) to wait for goes on before any other event.
Settled == \A p \in Players : ~StopMayGoOn(p) /\ ~FailMayGoOn(p)

\* The players whose teardown a start() waits for.
Waiting == {p \in Players : closing[p] = "start"}

-----------------------------------------------------------------------------
(* The synchronous pieces of player.js.                                    *)

\* teardown(p), called by stop or fail, up to its first await.  (Operators marked
\* variant are for the mutants of PROJECT.json.)
TeardownForgetful(p, caller) ==  \* (variant: p does not learn that it was stopped)
  /\ UNCHANGED stopped
  /\ timer' = [timer EXCEPT ![p] = FALSE]
  /\ proc' = [proc EXCEPT ![p] = "none"]
  /\ awaiting' = [awaiting EXCEPT ![p] = IF room[p] THEN @ \cup {caller} ELSE @]
  /\ room' = [room EXCEPT ![p] = FALSE]
Teardown(p, caller) ==
  /\ stopped' = [stopped EXCEPT ![p] = TRUE]
  /\ timer' = [timer EXCEPT ![p] = FALSE]
  /\ proc' = [proc EXCEPT ![p] = "none"]
  /\ awaiting' = [awaiting EXCEPT ![p] = IF room[p] THEN @ \cup {caller} ELSE @]
  /\ room' = [room EXCEPT ![p] = FALSE]

\* stop(ch), of the player p in the map, and then start(ch, u) if how = "start".
Stop(p, how, u) ==
  /\ current' = None
  /\ Teardown(p, "stop")
  /\ closing' = [closing EXCEPT ![p] = how] /\ next' = [next EXCEPT ![p] = u]
  /\ UNCHANGED <<url, phase, state, conn, sid, fails, frame, failing, told>>

\* fail(p, e): tear down, then report the error.
Fail(p) == Teardown(p, "fail") /\ failing' = [failing EXCEPT ![p] = TRUE]

\* The second half of start(): a new player enters the map, whatever is there.
\* (Any fresh object will do.)
Create(u) == \E p \in Players :
  /\ phase[p] = "unborn" /\ p = CHOOSE q \in Players : phase[q] = "unborn"
  /\ current' = p
  /\ url' = [url EXCEPT ![p] = u] /\ phase' = [phase EXCEPT ![p] = "connecting"]
  /\ announced' = FALSE /\ speaker' = p
  /\ older' = [older EXCEPT ![p] = {q \in Waiting : closing'[q] = "start"}]

\* run(): start ffmpeg, which may be missing.
Run(p) == \E o \in {"alive", "missing"} : proc' = [proc EXCEPT ![p] = o]

\* set(p, s), which tells the comms server (onPlayerChange) if anything changed.
Set(p, s) ==
  /\ state' = [state EXCEPT ![p] = s]
  /\ IF state[p] = s THEN UNCHANGED told ELSE announced' = (s = "playing") /\ speaker' = p

-----------------------------------------------------------------------------
(* The admin: the player route and edits of the channel.                   *)

StartRequest ==
  /\ Settled /\ saved # None
  /\ Cardinality(Waiting) <   \* the bound on players
       Cardinality({p \in Players : phase[p] = "unborn"})
  /\ IF current = None
     THEN /\ UNCHANGED <<state, stopped, room, conn, sid, process, teardowns>>
          /\ Create(saved)
     ELSE Stop(current, "start", saved) /\ UNCHANGED older
  /\ UNCHANGED <<saved, edits, missed, late>>

StopRequest ==
  /\ Settled /\ current # None
  /\ Stop(current, "stop", None)
  /\ UNCHANGED <<saved, edits, memory>>

\* updateChannel or deleteChannel, then refreshAll -> syncPlayers.
Edit(u) ==
  /\ Settled /\ edits < MaxEdits /\ u # saved
  /\ saved' = u /\ edits' = edits + 1
  /\ missed' = missed \cup Waiting /\ UNCHANGED <<older, late>>
  /\ IF current # None /\ url[current] # u THEN Stop(current, "stop", None)
     ELSE UNCHANGED <<current, object, process, teardowns, told>>

\* stop() goes on after its teardown: 'idle' is announced; a start() that
\* waited for it then creates its player.
StopDone(p) ==
  /\ StopMayGoOn(p)
  /\ closing' = [closing EXCEPT ![p] = "no"] /\ next' = [next EXCEPT ![p] = None]
  /\ IF closing[p] = "start"
     THEN /\ Create(next[p])
          /\ missed' = IF p \in missed THEN (missed \ {p}) \cup {current'} ELSE missed
     ELSE /\ announced' = FALSE /\ speaker' = None
          /\ UNCHANGED <<current, url, phase, older, missed>>
  /\ UNCHANGED <<saved, state, stopped, room, conn, sid, process, failing, awaiting, edits, late>>

\* fail() goes on after its teardown: it reports only if p is still in the map.
FailDone(p) ==
  /\ FailMayGoOn(p)
  /\ failing' = [failing EXCEPT ![p] = FALSE]
  /\ IF current = p THEN Set(p, "error") ELSE UNCHANGED <<state, told>>
  /\ UNCHANGED <<saved, current, url, phase, stopped, room, conn, sid, process, closing,
                 awaiting, next, edits, memory>>

-----------------------------------------------------------------------------
(* start(): the answers of LiveKit.                                        *)

ConnectedUnchecked(p) ==  \* (variant: nobody asks whether p was stopped meanwhile)
  /\ Settled /\ phase[p] = "connecting"
  /\ conn' = [conn EXCEPT ![p] = TRUE] /\ room' = [room EXCEPT ![p] = TRUE]
  /\ phase' = [phase EXCEPT ![p] = "publishing"]
  /\ UNCHANGED <<saved, current, url, state, stopped, sid, process, teardowns,
                 told, edits, memory>>
\* room.connect resolved.  A player stopped in the meantime hangs up again.
Connected(p) ==
  /\ Settled /\ phase[p] = "connecting"
  /\ IF stopped[p]
     THEN phase' = [phase EXCEPT ![p] = "done"] /\ UNCHANGED <<room, conn>>
     ELSE /\ phase' = [phase EXCEPT ![p] = "publishing"]
          /\ conn' = [conn EXCEPT ![p] = TRUE] /\ room' = [room EXCEPT ![p] = TRUE]
  /\ UNCHANGED <<saved, current, url, state, stopped, sid, process, teardowns,
                 told, edits, memory>>

\* publishTrack resolved: run() starts ffmpeg unless p was stopped.
Published(p) ==
  /\ Settled /\ phase[p] = "publishing"
  /\ phase' = [phase EXCEPT ![p] = "done"] /\ sid' = [sid EXCEPT ![p] = TRUE]
  /\ IF stopped[p] THEN UNCHANGED proc ELSE Run(p)
  /\ UNCHANGED <<saved, current, url, state, stopped, room, conn, timer, fails,
                 frame, teardowns, told, edits, memory>>

\* connect or publish threw: reported only if p is still in the map.
StartThrows(p) ==
  /\ Settled /\ phase[p] \in {"connecting", "publishing"}
  /\ phase' = [phase EXCEPT ![p] = "done"]
  /\ IF current = p THEN Fail(p)
     ELSE UNCHANGED <<stopped, room, proc, timer, failing, awaiting>>
  /\ UNCHANGED <<saved, current, url, state, conn, sid, fails, frame, closing, next,
                 told, edits, memory>>

\* External: the room of a teardown has disconnected.
Disconnected(p) ==
  /\ Settled /\ awaiting[p] # {}
  /\ awaiting' = [awaiting EXCEPT ![p] = {}] /\ conn' = [conn EXCEPT ![p] = FALSE]
  /\ UNCHANGED <<saved, current, url, phase, state, stopped, room, sid, process,
                 closing, failing, next, told, edits, memory>>

-----------------------------------------------------------------------------
(* The ffmpeg process of p, the loop that reads it and the restart timer.  *)

\* External: ffmpeg delivers a chunk; the loop hands its first frame over.
Chunk(p) ==
  /\ Settled /\ proc[p] = "alive" /\ ~frame[p]
  /\ frame' = [frame EXCEPT ![p] = TRUE]
  /\ UNCHANGED <<saved, current, object, proc, timer, fails, teardowns, told, edits, memory>>

\* captureFrame resolved: p plays.  The loop does not ask whether p was stopped
\* during the await; it does before the chunk's next frame.
Captured(p) ==
  /\ Settled /\ frame[p]
  /\ Set(p, "playing")
  /\ late' = IF stopped[p] /\ ~failing[p] /\ current = p THEN {p} ELSE late
  /\ \E more \in BOOLEAN : frame' = [frame EXCEPT ![p] = more /\ ~stopped[p]]
  /\ UNCHANGED <<saved, current, url, phase, stopped, room, conn, sid, proc, timer,
                 fails, teardowns, edits, older, missed>>

\* captureFrame threw: the loop ends and with it the pipe that ffmpeg writes to.
CaptureThrows(p) ==
  /\ Settled /\ frame[p]
  /\ frame' = [frame EXCEPT ![p] = FALSE]
  /\ proc' = [proc EXCEPT ![p] = IF @ = "alive" THEN "ended" ELSE @]
  /\ UNCHANGED <<saved, current, object, timer, fails, teardowns, told, edits, memory>>

\* External: ffmpeg exits (the stream dropped or came to its end).
Exits(p) ==
  /\ Settled /\ proc[p] = "alive"
  /\ proc' = [proc EXCEPT ![p] = "ended"]
  /\ UNCHANGED <<saved, current, object, timer, fails, frame, teardowns, told, edits, memory>>

ClosedForgiving(p) ==  \* (variant: every run clears the count)
  /\ Settled /\ proc[p] = "ended"
  /\ proc' = [proc EXCEPT ![p] = "none"] /\ timer' = [timer EXCEPT ![p] = TRUE]
  /\ Set(p, "starting")
  /\ UNCHANGED <<saved, current, url, phase, stopped, room, conn, sid, fails, frame,
                 teardowns, edits, memory>>
\* ffmpeg's 'close' event: play again in a while, or give up after too many
\* short runs.
Closed(p) ==
  /\ Settled /\ proc[p] = "ended"
  /\ \E stable \in {FALSE, StableRuns} :
       fails' = [fails EXCEPT ![p] = IF stable THEN 0 ELSE @ + 1]
  /\ IF fails'[p] >= MaxQuickFails
     THEN Fail(p) /\ UNCHANGED <<state, told>>
     ELSE /\ proc' = [proc EXCEPT ![p] = "none"]
          /\ timer' = [timer EXCEPT ![p] = TRUE]
          /\ Set(p, "starting")
          /\ UNCHANGED <<stopped, room, failing, awaiting>>
  /\ UNCHANGED <<saved, current, url, phase, conn, sid, frame, closing, next, edits, memory>>

\* ffmpeg's 'error' event: it could not be started.
NotSpawned(p) ==
  /\ Settled /\ proc[p] = "missing"
  /\ Fail(p)
  /\ UNCHANGED <<saved, current, url, phase, state, conn, sid, fails, frame, closing,
                 next, told, edits, memory>>

\* The restart timer: run() again.
Restart(p) ==
  /\ Settled /\ timer[p]
  /\ timer' = [timer EXCEPT ![p] = FALSE]
  /\ IF stopped[p] THEN UNCHANGED proc ELSE Run(p)
  /\ UNCHANGED <<saved, current, object, fails, frame, teardowns, told, edits, memory>>

-----------------------------------------------------------------------------
Admin == StartRequest \/ StopRequest \/ \E u \in Urls \cup {None} : Edit(u)

Event(p) ==
  \/ StopDone(p) \/ FailDone(p)
  \/ Connected(p) \/ Published(p) \/ StartThrows(p) \/ Disconnected(p)
  \/ Captured(p) \/ CaptureThrows(p) \/ Closed(p) \/ NotSpawned(p) \/ Restart(p)

Ffmpeg(p) == Chunk(p) \/ Exits(p)

Next == Admin \/ \E p \in Players : Event(p) \/ Ffmpeg(p)

Spec == Init /\ [][Next]_vars

(* Fairness: awaited answers arrive, events and timers are handled.  Nobody *)
(* has to press a button and ffmpeg need not do anything.                   *)
FairSpec ==
  /\ Spec
  /\ \A p \in Players :
       /\ WF_vars(StopDone(p)) /\ WF_vars(FailDone(p)) /\ WF_vars(Disconnected(p))
       /\ WF_vars(Connected(p) \/ Published(p) \/ StartThrows(p))
       /\ WF_vars(Captured(p) \/ CaptureThrows(p))
       /\ WF_vars(Closed(p)) /\ WF_vars(NotSpawned(p)) /\ WF_vars(Restart(p))

-----------------------------------------------------------------------------
(* Properties.                                                             *)

Born(p) == phase[p] # "unborn"
\* playing(): what reconcile routes to the listeners.
OnAir == current # None /\ state[current] = "playing" /\ sid[current]

\* A stopped player lets go of everything, however far its start had come when
\* it was stopped and whichever events were still to be handled: it has no
\* ffmpeg, no timer, and once nothing of it is awaited no room either
\* (player.test.js:44, "stop cleans up").
StoppedLetsGo ==
  \A p \in Players : stopped[p] =>
    /\ proc[p] = "none" /\ ~timer[p]
    /\ phase[p] = "done" /\ awaiting[p] = {} => ~conn[p]

\* A stream that keeps failing quickly is not restarted for ever: if no run is
\* stable ffmpeg exits only so many times.
GivesUp == <>[](\A p \in Players : proc[p] # "ended")

\* Starting again replaces the old player (player.test.js:90), so the admin can stop
\* the one that runs.  Two overlapping starts are the exception: a player that was
\* neither stopped nor is in the map was pushed out of it by an *older* start, one
\* that was already waiting for its stop() when the player entered the map.
LostToAnOlderStart ==
  \A p \in Players : Born(p) /\ ~stopped[p] /\ current # p =>
    \E q \in older[p] : closing[q] # "start"

\* comms/README.md:48, "Changing the channel's stream URL or music setting stops
\* it": the player in the map plays what the directory says now, however often it
\* was edited, unless its start() read the URL and then waited while it was edited.
OldUrlAfterAWait == current # None => url[current] = saved \/ current \in missed

\* server.js:141, clients see the player as the sender SERVER PLAYER: what the
\* player in the map told them stays true until another one speaks, a replaced one's
\* late 'idle' or frame, or a lost one.
OwnWordHolds == speaker = current => announced = OnAir

\* comms/README.md:47, it "stops with the reason shown": a player that failed stays
\* in the map with its error until it is replaced or a late frame says it plays.
ReasonStaysUnlessLate ==
  \A p \in Players : current = p /\ stopped[p] /\ ~failing[p] =>
    state[p] = IF p \in late THEN "playing" ELSE "error"

\* What holds at every moment, whichever requests, edits, ends of ffmpeg and late
\* frames meet around the awaits of stop(), start() and fail(): the only ways in
\* which the player in the map is not the one that runs, plays another URL, is
\* announced wrongly or loses its error are the four named above.
PlayerIsSound ==
  TypeOK /\ LostToAnOlderStart /\ OldUrlAfterAWait /\ OwnWordHolds /\ ReasonStaysUnlessLate

\* The same without the exceptions, which the code does not keep (README.md).
ReplacedIsStopped ==
  \A p \in Players : Born(p) /\ ~stopped[p] => current = p
PlaysSavedUrl == current # None => url[current] = saved
AnnouncedIsOnAir ==
  (\A p \in Players : closing[p] = "no" /\ ~failing[p]) => announced = OnAir
ReasonStays ==
  \A p \in Players : current = p /\ stopped[p] /\ ~failing[p] => state[p] = "error"
=============================================================================
