------------------------- MODULE ServerPlayer_proofs -------------------------
(***************************************************************************)
(* Proofs about ServerPlayer, for any players, stream URLs, number of      *)
(* failures and edits, whoever calls start() and stop() at whatever moment *)
(* and whenever a frame returns.                                           *)
(***************************************************************************)
EXTENDS ServerPlayer, TLAPS

\* What stop() and fail() leave behind: nothing that could act again, no room
\* but one that a teardown has taken out of p and still waits for.
LetGoInv ==
  \A p \in Players :
    /\ stopped[p] => proc[p] = "none" /\ ~timer[p] /\ ~room[p]
    /\ conn[p] => room[p] \/ awaiting[p] # {}

\* A player is given up for its failures at once.
CountInv == \A p \in Players : fails[p] = MaxQuickFails => stopped[p]

\* ffmpeg, its timer and its frames come after the start of a player, an error
\* too; the player in the map has been created.
StartInv ==
  /\ \A p \in Players :
       /\ phase[p] = "unborn" => ~stopped[p]
       /\ phase[p] # "done" => state[p] = "starting" /\ ~failing[p]
       /\ proc[p] # "none" \/ timer[p] \/ frame[p] => phase[p] = "done" /\ sid[p]
  /\ current # None => phase[current] # "unborn"

\* A start() that waits has taken its player out of the map for good; the player
\* in the map knows every start() that waits, and so does whoever comes after it.
OlderInv ==
  /\ \A q \in Players : closing[q] = "start" => Born(q) /\ q # current
  /\ \A p \in Players : \A q \in older[p] : Born(q) /\ q # current
  /\ \A p, q \in Players : current = p /\ closing[q] = "start" => q \in older[p]

\* A start() that waits holds the URL that is still saved, unless it was edited.
UrlInv == \A q \in Players : closing[q] = "start" => next[q] = saved \/ q \in missed

\* When 'idle' was said last nobody is announced.
IdleInv == speaker = None => announced = FALSE

\* A frame is late for a player that failed.
LateInv == \A p \in Players : p \in late => stopped[p] /\ ~failing[p]

\* The inductive invariants: of the player objects, and of the map.
AnyInv == TypeOK /\ LetGoInv /\ CountInv /\ StartInv
LostInv == LostToAnOlderStart /\ OlderInv
SavedInv == OldUrlAfterAWait /\ UrlInv
WordInv == OwnWordHolds /\ IdleInv
ReasonInv == ReasonStaysUnlessLate /\ LateInv
SoundInv == LostInv /\ SavedInv /\ WordInv /\ ReasonInv

-----------------------------------------------------------------------------
(* The pieces that several actions share.                                  *)

LEMMA TeardownTypes ==
  ASSUME TypeOK, NEW p \in Players, NEW caller \in {"stop", "fail"}, Teardown(p, caller)
  PROVE  /\ stopped' \in [Players -> BOOLEAN] /\ timer' \in [Players -> BOOLEAN]
         /\ proc' \in [Players -> {"none", "alive", "ended", "missing"}]
         /\ awaiting' \in [Players -> SUBSET {"stop", "fail"}]
         /\ room' \in [Players -> BOOLEAN]
<1>1. stopped' \in [Players -> BOOLEAN] /\ timer' \in [Players -> BOOLEAN] /\ room' \in [Players -> BOOLEAN]
  BY DEF Teardown, TypeOK
<1>2. proc' \in [Players -> {"none", "alive", "ended", "missing"}] BY DEF Teardown, TypeOK
<1>3. awaiting' \in [Players -> SUBSET {"stop", "fail"}]
  <2>1. \A q \in Players : awaiting[q] \cup {caller} \in SUBSET {"stop", "fail"} BY DEF TypeOK
  <2> QED BY <2>1 DEF Teardown, TypeOK
<1> QED BY <1>1, <1>2, <1>3

\* A teardown lets go of everything; a room it disconnects is waited for.
LEMMA TeardownLetsGo ==
  ASSUME TypeOK, LetGoInv, NEW p \in Players, NEW caller \in {"stop", "fail"},
         Teardown(p, caller), UNCHANGED conn
  PROVE  LetGoInv'
<1> SUFFICES ASSUME NEW q \in Players
             PROVE  /\ stopped'[q] => proc'[q] = "none" /\ ~timer'[q] /\ ~room'[q]
                    /\ conn'[q] => room'[q] \/ awaiting'[q] # {}
  BY DEF LetGoInv
<1>1. CASE q = p
  <2>1. proc'[p] = "none" /\ ~timer'[p] /\ ~room'[p] BY DEF Teardown, TypeOK
  <2>2. room[p] => caller \in awaiting'[p] BY DEF Teardown, TypeOK
  <2>3. ~room[p] => awaiting'[p] = awaiting[p] BY DEF Teardown, TypeOK
  <2> QED BY <1>1, <2>1, <2>2, <2>3 DEF LetGoInv
<1>2. CASE q # p
  <2>1. /\ stopped'[q] = stopped[q] /\ proc'[q] = proc[q] /\ timer'[q] = timer[q]
        /\ room'[q] = room[q] /\ awaiting'[q] = awaiting[q]
    BY <1>2 DEF Teardown, TypeOK
  <2> QED BY <2>1 DEF LetGoInv
<1> QED BY <1>1, <1>2

LEMMA CreateTypes ==
  ASSUME TypeOK, NEW u \in Urls \cup {None}, Create(u)
  PROVE  /\ current' \in Players /\ speaker' \in Players /\ older' \in [Players -> SUBSET Players]
         /\ url' \in [Players -> Urls \cup {None}]
         /\ phase' \in [Players -> {"unborn", "connecting", "publishing", "done"}]
         /\ announced' \in BOOLEAN
<1>1. PICK p \in Players :
        /\ current' = p /\ announced' = FALSE /\ speaker' = p
        /\ older' = [older EXCEPT ![p] = {q \in Waiting : closing'[q] = "start"}]
        /\ url' = [url EXCEPT ![p] = u] /\ phase' = [phase EXCEPT ![p] = "connecting"]
  BY DEF Create
<1>2. url' \in [Players -> Urls \cup {None}] BY <1>1 DEF TypeOK
<1>3. phase' \in [Players -> {"unborn", "connecting", "publishing", "done"}] BY <1>1 DEF TypeOK
<1>4. older' \in [Players -> SUBSET Players]
  <2>1. {q \in Waiting : closing'[q] = "start"} \subseteq Players BY DEF Waiting
  <2> QED BY <1>1, <2>1 DEF TypeOK
<1> QED BY <1>1, <1>2, <1>3, <1>4

LEMMA StopKeeps ==
  ASSUME AnyInv, current # None, NEW how \in {"stop", "start"}, NEW u \in Urls \cup {None},
         Stop(current, how, u), saved' \in Urls \cup {None}, edits' \in 0..MaxEdits,
         missed' \subseteq Players, UNCHANGED <<older, late>>
  PROVE  AnyInv'
<1> USE DEF AnyInv
<1>1. current \in Players /\ Teardown(current, "stop") BY DEF TypeOK, Stop
<1>2. LetGoInv' BY <1>1, TeardownLetsGo DEF Stop
<1>3. closing' \in [Players -> {"no", "stop", "start"}] /\ next' \in [Players -> Urls \cup {None}]
  BY DEF Stop, TypeOK
<1>4. TypeOK' BY <1>1, <1>3, TeardownTypes DEF Stop, told, TypeOK
<1>5. CountInv' BY <1>1 DEF Stop, Teardown, CountInv
<1>6. StartInv' BY <1>1 DEF Stop, Teardown, StartInv
<1> QED BY <1>2, <1>4, <1>5, <1>6

LEMMA FailKeeps ==
  ASSUME AnyInv, NEW p \in Players, Fail(p), phase'[p] = "done",
         phase' \in [Players -> {"unborn", "connecting", "publishing", "done"}],
         \A q \in Players \ {p} : phase'[q] = phase[q] /\ fails'[q] = fails[q],
         fails' \in [Players -> 0..MaxQuickFails],
         UNCHANGED <<saved, current, url, state, conn, sid, frame, closing, next, told, edits, older, missed, late>>,
         phase[p] # "done" => state[p] = "starting" /\ ~frame[p],
         phase[p] # "unborn"
  PROVE  AnyInv'
<1> USE DEF AnyInv
<1>1. Teardown(p, "fail") BY DEF Fail
<1>2. LetGoInv' BY <1>1, TeardownLetsGo
<1>3. failing' \in [Players -> BOOLEAN] BY DEF Fail, TypeOK
<1>4. TypeOK' BY <1>1, <1>3, TeardownTypes DEF told, TypeOK
<1>5. CountInv' BY <1>1 DEF Teardown, TypeOK, CountInv
<1>6. StartInv' BY <1>1 DEF Fail, Teardown, TypeOK, StartInv
<1> QED BY <1>2, <1>4, <1>5, <1>6

-----------------------------------------------------------------------------
(* Every action keeps the invariant, whoever calls.                        *)

LEMMA StartRequestKeeps ==
  ASSUME AnyInv, StartRequest
  PROVE  AnyInv'
<1> USE PlayerAssumption DEF AnyInv, object, process, teardowns, told, memory
<1>1. CASE current = None
  <2>1. /\ saved \in Urls \cup {None} /\ Create(saved)
        /\ UNCHANGED <<saved, edits, state, stopped, room, conn, sid, process, teardowns, missed, late>>
    BY <1>1 DEF StartRequest, TypeOK
  <2>2. TypeOK' BY <2>1, CreateTypes DEF TypeOK
  <2>3. LetGoInv' BY <2>1 DEF LetGoInv
  <2>4. CountInv' BY <2>1 DEF CountInv
  <2>5. StartInv' BY <2>1 DEF Create, TypeOK, StartInv
  <2> QED BY <2>2, <2>3, <2>4, <2>5
<1>2. CASE current # None
  BY <1>2, StopKeeps DEF StartRequest, TypeOK
<1> QED BY <1>1, <1>2

LEMMA StopRequestKeeps ==
  ASSUME AnyInv, StopRequest
  PROVE  AnyInv'
<1> USE PlayerAssumption DEF AnyInv, object, process, teardowns, told, memory
<1> QED BY StopKeeps DEF StopRequest, TypeOK

LEMMA EditKeeps ==
  ASSUME AnyInv, NEW u \in Urls \cup {None}, Edit(u)
  PROVE  AnyInv'
<1> USE PlayerAssumption DEF AnyInv, object, process, teardowns, told, memory
<1>1. /\ saved' \in Urls \cup {None} /\ edits' \in 0..MaxEdits
      /\ missed' \subseteq Players /\ UNCHANGED <<older, late>>
  BY DEF Edit, Waiting, TypeOK
<1>2. CASE current # None /\ url[current] # u
  BY <1>1, <1>2, StopKeeps DEF Edit, TypeOK
<1>3. CASE ~(current # None /\ url[current] # u)
  <2>1. UNCHANGED <<current, object, process, teardowns, told>> BY <1>3 DEF Edit
  <2> QED BY <1>1, <2>1 DEF TypeOK, LetGoInv, CountInv, StartInv
<1> QED BY <1>2, <1>3

LEMMA StopDoneKeeps ==
  ASSUME AnyInv, NEW p \in Players, StopDone(p)
  PROVE  AnyInv'
<1> USE PlayerAssumption DEF AnyInv, object, process, teardowns, told, memory
<1>1. UNCHANGED <<saved, state, stopped, room, conn, sid, process, failing, awaiting, edits, late>> BY DEF StopDone
<1>2. closing' \in [Players -> {"no", "stop", "start"}] /\ next' \in [Players -> Urls \cup {None}]
  BY DEF StopDone, TypeOK
<1>3. LetGoInv' BY <1>1 DEF LetGoInv
<1>4. CountInv' BY <1>1 DEF CountInv
<1>5. CASE closing[p] = "start"
  <2>1. /\ next[p] \in Urls \cup {None} /\ Create(next[p])
        /\ missed' = IF p \in missed THEN (missed \ {p}) \cup {current'} ELSE missed
    BY <1>5 DEF StopDone, TypeOK
  <2>2. TypeOK' BY <1>1, <1>2, <2>1, CreateTypes DEF TypeOK
  <2>3. StartInv' BY <1>1, <2>1 DEF Create, TypeOK, StartInv
  <2> QED BY <1>3, <1>4, <2>2, <2>3
<1>6. CASE closing[p] # "start"
  <2>1. announced' = FALSE /\ speaker' = None /\ UNCHANGED <<current, url, phase, older, missed>>
    BY <1>6 DEF StopDone
  <2>2. TypeOK' BY <1>1, <1>2, <2>1 DEF TypeOK
  <2>3. StartInv' BY <1>1, <2>1 DEF StartInv
  <2> QED BY <1>3, <1>4, <2>2, <2>3
<1> QED BY <1>5, <1>6

LEMMA FailDoneKeeps ==
  ASSUME AnyInv, NEW p \in Players, FailDone(p)
  PROVE  AnyInv'
<1> USE PlayerAssumption DEF AnyInv, object, process, teardowns, told, memory
<1>1. TypeOK' BY DEF FailDone, Set, TypeOK
<1>2. LetGoInv' BY DEF FailDone, LetGoInv
<1>3. CountInv' BY DEF FailDone, CountInv
<1>4. StartInv' BY DEF FailDone, FailMayGoOn, Set, TypeOK, StartInv
<1> QED BY <1>1, <1>2, <1>3, <1>4

LEMMA ConnectedKeeps ==
  ASSUME AnyInv, NEW p \in Players, Connected(p)
  PROVE  AnyInv'
<1> USE PlayerAssumption DEF AnyInv, object, process, teardowns, told, memory
<1>1. /\ phase' \in [Players -> {"unborn", "connecting", "publishing", "done"}]
      /\ conn' \in [Players -> BOOLEAN] /\ room' \in [Players -> BOOLEAN]
  <2>1. CASE stopped[p]
    <3>1. phase' = [phase EXCEPT ![p] = "done"] /\ UNCHANGED <<room, conn>> BY <2>1 DEF Connected
    <3> QED BY <3>1 DEF TypeOK
  <2>2. CASE ~stopped[p]
    <3>1. /\ phase' = [phase EXCEPT ![p] = "publishing"]
          /\ conn' = [conn EXCEPT ![p] = TRUE] /\ room' = [room EXCEPT ![p] = TRUE]
      BY <2>2 DEF Connected
    <3> QED BY <3>1 DEF TypeOK
  <2> QED BY <2>1, <2>2
<1>2. TypeOK' BY <1>1 DEF Connected, TypeOK
<1>3. LetGoInv' BY DEF Connected, TypeOK, LetGoInv
<1>4. CountInv' BY DEF Connected, CountInv
<1>5. StartInv' BY DEF Connected, TypeOK, StartInv
<1> QED BY <1>2, <1>3, <1>4, <1>5

LEMMA PublishedKeeps ==
  ASSUME AnyInv, NEW p \in Players, Published(p)
  PROVE  AnyInv'
<1> USE PlayerAssumption DEF AnyInv, object, process, teardowns, told, memory
<1>1. TypeOK' BY DEF Published, Run, TypeOK
<1>2. LetGoInv' BY DEF Published, Run, TypeOK, LetGoInv
<1>3. CountInv' BY DEF Published, CountInv
<1>4. StartInv' BY DEF Published, Run, TypeOK, StartInv
<1> QED BY <1>1, <1>2, <1>3, <1>4

LEMMA StartThrowsKeeps ==
  ASSUME AnyInv, NEW p \in Players, StartThrows(p)
  PROVE  AnyInv'
<1> USE PlayerAssumption DEF AnyInv, object, process, teardowns, told, memory
<1>1. CASE current = p
  <2>1. /\ Fail(p) /\ phase' = [phase EXCEPT ![p] = "done"] /\ phase[p] \in {"connecting", "publishing"}
        /\ UNCHANGED <<saved, current, url, state, conn, sid, fails, frame, closing, next, told, edits, memory>>
    BY <1>1 DEF StartThrows
  <2>2. /\ phase' \in [Players -> {"unborn", "connecting", "publishing", "done"}]
        /\ phase'[p] = "done" /\ \A q \in Players \ {p} : phase'[q] = phase[q]
    BY <2>1 DEF TypeOK
  <2>3. fails' \in [Players -> 0..MaxQuickFails] BY <2>1 DEF TypeOK
  <2>4. state[p] = "starting" /\ ~frame[p] BY <2>1 DEF StartInv
  <2> QED BY <2>1, <2>2, <2>3, <2>4, FailKeeps
<1>2. CASE current # p
  <2>1. /\ phase' = [phase EXCEPT ![p] = "done"] /\ phase[p] \in {"connecting", "publishing"}
        /\ UNCHANGED <<saved, current, url, state, stopped, room, conn, sid, process, teardowns,
                       told, edits, memory>>
    BY <1>2 DEF StartThrows
  <2>2. TypeOK' BY <2>1 DEF TypeOK
  <2>3. LetGoInv' BY <2>1 DEF LetGoInv
  <2>4. CountInv' BY <2>1 DEF CountInv
  <2>5. StartInv' BY <2>1 DEF TypeOK, StartInv
  <2> QED BY <2>2, <2>3, <2>4, <2>5
<1> QED BY <1>1, <1>2

LEMMA DisconnectedKeeps ==
  ASSUME AnyInv, NEW p \in Players, Disconnected(p)
  PROVE  AnyInv'
<1> USE PlayerAssumption DEF AnyInv, object, process, teardowns, told, memory
<1>1. TypeOK' BY DEF Disconnected, TypeOK
<1>2. LetGoInv' BY DEF Disconnected, TypeOK, LetGoInv
<1>3. CountInv' BY DEF Disconnected, CountInv
<1>4. StartInv' BY DEF Disconnected, StartInv
<1> QED BY <1>1, <1>2, <1>3, <1>4

LEMMA ChunkKeeps ==
  ASSUME AnyInv, NEW p \in Players, Chunk(p)
  PROVE  AnyInv'
<1> USE PlayerAssumption DEF AnyInv, object, process, teardowns, told, memory
<1>1. TypeOK' BY DEF Chunk, TypeOK
<1>2. LetGoInv' BY DEF Chunk, LetGoInv
<1>3. CountInv' BY DEF Chunk, CountInv
<1>4. StartInv' BY DEF Chunk, StartInv
<1> QED BY <1>1, <1>2, <1>3, <1>4

LEMMA CapturedKeeps ==
  ASSUME AnyInv, NEW p \in Players, Captured(p)
  PROVE  AnyInv'
<1> USE PlayerAssumption DEF AnyInv, object, process, teardowns, told, memory
<1>1. TypeOK' BY DEF Captured, Set, TypeOK
<1>2. LetGoInv' BY DEF Captured, LetGoInv
<1>3. CountInv' BY DEF Captured, CountInv
<1>4. StartInv' BY DEF Captured, Set, StartInv
<1> QED BY <1>1, <1>2, <1>3, <1>4

LEMMA CaptureThrowsKeeps ==
  ASSUME AnyInv, NEW p \in Players, CaptureThrows(p)
  PROVE  AnyInv'
<1> USE PlayerAssumption DEF AnyInv, object, process, teardowns, told, memory
<1>1. TypeOK' BY DEF CaptureThrows, TypeOK
<1>2. LetGoInv' BY DEF CaptureThrows, LetGoInv
<1>3. CountInv' BY DEF CaptureThrows, CountInv
<1>4. StartInv' BY DEF CaptureThrows, StartInv
<1> QED BY <1>1, <1>2, <1>3, <1>4

LEMMA ExitsKeeps ==
  ASSUME AnyInv, NEW p \in Players, Exits(p)
  PROVE  AnyInv'
<1> USE PlayerAssumption DEF AnyInv, object, process, teardowns, told, memory
<1>1. TypeOK' BY DEF Exits, TypeOK
<1>2. LetGoInv' BY DEF Exits, LetGoInv
<1>3. CountInv' BY DEF Exits, CountInv
<1>4. StartInv' BY DEF Exits, StartInv
<1> QED BY <1>1, <1>2, <1>3, <1>4

LEMMA ClosedKeeps ==
  ASSUME AnyInv, NEW p \in Players, Closed(p)
  PROVE  AnyInv'
<1> USE PlayerAssumption DEF AnyInv, object, process, teardowns, told, memory
<1>1. /\ proc[p] = "ended" /\ ~stopped[p] /\ phase[p] = "done" /\ sid[p]
      /\ UNCHANGED <<saved, current, url, phase, conn, sid, frame, closing, next, edits, memory>>
  BY DEF Closed, LetGoInv, StartInv
<1>2. fails[p] \in 0..MaxQuickFails /\ fails[p] # MaxQuickFails BY <1>1 DEF TypeOK, CountInv
<1>3. \E k \in {0, fails[p] + 1} : fails' = [fails EXCEPT ![p] = k] BY DEF Closed, TypeOK
<1>4. PICK k \in {0, fails[p] + 1} : fails' = [fails EXCEPT ![p] = k] BY <1>3
<1>5. k \in 0..MaxQuickFails BY <1>2
<1>6. fails' \in [Players -> 0..MaxQuickFails] BY <1>4, <1>5 DEF TypeOK
<1>7. fails'[p] = k /\ \A q \in Players \ {p} : fails'[q] = fails[q] BY <1>4 DEF TypeOK
<1>8. CASE fails'[p] >= MaxQuickFails
  <2>1. Fail(p) /\ UNCHANGED <<state, told>> BY <1>8 DEF Closed
  <2> QED BY <1>1, <1>6, <1>7, <2>1, FailKeeps DEF TypeOK
<1>9. CASE ~(fails'[p] >= MaxQuickFails)
  <2>1. /\ proc' = [proc EXCEPT ![p] = "none"] /\ timer' = [timer EXCEPT ![p] = TRUE]
        /\ Set(p, "starting") /\ UNCHANGED <<stopped, room, failing, awaiting>>
    BY <1>9 DEF Closed
  <2>2. k # MaxQuickFails BY <1>5, <1>7, <1>9
  <2>3. TypeOK' BY <1>1, <1>6, <2>1 DEF Set, TypeOK
  <2>4. LetGoInv' BY <1>1, <2>1 DEF LetGoInv, TypeOK
  <2>5. CountInv' BY <1>7, <2>1, <2>2 DEF CountInv
  <2>6. StartInv' BY <1>1, <2>1 DEF Set, TypeOK, StartInv
  <2> QED BY <2>3, <2>4, <2>5, <2>6
<1> QED BY <1>8, <1>9

LEMMA NotSpawnedKeeps ==
  ASSUME AnyInv, NEW p \in Players, NotSpawned(p)
  PROVE  AnyInv'
<1> USE PlayerAssumption DEF AnyInv, object, process, teardowns, told, memory
<1>1. phase[p] = "done" BY DEF NotSpawned, StartInv
<1> QED BY <1>1, FailKeeps DEF NotSpawned, TypeOK

LEMMA RestartKeeps ==
  ASSUME AnyInv, NEW p \in Players, Restart(p)
  PROVE  AnyInv'
<1> USE PlayerAssumption DEF AnyInv, object, process, teardowns, told, memory
<1>1. TypeOK' BY DEF Restart, Run, TypeOK
<1>2. LetGoInv' BY DEF Restart, Run, TypeOK, LetGoInv
<1>3. CountInv' BY DEF Restart, CountInv
<1>4. StartInv' BY DEF Restart, Run, TypeOK, StartInv
<1> QED BY <1>1, <1>2, <1>3, <1>4

LEMMA StepKeeps == AnyInv /\ [Next]_vars => AnyInv'
<1> SUFFICES ASSUME AnyInv, [Next]_vars PROVE AnyInv' OBVIOUS
<1>1. CASE Admin
  BY <1>1, StartRequestKeeps, StopRequestKeeps, EditKeeps DEF Admin
<1>2. ASSUME NEW p \in Players, Event(p) PROVE AnyInv'
  BY <1>2, StopDoneKeeps, FailDoneKeeps, ConnectedKeeps, PublishedKeeps, StartThrowsKeeps,
     DisconnectedKeeps, CapturedKeeps, CaptureThrowsKeeps, ClosedKeeps, NotSpawnedKeeps,
     RestartKeeps DEF Event
<1>3. ASSUME NEW p \in Players, Ffmpeg(p) PROVE AnyInv'
  BY <1>3, ChunkKeeps, ExitsKeeps DEF Ffmpeg
<1>4. CASE UNCHANGED vars
  <2>1. TypeOK' BY <1>4 DEF vars, object, process, teardowns, told, memory, AnyInv, TypeOK
  <2>2. LetGoInv' /\ CountInv' /\ StartInv'
    BY <1>4 DEF vars, object, process, teardowns, told, memory, AnyInv, LetGoInv, CountInv, StartInv
  <2> QED BY <2>1, <2>2 DEF AnyInv
<1> QED BY <1>1, <1>2, <1>3, <1>4 DEF Next

LEMMA InitAny == Init => AnyInv
<1> SUFFICES ASSUME Init PROVE AnyInv OBVIOUS
<1> USE PlayerAssumption
<1>1. TypeOK
  <2>1. /\ 0 \in 0..MaxQuickFails /\ 0 \in 0..MaxEdits
        /\ \A S : {} \in SUBSET S
    OBVIOUS
  <2>2. awaiting \in [Players -> SUBSET {"stop", "fail"}] /\ fails \in [Players -> 0..MaxQuickFails]
    BY <2>1 DEF Init
  <2>3. edits \in 0..MaxEdits BY <2>1 DEF Init
  <2> QED BY <2>2, <2>3 DEF Init, TypeOK
<1>2. LetGoInv BY DEF Init, LetGoInv
<1>3. CountInv BY DEF Init, CountInv
<1>4. StartInv BY DEF Init, StartInv
<1> QED BY <1>1, <1>2, <1>3, <1>4 DEF AnyInv

LEMMA AnyInvariant == Spec => []AnyInv
BY InitAny, StepKeeps, PTL DEF Spec

\* The state of every player object stays well-formed; its failures never exceed
\* the number at which it is given up.
THEOREM PlayerTypeCorrect == Spec => []TypeOK
<1>1. AnyInv => TypeOK BY DEF AnyInv
<1> QED BY <1>1, AnyInvariant, PTL

\* A player that was stopped or failed, at whatever point of its start and with
\* whatever event still to come, runs no ffmpeg and no timer and leaves its room.
THEOREM StoppedPlayersLetGo == Spec => []StoppedLetsGo
<1>1. AnyInv => StoppedLetsGo BY DEF AnyInv, LetGoInv, StoppedLetsGo
<1> QED BY <1>1, AnyInvariant, PTL

-----------------------------------------------------------------------------
(* The player in the map.                                                  *)

\* What neither the map, an announcement nor a stop() takes part in.
LEMMA Unseen ==
  ASSUME SoundInv, UNCHANGED <<saved, current, url, phase, state, stopped, sid, closing,
                               failing, next, told, memory>>
  PROVE  SoundInv'
BY DEF SoundInv, LostInv, LostToAnOlderStart, OlderInv, Born, SavedInv, OldUrlAfterAWait, UrlInv,
       WordInv, OwnWordHolds, IdleInv, OnAir, ReasonInv, ReasonStaysUnlessLate, LateInv, told, memory

LEMMA SoundStartRequest ==
  ASSUME AnyInv, SoundInv, StartRequest
  PROVE  SoundInv'
<1> USE PlayerAssumption DEF AnyInv, SoundInv, object, process, teardowns, told, memory
<1>1. LostInv'
  <2>1. CASE current = None
    <3>1. PICK p \in Players :
            /\ phase[p] = "unborn" /\ current' = p /\ phase' = [phase EXCEPT ![p] = "connecting"]
            /\ older' = [older EXCEPT ![p] = {q \in Waiting : closing'[q] = "start"}]
            /\ UNCHANGED <<stopped, closing>>
      BY <2>1 DEF StartRequest, Create
    <3>2. older'[p] = Waiting /\ phase'[p] = "connecting" BY <3>1 DEF Waiting, TypeOK
    <3>3. \A q \in Players \ {p} : older'[q] = older[q] /\ phase'[q] = phase[q] BY <3>1 DEF TypeOK
    <3>4. OlderInv' BY <3>1, <3>2, <3>3 DEF LostInv, OlderInv, Born, Waiting, TypeOK
    <3>5. LostToAnOlderStart'
      BY <2>1, <3>1, <3>2, <3>3 DEF LostInv, LostToAnOlderStart, Born
    <3> QED BY <3>4, <3>5 DEF LostInv
  <2>2. CASE current # None
    <3>1. /\ current \in Players /\ current' = None /\ UNCHANGED <<phase, older>>
          /\ stopped' = [stopped EXCEPT ![current] = TRUE]
          /\ closing' = [closing EXCEPT ![current] = "start"]
      BY <2>2 DEF StartRequest, Stop, Teardown, TypeOK
    <3>2. OlderInv' BY <2>2, <3>1 DEF LostInv, OlderInv, Born, StartInv, TypeOK
    <3>3. LostToAnOlderStart'
      <4> SUFFICES ASSUME NEW q \in Players, Born(q), ~stopped'[q]
                   PROVE  \E o \in older[q] : closing'[o] # "start"
        BY <3>1 DEF LostToAnOlderStart, Born
      <4>1. q # current /\ ~stopped[q] BY <3>1 DEF TypeOK
      <4>2. PICK o \in older[q] : closing[o] # "start"
        BY <4>1 DEF LostInv, LostToAnOlderStart
      <4>3. o # current /\ o \in Players BY DEF LostInv, OlderInv, TypeOK
      <4>4. closing'[o] = closing[o] BY <3>1, <4>3 DEF TypeOK
      <4> QED BY <4>2, <4>4
    <3> QED BY <3>2, <3>3 DEF LostInv
  <2> QED BY <2>1, <2>2
<1>2. SavedInv' BY DEF StartRequest, Create, Stop, SavedInv, OldUrlAfterAWait, UrlInv, TypeOK
<1>3. WordInv' BY DEF StartRequest, Create, Stop, WordInv, OwnWordHolds, IdleInv, OnAir, TypeOK, StartInv
<1>4. ReasonInv' BY DEF StartRequest, Create, Stop, Teardown, ReasonInv, ReasonStaysUnlessLate, LateInv, TypeOK, StartInv
<1> QED BY <1>1, <1>2, <1>3, <1>4

LEMMA SoundStopRequest ==
  ASSUME AnyInv, SoundInv, StopRequest
  PROVE  SoundInv'
<1> USE PlayerAssumption DEF AnyInv, SoundInv, object, process, teardowns, told, memory
<1>1. LostInv' BY DEF StopRequest, Stop, Teardown, LostInv, LostToAnOlderStart, OlderInv, Born, TypeOK
<1>2. SavedInv' BY DEF StopRequest, Stop, SavedInv, OldUrlAfterAWait, UrlInv, TypeOK
<1>3. WordInv' BY DEF StopRequest, Stop, WordInv, OwnWordHolds, IdleInv, OnAir, TypeOK, StartInv
<1>4. ReasonInv' BY DEF StopRequest, Stop, Teardown, ReasonInv, ReasonStaysUnlessLate, LateInv, TypeOK, StartInv
<1> QED BY <1>1, <1>2, <1>3, <1>4

LEMMA SoundEdit ==
  ASSUME AnyInv, SoundInv, NEW u \in Urls \cup {None}, Edit(u)
  PROVE  SoundInv'
<1> USE PlayerAssumption DEF AnyInv, SoundInv, object, process, teardowns, told, memory
<1>1. LostInv' BY DEF Edit, Stop, Teardown, LostInv, LostToAnOlderStart, OlderInv, Born, TypeOK
<1>2. SavedInv' BY DEF Edit, Stop, Waiting, SavedInv, OldUrlAfterAWait, UrlInv, TypeOK
<1>3. WordInv' BY DEF Edit, Stop, WordInv, OwnWordHolds, IdleInv, OnAir, TypeOK, StartInv
<1>4. ReasonInv' BY DEF Edit, Stop, Teardown, ReasonInv, ReasonStaysUnlessLate, LateInv, TypeOK, StartInv
<1> QED BY <1>1, <1>2, <1>3, <1>4

LEMMA SoundStopDone ==
  ASSUME AnyInv, SoundInv, NEW p \in Players, StopDone(p)
  PROVE  SoundInv'
<1> USE PlayerAssumption DEF AnyInv, SoundInv, object, process, teardowns, told, memory
<1>1. LostInv' BY DEF StopDone, Create, Waiting, LostInv, LostToAnOlderStart, OlderInv, Born, TypeOK
<1>2. SavedInv' BY DEF StopDone, Create, SavedInv, OldUrlAfterAWait, UrlInv, TypeOK
<1>3. WordInv' BY DEF StopDone, Create, WordInv, OwnWordHolds, IdleInv, OnAir, TypeOK, StartInv
<1>4. ReasonInv' BY DEF StopDone, Create, ReasonInv, ReasonStaysUnlessLate, LateInv, TypeOK, StartInv
<1> QED BY <1>1, <1>2, <1>3, <1>4

LEMMA SoundFailDone ==
  ASSUME AnyInv, SoundInv, NEW p \in Players, FailDone(p)
  PROVE  SoundInv'
<1> USE PlayerAssumption DEF AnyInv, SoundInv, object, process, teardowns, told, memory
<1>1. LostInv' BY DEF FailDone, LostInv, LostToAnOlderStart, OlderInv, Born, TypeOK
<1>2. SavedInv' BY DEF FailDone, SavedInv, OldUrlAfterAWait, UrlInv, TypeOK
<1>3. WordInv' BY DEF FailDone, Set, WordInv, OwnWordHolds, IdleInv, OnAir, TypeOK, StartInv
<1>4. ReasonInv'
  <2>1. /\ failing[p] /\ failing' = [failing EXCEPT ![p] = FALSE]
        /\ UNCHANGED <<current, stopped, late>>
    BY DEF FailDone, FailMayGoOn
  <2>2. LateInv' BY <2>1 DEF ReasonInv, LateInv, TypeOK
  <2>3. CASE current = p
    <3>1. state' = [state EXCEPT ![p] = "error"] BY <2>3 DEF FailDone, Set
    <3>2. p \notin late BY <2>1 DEF ReasonInv, LateInv
    <3>3. state'[p] = "error" BY <3>1 DEF TypeOK
    <3> QED BY <2>1, <2>2, <2>3, <3>2, <3>3 DEF ReasonInv, ReasonStaysUnlessLate
  <2>4. CASE current # p
    <3>1. state' = state BY <2>4 DEF FailDone
    <3> QED BY <2>1, <2>2, <2>4, <3>1 DEF ReasonInv, ReasonStaysUnlessLate, TypeOK
  <2> QED BY <2>3, <2>4
<1> QED BY <1>1, <1>2, <1>3, <1>4

LEMMA SoundConnected ==
  ASSUME AnyInv, SoundInv, NEW p \in Players, Connected(p)
  PROVE  SoundInv'
<1> USE PlayerAssumption DEF AnyInv, SoundInv, object, process, teardowns, told, memory
<1>1. LostInv' BY DEF Connected, LostInv, LostToAnOlderStart, OlderInv, Born, TypeOK
<1>2. SavedInv' BY DEF Connected, SavedInv, OldUrlAfterAWait, UrlInv, TypeOK
<1>3. WordInv' BY DEF Connected, WordInv, OwnWordHolds, IdleInv, OnAir, TypeOK, StartInv
<1>4. ReasonInv' BY DEF Connected, ReasonInv, ReasonStaysUnlessLate, LateInv, TypeOK, StartInv
<1> QED BY <1>1, <1>2, <1>3, <1>4

LEMMA SoundPublished ==
  ASSUME AnyInv, SoundInv, NEW p \in Players, Published(p)
  PROVE  SoundInv'
<1> USE PlayerAssumption DEF AnyInv, SoundInv, object, process, teardowns, told, memory
<1>1. LostInv' BY DEF Published, LostInv, LostToAnOlderStart, OlderInv, Born, TypeOK
<1>2. SavedInv' BY DEF Published, SavedInv, OldUrlAfterAWait, UrlInv, TypeOK
<1>3. WordInv' BY DEF Published, WordInv, OwnWordHolds, IdleInv, OnAir, TypeOK, StartInv
<1>4. ReasonInv' BY DEF Published, ReasonInv, ReasonStaysUnlessLate, LateInv, TypeOK, StartInv
<1> QED BY <1>1, <1>2, <1>3, <1>4

LEMMA SoundStartThrows ==
  ASSUME AnyInv, SoundInv, NEW p \in Players, StartThrows(p)
  PROVE  SoundInv'
<1> USE PlayerAssumption DEF AnyInv, SoundInv, object, process, teardowns, told, memory
<1>1. LostInv' BY DEF StartThrows, Fail, Teardown, LostInv, LostToAnOlderStart, OlderInv, Born, TypeOK
<1>2. SavedInv' BY DEF StartThrows, SavedInv, OldUrlAfterAWait, UrlInv, TypeOK
<1>3. WordInv' BY DEF StartThrows, WordInv, OwnWordHolds, IdleInv, OnAir, TypeOK, StartInv
<1>4. ReasonInv' BY DEF StartThrows, Fail, Teardown, ReasonInv, ReasonStaysUnlessLate, LateInv, TypeOK, StartInv
<1> QED BY <1>1, <1>2, <1>3, <1>4

LEMMA SoundCaptured ==
  ASSUME AnyInv, SoundInv, NEW p \in Players, Captured(p)
  PROVE  SoundInv'
<1> USE PlayerAssumption DEF AnyInv, SoundInv, object, process, teardowns, told, memory
<1>1. LostInv' BY DEF Captured, LostInv, LostToAnOlderStart, OlderInv, Born, TypeOK
<1>2. SavedInv' BY DEF Captured, SavedInv, OldUrlAfterAWait, UrlInv, TypeOK
<1>3. WordInv' BY DEF Captured, Set, WordInv, OwnWordHolds, IdleInv, OnAir, TypeOK, StartInv
<1>4. ReasonInv' BY DEF Captured, Set, ReasonInv, ReasonStaysUnlessLate, LateInv, TypeOK, StartInv
<1> QED BY <1>1, <1>2, <1>3, <1>4

LEMMA SoundClosed ==
  ASSUME AnyInv, SoundInv, NEW p \in Players, Closed(p)
  PROVE  SoundInv'
<1> USE PlayerAssumption DEF AnyInv, SoundInv, object, process, teardowns, told, memory
<1>1. LostInv' BY DEF Closed, Fail, Teardown, LostInv, LostToAnOlderStart, OlderInv, Born, TypeOK
<1>2. SavedInv' BY DEF Closed, SavedInv, OldUrlAfterAWait, UrlInv, TypeOK
<1>3. WordInv' BY DEF Closed, Set, LetGoInv, WordInv, OwnWordHolds, IdleInv, OnAir, TypeOK, StartInv
<1>4. ReasonInv' BY DEF Closed, Set, Fail, Teardown, LetGoInv, ReasonInv, ReasonStaysUnlessLate, LateInv, TypeOK, StartInv
<1> QED BY <1>1, <1>2, <1>3, <1>4

LEMMA SoundNotSpawned ==
  ASSUME AnyInv, SoundInv, NEW p \in Players, NotSpawned(p)
  PROVE  SoundInv'
<1> USE PlayerAssumption DEF AnyInv, SoundInv, object, process, teardowns, told, memory
<1>1. LostInv' BY DEF NotSpawned, Fail, Teardown, LostInv, LostToAnOlderStart, OlderInv, Born, TypeOK
<1>2. SavedInv' BY DEF NotSpawned, SavedInv, OldUrlAfterAWait, UrlInv, TypeOK
<1>3. WordInv' BY DEF NotSpawned, WordInv, OwnWordHolds, IdleInv, OnAir, TypeOK, StartInv
<1>4. ReasonInv' BY DEF NotSpawned, Fail, Teardown, LetGoInv, ReasonInv, ReasonStaysUnlessLate, LateInv, TypeOK, StartInv
<1> QED BY <1>1, <1>2, <1>3, <1>4

LEMMA StepSound == AnyInv /\ SoundInv /\ [Next]_vars => SoundInv'
<1> SUFFICES ASSUME AnyInv, SoundInv, [Next]_vars PROVE SoundInv' OBVIOUS
<1>1. CASE Admin
  BY <1>1, SoundStartRequest, SoundStopRequest, SoundEdit DEF Admin
<1>2. ASSUME NEW p \in Players, Event(p) PROVE SoundInv'
  <2>1. CASE Disconnected(p) \/ CaptureThrows(p) \/ Restart(p)
    BY <2>1, Unseen DEF Disconnected, CaptureThrows, Restart, object, process, teardowns, memory
  <2> QED BY <1>2, <2>1, SoundStopDone, SoundFailDone, SoundConnected, SoundPublished,
             SoundStartThrows, SoundCaptured, SoundClosed, SoundNotSpawned DEF Event
<1>3. ASSUME NEW p \in Players, Ffmpeg(p) PROVE SoundInv'
  BY <1>3, Unseen DEF Ffmpeg, Chunk, Exits, object, process, teardowns
<1>4. CASE UNCHANGED vars
  BY <1>4, Unseen DEF vars, object, process, teardowns
<1> QED BY <1>1, <1>2, <1>3, <1>4 DEF Next

LEMMA InitSound == Init => SoundInv
<1> SUFFICES ASSUME Init PROVE SoundInv OBVIOUS
<1>1. /\ current = None /\ announced = FALSE /\ late = {}
      /\ \A p \in Players : phase[p] = "unborn" /\ closing[p] = "no" /\ older[p] = {}
  BY DEF Init
<1>2. None \notin Players BY PlayerAssumption
<1> QED BY <1>1, <1>2 DEF SoundInv, LostInv, LostToAnOlderStart, OlderInv, Born, SavedInv,
      OldUrlAfterAWait, UrlInv, WordInv, OwnWordHolds, IdleInv, OnAir, ReasonInv,
      ReasonStaysUnlessLate, LateInv

\* Whoever calls start() and stop() while others are half way, whatever edit comes
\* in between and whenever a frame returns: the player in the map is the one that
\* runs, plays the saved URL, is announced as it is and keeps its error, but for a
\* player that an older start pushed out, a start that waited over an edit, a later
\* word of another player and a late frame.
THEOREM PlayerStaysSound == Spec => []PlayerIsSound
<1>1. Init => AnyInv /\ SoundInv BY InitAny, InitSound
<1>2. AnyInv /\ SoundInv /\ [Next]_vars => (AnyInv /\ SoundInv)' BY StepKeeps, StepSound
<1>3. AnyInv /\ SoundInv => PlayerIsSound
  BY DEF AnyInv, SoundInv, LostInv, SavedInv, WordInv, ReasonInv, PlayerIsSound
<1> QED BY <1>1, <1>2, <1>3, PTL DEF Spec

=============================================================================
