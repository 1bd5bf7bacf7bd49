--------------------------- MODULE StreamApp_proofs ---------------------------
(***************************************************************************)
(* Invariance proofs about StreamApp: one process per card, announced as   *)
(* long as it streams, and a window that shows what runs, for any devices, *)
(* processes and numbers of events.                                        *)
(***************************************************************************)
EXTENDS StreamApp, SequenceTheorems, TLAPS

ProcSet == [Procs -> [state : {"free", "running", "dying"}, dev : Devices, role : Roles]]
Msg == Event \union Answer

\* Cards are previewed and stream, webcams are captured and relayed.
Fits(role, d) == role \in {"preview", "live", "ndi"} <=> d \in Cards

\* What a process does fits its device, and nothing runs on a card without its program.
RolesFit == \A p \in Procs : /\ proc[p].state # "free" => Fits(proc[p].role, proc[p].dev)
                             /\ Running(p) /\ proc[p].dev \in Cards => installed

\* Only cards pause before they stream; the call that pauses is still the first of its
\* device, and has announced the device if it is one that does so before the pause.
PauseInv ==
    /\ waiting \subseteq Cards
    /\ \A d \in waiting : lock[d] # <<>> /\ installed
    /\ app = "open" => \A d \in waiting : Head(lock[d]).protocol = "udp" => d \in beacons

IInv == TypeOK /\ RolesFit /\ PauseInv /\ OneProcessPerCard /\ LiveIsAnnounced

-----------------------------------------------------------------------------
(* Processes *)

LEMMA FreeFacts == Free \in [state : {"free", "running", "dying"}, dev : Devices, role : Roles]
<1>1. \E d \in Devices : TRUE BY AppAssumption
<1>2. (CHOOSE d \in Devices : TRUE) \in Devices BY <1>1
<1> QED BY <1>2 DEF Free, Roles

\* Killing leaves every process its device and its role, and starts none.
LEMMA KillingFacts ==
  ASSUME proc \in ProcSet, NEW ps
  PROVE  /\ Killed(ps) \in ProcSet
         /\ \A p \in Procs : /\ Killed(ps)[p].dev = proc[p].dev
                             /\ Killed(ps)[p].role = proc[p].role
                             /\ Killed(ps)[p].state = "running" <=> Running(p) /\ p \notin ps
                             /\ Killed(ps)[p].state = "free" <=> proc[p].state = "free"
BY DEF Killed, Running, ProcSet

\* One more process runs, and none of ps.
LEMMA SpawningFacts ==
  ASSUME proc \in ProcSet, NEW ps, NEW p \in Procs, NEW d \in Devices, NEW role \in Roles
  PROVE  /\ Spawned(ps, p, d, role) \in ProcSet
         /\ Spawned(ps, p, d, role)[p] = [state |-> "running", dev |-> d, role |-> role]
         /\ \A q \in Procs \ {p} : /\ Spawned(ps, p, d, role)[q].dev = proc[q].dev
                                   /\ Spawned(ps, p, d, role)[q].role = proc[q].role
                                   /\ Spawned(ps, p, d, role)[q].state = "running" <=> Running(q) /\ q \notin ps
                                   /\ Spawned(ps, p, d, role)[q].state = "free" <=> proc[q].state = "free"
<1>1. Killed(ps) \in ProcSet BY KillingFacts
<1>2. [state |-> "running", dev |-> d, role |-> role]
        \in [state : {"free", "running", "dying"}, dev : Devices, role : Roles]
  OBVIOUS
<1> QED BY <1>1, <1>2, KillingFacts DEF Spawned, ProcSet

\* A process that is taken is a free one.
LEMMA UnusedIsFree ==
  \A p \in Unused : p \in Procs /\ proc[p].state = "free"
BY DEF Unused

-----------------------------------------------------------------------------
(* Calls and answers *)

\* A call waits behind the ones before it.
LEMMA CallIsLast ==
  ASSUME TypeOK, NEW d \in Devices, NEW op, NEW by, NEW protocol,
         [op |-> op, by |-> by, protocol |-> protocol] \in Call, Calls(d, op, by, protocol)
  PROVE  /\ lock' \in [Devices -> Seq(Call)]
         /\ \A e \in Devices : lock[e] # <<>> => lock'[e] # <<>> /\ Head(lock'[e]) = Head(lock[e])
<1> DEFINE call == [op |-> op, by |-> by, protocol |-> protocol]
<1>1. lock' = [lock EXCEPT ![d] = Append(@, call)] BY DEF Calls
<1>2. lock \in [Devices -> Seq(Call)] BY DEF TypeOK
<1>3. Append(lock[d], call) \in Seq(Call) BY <1>2
<1>4. lock[d] # <<>> => Append(lock[d], call) # <<>> /\ Head(Append(lock[d], call)) = Head(lock[d])
  <2> HIDE DEF call
  <2> QED BY <1>2
<1>5. lock' \in [Devices -> Seq(Call)] BY <1>1, <1>2, <1>3
<1> QED BY <1>1, <1>2, <1>4, <1>5

\* What is sent to the window are messages.
LEMMA SendingFacts ==
  ASSUME TypeOK, NEW ms \in Seq(Msg), Send(ms)
  PROVE  inbox' \in Seq(Event \union Answer)
BY DEF TypeOK, Send, Msg

\* A handler that returns takes its call away, and its device out of the pause.
LEMMA ReturnFacts ==
  ASSUME TypeOK, NEW d \in Devices, NEW ok \in BOOLEAN, NEW events \in Seq(Msg),
         lock[d] # <<>>, Return(d, ok, events)
  PROVE  /\ lock' \in [Devices -> Seq(Call)]
         /\ waiting' = waiting \ {d}
         /\ \A e \in Devices \ {d} : lock'[e] = lock[e]
         /\ inbox' \in Seq(Event \union Answer)
<1>1. lock' = [lock EXCEPT ![d] = Tail(@)] /\ waiting' = waiting \ {d} BY DEF Return
<1>2. lock \in [Devices -> Seq(Call)] BY DEF TypeOK
<1>3. Tail(lock[d]) \in Seq(Call) /\ Head(lock[d]) \in Call BY <1>2
<1>4. [kind |-> "answer", call |-> Head(lock[d]), dev |-> d, ok |-> ok] \in Msg
  BY <1>3 DEF Msg, Answer
<1>5. Append(events, [kind |-> "answer", call |-> Head(lock[d]), dev |-> d, ok |-> ok]) \in Seq(Msg)
  BY <1>4
<1>6. inbox' \in Seq(Event \union Answer) BY <1>5, SendingFacts DEF Return
<1> QED BY <1>1, <1>2, <1>3, <1>6

LEMMA EventsAreMessages ==
  ASSUME NEW d \in Devices, NEW kind \in {"stream-stopped", "capture-stopped"}
  PROVE  Stopped(kind, d) \in Msg
BY DEF Stopped, Msg, Event

-----------------------------------------------------------------------------
(* The window *)

\* What the window does leaves the processes alone and adds calls at most.
LEMMA WindowKeeps ==
  ASSUME IInv, TypeOK', UNCHANGED <<proc, captureProcs, beacons, waiting, app, installed>>,
         \A e \in Devices : lock[e] # <<>> => lock'[e] # <<>> /\ Head(lock'[e]) = Head(lock[e])
  PROVE  IInv'
<1>1. Devices = Cards \union Cams BY DEF Devices
<1>2. RolesFit' BY DEF IInv, RolesFit, Running
<1>3. PauseInv' BY <1>1 DEF IInv, PauseInv
<1>4. OneProcessPerCard' BY DEF IInv, OneProcessPerCard, Running
<1>5. LiveIsAnnounced' BY DEF IInv, LiveIsAnnounced, Running
<1> QED BY <1>2, <1>3, <1>4, <1>5 DEF IInv

LEMMA ClickKeeps == ASSUME IInv, NEW d \in Devices, Click(d), UNCHANGED <<installed, ends>>, ops' \in 0..MaxOps PROVE IInv'
<1>1. CASE d \in activeIds /\ selected = d
  <2>1. [op |-> "stop-capture", by |-> "click", protocol |-> "srt"] \in Call BY DEF Call, Protocols
  <2>2. /\ lock' \in [Devices -> Seq(Call)]
        /\ \A e \in Devices : lock[e] # <<>> => lock'[e] # <<>> /\ Head(lock'[e]) = Head(lock[e])
    BY <1>1, <2>1, CallIsLast DEF Click, IInv
  <2>3. TypeOK' BY <1>1, <2>2 DEF Click, IInv, TypeOK
  <2> QED BY <2>2, <2>3, WindowKeeps DEF Click
<1>2. CASE ~(d \in activeIds /\ selected = d)
  <2>1. TypeOK' BY <1>2 DEF Click, Select, IInv, TypeOK
  <2> QED BY <1>2, <2>1, WindowKeeps DEF Click
<1> QED BY <1>1, <1>2

LEMMA RenameKeeps == ASSUME IInv, NEW d \in Devices, Rename(d), UNCHANGED <<installed, ends>>, ops' \in 0..MaxOps PROVE IInv'
<1>1. [op |-> "stop-stream", by |-> "rename", protocol |-> "srt"] \in Call BY DEF Call, Protocols
<1>2. /\ lock' \in [Devices -> Seq(Call)]
      /\ \A e \in Devices : lock[e] # <<>> => lock'[e] # <<>> /\ Head(lock'[e]) = Head(lock[e])
  BY <1>1, CallIsLast DEF Rename, IInv
<1>3. TypeOK' BY <1>2 DEF Rename, window, IInv, TypeOK
<1> QED BY <1>2, <1>3, WindowKeeps DEF Rename

LEMMA ToggleKeeps ==
  ASSUME IInv, NEW protocol \in Protocols, ToggleStream(protocol), UNCHANGED <<installed, ends>>, ops' \in 0..MaxOps
  PROVE IInv'
<1>1. selected \in Devices BY DEF ToggleStream, IInv, TypeOK
<1> DEFINE op == IF selected \in liveIds THEN "stop-stream" ELSE "start-stream"
           way == IF selected \in liveIds THEN "srt" ELSE protocol
<1>2. [op |-> op, by |-> "toggle", protocol |-> way] \in Call BY DEF Call, Protocols
<1>3. Calls(selected, op, "toggle", way) BY DEF ToggleStream
<1>4. /\ lock' \in [Devices -> Seq(Call)]
      /\ \A e \in Devices : lock[e] # <<>> => lock'[e] # <<>> /\ Head(lock'[e]) = Head(lock[e])
  <2> HIDE DEF op, way
  <2> QED BY <1>1, <1>2, <1>3, CallIsLast DEF IInv
<1>5. TypeOK' BY <1>1, <1>4 DEF ToggleStream, IInv, TypeOK
<1> QED BY <1>4, <1>5, WindowKeeps DEF ToggleStream

LEMMA FormatsKeep == ASSUME IInv, FormatsKnown, UNCHANGED <<installed, ops, ends>> PROVE IInv'
<1>1. capturing \in Devices BY DEF FormatsKnown, IInv, TypeOK
<1>2. [op |-> "start-capture", by |-> "click", protocol |-> "srt"] \in Call BY DEF Call, Protocols
<1>3. /\ lock' \in [Devices -> Seq(Call)]
      /\ \A e \in Devices : lock[e] # <<>> => lock'[e] # <<>> /\ Head(lock'[e]) = Head(lock[e])
  BY <1>1, <1>2, CallIsLast DEF FormatsKnown, IInv
<1>4. TypeOK' BY <1>3 DEF FormatsKnown, window, IInv, TypeOK
<1> QED BY <1>3, <1>4, WindowKeeps DEF FormatsKnown

\* What comes first in a list is in it.
LEMMA FirstFacts == \A found : found # {} => FirstOf(found) \in found
<1> SUFFICES ASSUME NEW found, found # {} PROVE FirstOf(found) \in found OBVIOUS
<1>1. \E d \in found : found \intersect Cards # {} => d \in Cards
  <2>1. CASE found \intersect Cards # {} BY <2>1
  <2>2. CASE found \intersect Cards = {} BY <2>2
  <2> QED BY <2>1, <2>2
<1> QED BY <1>1 DEF FirstOf

LEMMA ScansKeep ==
  ASSUME IInv, Scan \/ Scanned, UNCHANGED <<installed, ends>>, ops' \in 0..MaxOps
  PROVE IInv'
<1>1. \A found \in ScanDevices : found \subseteq Devices
  BY DEF ScanDevices, ScanViaSdiStream, ScanAjaPnp, ScanDirectShow, Cards, Devices
<1>2. TypeOK'
  <2>1. CASE Scan BY <2>1 DEF Scan, main, IInv, TypeOK
  <2>2. CASE Scanned
    <3>1. PICK found \in ScanDevices :
             /\ devices' = found
             /\ IF found = {} \/ scan.state = "list" \/ capturing # None
                THEN UNCHANGED <<selected, capturing>> ELSE Select(FirstOf(found), scan.active)
      BY <2>2 DEF Scanned
    <3>2. found \subseteq Devices BY <1>1
    <3>3. found # {} => FirstOf(found) \in Devices BY <3>2, FirstFacts
    <3>4. {selected', capturing'} \subseteq Devices \union {None}
      BY <3>1, <3>3 DEF Select, IInv, TypeOK
    <3> QED BY <2>2, <3>1, <3>2, <3>4 DEF Scanned, main, IInv, TypeOK
  <2> QED BY <2>1, <2>2
<1> QED BY <1>2, WindowKeeps DEF Scan, Scanned, main

LEMMA ReceiveKeeps == ASSUME IInv, Receive, UNCHANGED <<installed, ops, ends>> PROVE IInv'
<1> DEFINE m == Head(inbox)
<1>1. m \in Event \union Answer /\ inbox' \in Seq(Event \union Answer)
  BY DEF Receive, IInv, TypeOK
<1>2. m.dev \in Devices BY <1>1 DEF Event, Answer
<1>3. /\ lock' \in [Devices -> Seq(Call)]
      /\ \A e \in Devices : lock[e] # <<>> => lock'[e] # <<>> /\ Head(lock'[e]) = Head(lock[e])
      /\ {selected', capturing'} \subseteq Devices \union {None}
      /\ UNION {activeIds', liveIds', toggling', rendered'} \subseteq Devices
  <2>1. CASE m.kind # "answer"
    <3>1. OnEvent(m) BY <2>1 DEF Receive
    <3> QED BY <1>2, <3>1 DEF OnEvent, IInv, TypeOK
  <2>2. CASE m.kind = "answer" /\ m.call.by = "click"
    <3>1. AfterClick(m) BY <2>2 DEF Receive
    <3> QED BY <1>2, <3>1 DEF AfterClick, IInv, TypeOK
  <2>3. CASE m.kind = "answer" /\ m.call.by = "toggle"
    <3>1. AfterToggle(m) BY <2>3 DEF Receive
    <3> QED BY <1>2, <3>1 DEF AfterToggle, IInv, TypeOK
  <2>4. CASE m.kind = "answer" /\ m.call.by \notin {"click", "toggle"}
    <3>1. PICK protocol \in Protocols : AfterRename(m, protocol) BY <2>4 DEF Receive
    <3>2. CASE m.call.op = "stop-stream"
      <4>1. [op |-> "start-stream", by |-> "rename", protocol |-> protocol] \in Call BY DEF Call
      <4>2. Calls(m.dev, "start-stream", "rename", protocol) BY <3>1, <3>2 DEF AfterRename
      <4>3. /\ lock' \in [Devices -> Seq(Call)]
            /\ \A e \in Devices : lock[e] # <<>> => lock'[e] # <<>> /\ Head(lock'[e]) = Head(lock[e])
        <5> HIDE DEF m
        <5> QED BY <1>2, <4>1, <4>2, CallIsLast DEF IInv
      <4> QED BY <3>1, <3>2, <4>3 DEF AfterRename, IInv, TypeOK
    <3>3. CASE m.call.op # "stop-stream"
      BY <3>1, <3>3 DEF AfterRename, IInv, TypeOK
    <3> QED BY <3>2, <3>3
  <2> QED BY <2>1, <2>2, <2>3, <2>4
<1>4. UNCHANGED <<proc, captureProcs, captureProc, relayProc, superseded, beacons, waiting, app,
                  devices, scan, muddled>>
  BY DEF Receive
<1>5. TypeOK
  BY DEF IInv
<1>6. TypeOK'
  <2>1. /\ proc' \in [Procs -> [state : {"free", "running", "dying"}, dev : Devices, role : Roles]]
        /\ captureProcs' \in [Cards -> Procs \union {None}]
    BY <1>4, <1>5 DEF TypeOK
  <2>2. /\ {captureProc', relayProc'} \subseteq Procs \union {None}
        /\ UNION {superseded', muddled'} \subseteq Cards
        /\ UNION {beacons', waiting', devices'} \subseteq Devices
    BY <1>4, <1>5 DEF TypeOK
  <2>3. /\ app' \in {"open", "quitting", "gone"} /\ installed' \in BOOLEAN
        /\ scan' \in [state : {"none", "mount", "first", "list"}, active : SUBSET Devices]
        /\ ops' \in 0..MaxOps /\ ends' \in 0..MaxEnds
    BY <1>4, <1>5 DEF TypeOK
  <2> QED BY <1>1, <1>3, <2>1, <2>2, <2>3 DEF TypeOK
<1> QED BY <1>3, <1>4, <1>6, WindowKeeps

-----------------------------------------------------------------------------
(* The main process *)

\* A process p goes on, or ends; it comes to work for d.
Goes(p) == /\ proc[p].state # "free" /\ (Running(p)' => Running(p))
           /\ proc'[p].dev = proc[p].dev /\ proc'[p].role = proc[p].role
Comes(p, d) == /\ proc'[p].dev = d /\ Fits(proc'[p].role, d)
               /\ d \in Cards => installed

\* What a handler of device d has to respect: it leaves what others run alone, what
\* runs on d is in d's slot, and d is announced if it streams.
Respects(d) ==
    \A p \in Procs :
        /\ proc'[p].state # "free" => Goes(p) \/ Comes(p, d)
        /\ Running(p)' =>
            /\ proc'[p].dev \in Cards => captureProcs'[proc'[p].dev] = p
            /\ proc'[p].role = "live" /\ proc'[p].dev = d /\ app = "open" => d \in beacons'

MainType ==
    /\ proc \in ProcSet
    /\ captureProcs \in [Cards -> Procs \union {None}]
    /\ {captureProc, relayProc} \subseteq Procs \union {None}
    /\ superseded \subseteq Cards

\* A handler returns that has respected this.
LEMMA HandlerKeeps ==
  ASSUME IInv, NEW d \in Devices, NEW ok \in BOOLEAN, NEW events \in Seq(Msg),
         lock[d] # <<>>, Return(d, ok, events), UNCHANGED <<app, window, muddled, installed, ops, ends>>,
         MainType', beacons' \subseteq Devices, beacons \ {d} \subseteq beacons', Respects(d)
  PROVE  IInv'
<1> USE DEF IInv
<1>1. /\ lock' \in [Devices -> Seq(Call)]
      /\ waiting' = waiting \ {d}
      /\ \A e \in Devices \ {d} : lock'[e] = lock[e]
      /\ inbox' \in Seq(Event \union Answer)
  BY ReturnFacts
<1>2. TypeOK'
  <2>1. UNION {superseded', muddled'} \subseteq Cards BY DEF TypeOK, MainType
  <2>2. UNION {beacons', waiting', devices', activeIds', liveIds', toggling', rendered'} \subseteq Devices
    BY <1>1 DEF TypeOK, window
  <2>3. /\ {selected', capturing'} \subseteq Devices \union {None}
        /\ scan' \in [state : {"none", "mount", "first", "list"}, active : SUBSET Devices]
    BY DEF TypeOK, window
  <2>4. /\ app' \in {"open", "quitting", "gone"} /\ installed' \in BOOLEAN
        /\ ops' \in 0..MaxOps /\ ends' \in 0..MaxEnds
    BY DEF TypeOK
  <2> QED BY <1>1, <2>1, <2>2, <2>3, <2>4 DEF TypeOK, MainType, ProcSet
<1>3. Devices = Cards \union Cams BY DEF Devices
<1>4. RolesFit'
  <2> SUFFICES ASSUME NEW p \in Procs, proc'[p].state # "free"
               PROVE  /\ Fits(proc'[p].role, proc'[p].dev)
                      /\ Running(p)' /\ proc'[p].dev \in Cards => installed
    BY DEF RolesFit, Running, Fits
  <2>1. CASE Goes(p) BY <2>1 DEF Goes, RolesFit
  <2>2. CASE Comes(p, d) BY <2>2 DEF Comes
  <2> QED BY <2>1, <2>2 DEF Respects
<1>5. PauseInv' BY <1>1, <1>3 DEF PauseInv
<1>6. OneProcessPerCard' BY DEF OneProcessPerCard, Respects, Running
<1>7. LiveIsAnnounced'
  <2> SUFFICES ASSUME app' = "open", NEW p \in Procs, Running(p)', proc'[p].role = "live"
               PROVE  proc'[p].dev \in beacons'
    BY DEF LiveIsAnnounced, Running
  <2>1. CASE proc'[p].dev = d BY <2>1 DEF Respects
  <2>2. CASE proc'[p].dev # d
    <3>1. Running(p) /\ proc'[p].dev = proc[p].dev /\ proc'[p].role = proc[p].role
      BY <2>2 DEF Respects, Goes, Comes, Running
    <3> QED BY <2>2, <3>1 DEF LiveIsAnnounced
  <2> QED BY <2>1, <2>2
<1> QED BY <1>2, <1>4, <1>5, <1>6, <1>7

\* A process of d's own, in d's slot, for which the one before it is killed.
LEMMA OwnProcess ==
  ASSUME IInv, NEW d \in Cards, NEW p \in Unused, NEW role \in {"preview", "live", "ndi"}, installed,
         proc' = Spawned({captureProcs[d]}, p, d, role),
         captureProcs' = [captureProcs EXCEPT ![d] = p],
         role = "live" /\ app = "open" => d \in beacons'
  PROVE  /\ proc' \in ProcSet /\ captureProcs' \in [Cards -> Procs \union {None}]
         /\ Respects(d)
<1>1. p \in Procs /\ ~Running(p) BY UnusedIsFree DEF Running
<1>2. d \in Devices BY DEF Devices
<1>3. proc \in ProcSet /\ captureProcs \in [Cards -> Procs \union {None}] BY DEF IInv, TypeOK, ProcSet
<1>4. /\ proc' \in ProcSet
      /\ proc'[p] = [state |-> "running", dev |-> d, role |-> role]
      /\ \A q \in Procs \ {p} : /\ proc'[q].dev = proc[q].dev
                                /\ proc'[q].role = proc[q].role
                                /\ proc'[q].state = "running" <=> Running(q) /\ q # captureProcs[d]
                                /\ proc'[q].state = "free" <=> proc[q].state = "free"
  <2>1. role \in Roles BY DEF Roles
  <2> QED BY <1>1, <1>2, <1>3, <2>1, SpawningFacts
<1>5. \A q \in Procs : Running(q) /\ proc[q].dev \in Cards => captureProcs[proc[q].dev] = q
  BY DEF IInv, OneProcessPerCard
<1>6. ASSUME NEW q \in Procs \ {p}, Running(q)'
      PROVE  /\ Running(q) /\ proc'[q].dev = proc[q].dev /\ proc'[q].role = proc[q].role
             /\ proc'[q].dev # d
             /\ proc'[q].dev \in Cards => captureProcs'[proc'[q].dev] = q
  <2>1. proc'[q].dev = proc[q].dev /\ proc'[q].role = proc[q].role BY <1>4
  <2>2. Running(q) /\ q # captureProcs[d] BY <1>4, <1>6 DEF Running
  <2>3. proc[q].dev \in Cards => captureProcs[proc[q].dev] = q BY <1>5, <2>2
  <2>4. proc[q].dev # d BY <2>2, <2>3
  <2>5. \A e \in Cards \ {d} : captureProcs'[e] = captureProcs[e] BY <1>3
  <2> QED BY <2>1, <2>2, <2>3, <2>4, <2>5
<1>7. captureProcs'[d] = p /\ captureProcs' \in [Cards -> Procs \union {None}] BY <1>1, <1>3
<1>8. ASSUME NEW q \in Procs
      PROVE  /\ proc'[q].state # "free" => Goes(q) \/ Comes(q, d)
             /\ Running(q)' =>
                  /\ proc'[q].dev \in Cards => captureProcs'[proc'[q].dev] = q
                  /\ proc'[q].role = "live" /\ proc'[q].dev = d /\ app = "open" => d \in beacons'
  <2>1. CASE q = p
    <3>1. Comes(q, d) BY <1>4, <2>1 DEF Comes, Fits
    <3> QED BY <1>4, <1>7, <2>1, <3>1
  <2>2. CASE q # p
    <3>1. q \in Procs \ {p} BY <2>2
    <3>2. proc'[q].state # "free" => Goes(q) BY <1>4, <3>1 DEF Goes, Running
    <3>3. Running(q)' => /\ proc'[q].dev # d
                         /\ proc'[q].dev \in Cards => captureProcs'[proc'[q].dev] = q
      BY <1>6, <3>1
    <3> QED BY <3>2, <3>3
  <2> QED BY <2>1, <2>2
<1> QED BY <1>4, <1>7, <1>8 DEF Respects

\* Processes are only killed: the one of d's slot is, if the announcement ends.
LEMMA OnlyKilled ==
  ASSUME IInv, NEW d \in Devices, NEW ps, proc' = Killed(ps),
         \/ captureProcs' = captureProcs /\ d \in beacons'
         \/ captureProcs' = captureProcs /\ d \in Cams
         \/ d \in Cards /\ captureProcs' = [captureProcs EXCEPT ![d] = None] /\ captureProcs[d] \in ps
         \/ d \in Cards /\ captureProcs' = captureProcs /\ captureProcs[d] = None
  PROVE  /\ proc' \in ProcSet /\ captureProcs' \in [Cards -> Procs \union {None}]
         /\ Respects(d)
<1>1. proc \in ProcSet /\ captureProcs \in [Cards -> Procs \union {None}] BY DEF IInv, TypeOK, ProcSet
<1>2. /\ proc' \in ProcSet
      /\ \A q \in Procs : /\ proc'[q].dev = proc[q].dev
                          /\ proc'[q].role = proc[q].role
                          /\ proc'[q].state = "running" <=> Running(q) /\ q \notin ps
                          /\ proc'[q].state = "free" <=> proc[q].state = "free"
  BY <1>1, KillingFacts
<1>3. \A q \in Procs : Running(q) /\ proc[q].dev \in Cards => captureProcs[proc[q].dev] = q
  BY DEF IInv, OneProcessPerCard
<1>4. None \notin Procs /\ Cards \intersect Cams = {} BY AppAssumption
<1>5. captureProcs' \in [Cards -> Procs \union {None}] BY <1>1
<1>6. ASSUME NEW q \in Procs, Running(q)'
      PROVE  /\ Running(q) /\ proc'[q].dev = proc[q].dev /\ proc'[q].role = proc[q].role
             /\ proc'[q].dev \in Cards => captureProcs'[proc'[q].dev] = q
             /\ proc'[q].dev \in Cards /\ proc'[q].dev = d => d \in beacons'
  BY <1>1, <1>2, <1>3, <1>4, <1>6 DEF Running
<1>7. \A q \in Procs : Running(q) /\ proc[q].role = "live" => proc[q].dev \in Cards
  BY DEF IInv, RolesFit, Fits, Running
<1>8. \A q \in Procs : proc'[q].state # "free" => Goes(q) BY <1>2 DEF Goes, Running
<1> QED BY <1>2, <1>5, <1>6, <1>7, <1>8 DEF Respects

\* A webcam's process is in no card's slot.
LEMMA CamProcess ==
  ASSUME IInv, NEW d \in Cams, NEW p \in Unused, NEW role \in {"cam", "relay"}, NEW ps,
         proc' = Spawned(ps, p, d, role), captureProcs' = captureProcs
  PROVE  /\ proc' \in ProcSet /\ captureProcs' \in [Cards -> Procs \union {None}]
         /\ Respects(d)
<1>1. p \in Procs /\ ~Running(p) BY UnusedIsFree DEF Running
<1>2. d \in Devices /\ d \notin Cards BY AppAssumption DEF Devices
<1>3. proc \in ProcSet /\ captureProcs \in [Cards -> Procs \union {None}] BY DEF IInv, TypeOK, ProcSet
<1>4. /\ proc' \in ProcSet
      /\ proc'[p] = [state |-> "running", dev |-> d, role |-> role]
      /\ \A q \in Procs \ {p} : /\ proc'[q].dev = proc[q].dev
                                /\ proc'[q].role = proc[q].role
                                /\ proc'[q].state = "running" <=> Running(q) /\ q \notin ps
                                /\ proc'[q].state = "free" <=> proc[q].state = "free"
  <2>1. role \in Roles BY DEF Roles
  <2> QED BY <1>1, <1>2, <1>3, <2>1, SpawningFacts
<1>5. \A q \in Procs : Running(q) =>
        /\ proc[q].dev \in Cards => captureProcs[proc[q].dev] = q
        /\ proc[q].role = "live" => proc[q].dev \in Cards
  BY DEF IInv, OneProcessPerCard, RolesFit, Fits, Running
<1>6. Comes(p, d) BY <1>2, <1>4 DEF Comes, Fits
<1>7. \A q \in Procs \ {p} : proc'[q].state # "free" => Goes(q) BY <1>4 DEF Goes, Running
<1> QED BY <1>1, <1>2, <1>3, <1>4, <1>5, <1>6, <1>7 DEF Respects, Running

LEMMA StartCaptureKeeps ==
  ASSUME IInv, NEW d \in Devices, StartCapture(d), UNCHANGED <<installed, ops, ends>> PROVE IInv'
<1>1. MainType /\ beacons \subseteq Devices BY DEF IInv, TypeOK, MainType, ProcSet
<1>2. Devices = Cards \union Cams /\ Cards \intersect Cams = {} /\ Cards = Aja \union DeckLink
  BY AppAssumption DEF Devices, Cards
<1>3. <<>> \in Seq(Msg) /\ lock[d] # <<>> /\ TRUE \in BOOLEAN /\ FALSE \in BOOLEAN BY DEF StartCapture, Handles
<1>4. CASE d \in Cards /\ ~installed
  <2>1. Return(d, FALSE, <<>>) /\ UNCHANGED <<proc, captureProcs, captureProc>> BY <1>4 DEF StartCapture
  <2>2. Respects(d)
    <3>1. \A p \in Procs : Running(p) => proc[p].dev # d BY <1>4 DEF IInv, RolesFit
    <3>2. \A p \in Procs : Running(p) /\ proc[p].dev \in Cards => captureProcs[proc[p].dev] = p
      BY DEF IInv, OneProcessPerCard
    <3> QED BY <2>1, <3>1, <3>2 DEF Respects, Running, Goes
  <2> QED BY <1>1, <1>3, <2>1, <2>2, HandlerKeeps DEF StartCapture, StopBeacon, MainType
<1>5. CASE d \in Cards /\ installed
  <2>1. PICK p \in Unused : CaptureAja(d, p) /\ Return(d, TRUE, <<>>)
    BY <1>2, <1>5 DEF StartCapture, CaptureDeckLink
  <2>2. "preview" \in {"preview", "live", "ndi"} OBVIOUS
  <2>3. /\ proc' \in ProcSet /\ captureProcs' \in [Cards -> Procs \union {None}]
        /\ Respects(d)
    BY <1>5, <2>1, <2>2, OwnProcess DEF CaptureAja
  <2>4. MainType' BY <1>1, <2>1, <2>3, UnusedIsFree DEF StartCapture, CaptureAja, MainType
  <2> QED BY <1>1, <1>3, <2>1, <2>3, <2>4, HandlerKeeps DEF StartCapture, StopBeacon
<1>6. CASE d \in Cams
  <2>1. PICK p \in Unused : CaptureCam(d, p) /\ Return(d, TRUE, <<>>)
    BY <1>2, <1>6 DEF StartCapture
  <2>2. "cam" \in {"cam", "relay"} OBVIOUS
  <2>3. /\ proc' \in ProcSet /\ captureProcs' \in [Cards -> Procs \union {None}]
        /\ Respects(d)
    BY <1>6, <2>1, <2>2, CamProcess DEF CaptureCam
  <2>4. MainType' BY <1>1, <2>1, <2>3, UnusedIsFree DEF StartCapture, CaptureCam, MainType
  <2> QED BY <1>1, <1>3, <2>1, <2>3, <2>4, HandlerKeeps DEF StartCapture, StopBeacon
<1> QED BY <1>2, <1>4, <1>5, <1>6

LEMMA StopCaptureKeeps ==
  ASSUME IInv, NEW d \in Devices, StopCapture(d), UNCHANGED <<installed, ops, ends>> PROVE IInv'
<1>1. MainType /\ beacons \subseteq Devices BY DEF IInv, TypeOK, MainType, ProcSet
<1>2. Devices = Cards \union Cams BY DEF Devices
<1> DEFINE events == <<Stopped("stream-stopped", d)>>
<1>3. lock[d] # <<>> /\ Return(d, TRUE, events) BY DEF StopCapture, Handles
<1>4. events \in Seq(Msg) BY EventsAreMessages
<1>5. proc' \in ProcSet /\ captureProcs' \in [Cards -> Procs \union {None}] /\ Respects(d)
  <2>1. CASE d \in Cards
    <3>1. proc' = Killed({captureProcs[d]}) /\ captureProcs' = [captureProcs EXCEPT ![d] = None]
      BY <2>1 DEF StopCapture
    <3> QED BY <2>1, <3>1, OnlyKilled
  <2>2. CASE d \notin Cards
    <3>1. proc' = proc /\ captureProcs' = captureProcs BY <2>2 DEF StopCapture
    <3>2. \A p \in Procs : Running(p) => /\ proc[p].role = "live" => proc[p].dev # d
                                         /\ proc[p].dev \in Cards => captureProcs[proc[p].dev] = p
      BY <2>2 DEF IInv, RolesFit, Fits, Running, OneProcessPerCard
    <3>3. Respects(d) BY <2>2, <3>1, <3>2 DEF Respects, Running, Goes
    <3> QED BY <1>1, <3>1, <3>3 DEF MainType
  <2> QED BY <2>1, <2>2
<1>6. MainType' BY <1>1, <1>5 DEF StopCapture, MainType
<1> HIDE DEF events
<1> QED BY <1>1, <1>3, <1>4, <1>5, <1>6, HandlerKeeps DEF StopCapture, StopBeacon

LEMMA StopStreamKeeps ==
  ASSUME IInv, NEW d \in Devices, StopStream(d), UNCHANGED <<installed, ops, ends>> PROVE IInv'
<1>1. MainType /\ beacons \subseteq Devices BY DEF IInv, TypeOK, MainType, ProcSet
<1>2. Devices = Cards \union Cams BY DEF Devices
<1> DEFINE events == <<Stopped("stream-stopped", d), Stopped("capture-stopped", d)>>
<1>3. lock[d] # <<>> /\ Return(d, TRUE, events) BY DEF StopStream, Handles
<1>4. events \in Seq(Msg) BY EventsAreMessages
<1>5. proc' \in ProcSet /\ captureProcs' \in [Cards -> Procs \union {None}] /\ Respects(d)
  <2>1. CASE d \in Cards /\ captureProcs[d] # None
    <3>1. proc' = Killed({captureProcs[d]}) /\ captureProcs' = [captureProcs EXCEPT ![d] = None]
      BY <2>1 DEF StopStream
    <3> QED BY <2>1, <3>1, OnlyKilled
  <2>2. CASE ~(d \in Cards /\ captureProcs[d] # None)
    <3>1. proc' = Killed({relayProc}) /\ captureProcs' = captureProcs BY <2>2 DEF StopStream
    <3> QED BY <1>2, <2>2, <3>1, OnlyKilled
  <2> QED BY <2>1, <2>2
<1>6. MainType' BY <1>1, <1>5 DEF StopStream, MainType
<1> HIDE DEF events
<1> QED BY <1>1, <1>3, <1>4, <1>5, <1>6, HandlerKeeps DEF StopStream, StopBeacon

LEMMA RefuseKeeps ==
  ASSUME IInv, NEW d \in Devices, RefuseStream(d), UNCHANGED <<installed, ops, ends>> PROVE IInv'
<1>1. MainType /\ beacons \subseteq Devices BY DEF IInv, TypeOK, MainType, ProcSet
<1>2. /\ <<>> \in Seq(Msg) /\ lock[d] # <<>> /\ Return(d, FALSE, <<>>)
      /\ beacons \subseteq beacons' /\ beacons' \subseteq Devices
      /\ UNCHANGED <<proc, captureProcs, captureProc, relayProc, superseded>>
  <2>1. <<>> \in Seq(Msg) OBVIOUS
  <2>2. beacons' = beacons \/ beacons' = beacons \union {d} BY DEF RefuseStream, StartBeacon
  <2>3. beacons \subseteq beacons' /\ beacons' \subseteq Devices BY <1>1, <2>2
  <2> QED BY <2>1, <2>3 DEF RefuseStream, Handles
<1>3. Respects(d)
  <2>1. \A p \in Procs : Running(p) => /\ proc[p].dev \in Cards => captureProcs[proc[p].dev] = p
                                       /\ proc[p].role = "live" /\ app = "open" => proc[p].dev \in beacons
    BY DEF IInv, OneProcessPerCard, LiveIsAnnounced
  <2> QED BY <1>2, <2>1 DEF Respects, Running, Goes
<1>4. MainType' BY <1>1, <1>2 DEF MainType
<1> QED BY <1>1, <1>2, <1>3, <1>4, HandlerKeeps DEF RefuseStream

LEMMA BeginKeeps ==
  ASSUME IInv, NEW d \in Devices, BeginStream(d), UNCHANGED <<installed, ops, ends>> PROVE IInv'
<1>1. /\ beacons \subseteq beacons' /\ beacons' \subseteq Devices
      /\ waiting' = waiting \union {d} /\ waiting' \subseteq Devices
      /\ UNCHANGED <<proc, captureProcs, app, installed, lock>>
  BY DEF BeginStream, StartBeacon, IInv, TypeOK
<1>2. TypeOK' BY <1>1 DEF BeginStream, window, IInv, TypeOK
<1>3. RolesFit' BY <1>1 DEF IInv, RolesFit, Running
<1>4. PauseInv' BY <1>1 DEF BeginStream, StartBeacon, Handles, IInv, PauseInv
<1>5. OneProcessPerCard' BY <1>1 DEF IInv, OneProcessPerCard, Running
<1>6. LiveIsAnnounced' BY <1>1 DEF IInv, LiveIsAnnounced, Running
<1> QED BY <1>2, <1>3, <1>4, <1>5, <1>6 DEF IInv

\* After the pause, whatever the protocol.
LEMMA StreamKeeps ==
  ASSUME IInv, NEW d \in waiting, NEW p \in Unused, NEW role \in {"live", "ndi"},
         ReplaceStreamProc(d, p, role), Return(d, TRUE, <<>>), beacons \subseteq beacons',
         beacons' \subseteq Devices, role = "live" /\ app = "open" => d \in beacons',
         UNCHANGED <<captureProc, relayProc, app, window, muddled, installed, ops, ends>>
  PROVE  IInv'
<1>1. MainType BY DEF IInv, TypeOK, MainType, ProcSet
<1>2. d \in Cards /\ d \in Devices /\ lock[d] # <<>> /\ installed BY DEF IInv, PauseInv, Devices
<1>3. role \in Roles /\ <<>> \in Seq(Msg) BY DEF Roles
<1>4. /\ proc' \in ProcSet /\ captureProcs' \in [Cards -> Procs \union {None}]
      /\ Respects(d)
  BY <1>2, <1>3, OwnProcess DEF ReplaceStreamProc
<1>5. MainType' BY <1>1, <1>2, <1>4 DEF ReplaceStreamProc, MainType
<1> QED BY <1>2, <1>3, <1>4, <1>5, HandlerKeeps

LEMMA StreamsKeep ==
  ASSUME IInv, NEW d \in Devices, PushUdp(d) \/ BroadcastNdi(d) \/ PublishSrt(d),
         UNCHANGED <<installed, ops, ends>>
  PROVE  IInv'
<1>1. beacons \subseteq Devices BY DEF IInv, TypeOK
<1>2. CASE PushUdp(d)
  <2>1. PICK p \in Unused : ReplaceStreamProc(d, p, "live") BY <1>2 DEF PushUdp
  <2>2. d \in waiting /\ (app = "open" => d \in beacons) BY <1>2 DEF PushUdp, Streams, IInv, PauseInv
  <2> QED BY <1>1, <1>2, <2>1, <2>2, StreamKeeps DEF PushUdp
<1>3. CASE BroadcastNdi(d)
  <2>1. PICK p \in Unused : ReplaceStreamProc(d, p, "ndi") BY <1>3 DEF BroadcastNdi
  <2> QED BY <1>1, <1>3, <2>1, StreamKeeps DEF BroadcastNdi, Streams
<1>4. CASE PublishSrt(d)
  <2>1. PICK p \in Unused : ReplaceStreamProc(d, p, "live") BY <1>4 DEF PublishSrt
  <2> QED BY <1>1, <1>4, <2>1, StreamKeeps DEF PublishSrt, StartBeacon, Streams
<1> QED BY <1>2, <1>3, <1>4

LEMMA RelayCamKeeps ==
  ASSUME IInv, NEW d \in Devices, RelayCam(d), UNCHANGED <<installed, ops, ends>> PROVE IInv'
<1>1. MainType /\ beacons \subseteq Devices BY DEF IInv, TypeOK, MainType, ProcSet
<1>2. PICK p \in Unused : proc' = Spawned({relayProc}, p, d, "relay") /\ relayProc' = p BY DEF RelayCam
<1>3. "relay" \in {"cam", "relay"} OBVIOUS
<1>4. /\ proc' \in ProcSet /\ captureProcs' \in [Cards -> Procs \union {None}]
      /\ Respects(d)
  BY <1>2, <1>3, CamProcess DEF RelayCam
<1>5. MainType' BY <1>1, <1>2, <1>4, UnusedIsFree DEF RelayCam, MainType
<1>6. <<>> \in Seq(Msg) /\ lock[d] # <<>> BY DEF RelayCam, Handles
<1> QED BY <1>1, <1>4, <1>5, <1>6, HandlerKeeps DEF RelayCam, StartBeacon

-----------------------------------------------------------------------------
(* Ends *)

\* Without a handler: what ran before and still runs keeps its slot.
LEMMA EndsKeep ==
  ASSUME IInv, TypeOK', UNCHANGED <<beacons, lock, waiting, app, installed>>,
         \A p \in Procs :
            /\ proc'[p].state # "free" => Goes(p)
            /\ Running(p)' /\ proc'[p].dev \in Cards => captureProcs'[proc'[p].dev] = p
  PROVE  IInv'
<1>1. RolesFit' BY DEF IInv, RolesFit, Goes, Fits, Running
<1>2. PauseInv' BY DEF IInv, PauseInv
<1>3. OneProcessPerCard' BY DEF OneProcessPerCard, Running
<1>4. LiveIsAnnounced' BY DEF IInv, LiveIsAnnounced, Goes, Running
<1> QED BY <1>1, <1>2, <1>3, <1>4 DEF IInv

LEMMA DeathKeeps ==
  ASSUME IInv, NEW p \in Procs, Ends(p), UNCHANGED <<installed, ops>>, ends' \in 0..MaxEnds PROVE IInv'
<1>1. proc \in ProcSet BY DEF IInv, TypeOK, ProcSet
<1>2. proc' = Killed({p}) /\ captureProcs' = captureProcs BY DEF Ends
<1>3. TypeOK' BY <1>1, <1>2, KillingFacts DEF Ends, window, IInv, TypeOK, ProcSet
<1>4. \A q \in Procs : /\ proc'[q].state # "free" => Goes(q)
                       /\ Running(q)' => Running(q)
  BY <1>1, <1>2, KillingFacts DEF Running, Goes
<1>5. \A q \in Procs : Running(q)' /\ proc'[q].dev \in Cards => captureProcs'[proc'[q].dev] = q
  BY <1>2, <1>4 DEF IInv, OneProcessPerCard, Goes, Running
<1> QED BY <1>3, <1>4, <1>5, EndsKeep DEF Ends

LEMMA CloseKeeps ==
  ASSUME IInv, NEW p \in Procs, Closed(p), UNCHANGED <<installed, ops, ends>> PROVE IInv'
<1> DEFINE d == proc[p].dev
<1>1. /\ MainType /\ d \in Devices /\ None \notin Procs
      /\ muddled \subseteq Cards
  BY AppAssumption DEF IInv, TypeOK, MainType, ProcSet
<1>2. proc' = [proc EXCEPT ![p] = Free] /\ Free.state = "free" BY DEF Closed, Free
<1>3. Free \in [state : {"free", "running", "dying"}, dev : Devices, role : Roles] BY FreeFacts
<1>4. proc' \in ProcSet BY <1>1, <1>2, <1>3 DEF MainType, ProcSet
<1>5. proc'[p] = Free /\ \A q \in Procs \ {p} : proc'[q] = proc[q] BY <1>1, <1>2 DEF MainType, ProcSet
<1>6. \A q \in Procs : /\ proc'[q].state # "free" => Goes(q)
                       /\ Running(q)' => q # p /\ Running(q) /\ proc'[q].dev = proc[q].dev
  BY <1>2, <1>5 DEF Running, Goes
<1>7. proc[p].role \in {"preview", "live", "ndi"} <=> d \in Cards
  BY DEF Closed, IInv, RolesFit, Fits
<1>8. /\ \/ captureProcs' = captureProcs
         \/ d \in Cards /\ captureProcs' = Vacated(d, p)
      /\ inbox' \in Seq(Event \union Answer)
      /\ captureProc' \in Procs \union {None}
      /\ superseded' \subseteq Cards /\ muddled' \subseteq Cards
  <2>1. \A kind \in {"stream-stopped", "capture-stopped"} : Stopped(kind, d) \in Msg
    BY <1>1, EventsAreMessages
  <2>2. CASE proc[p].role = "preview"
    <3> DEFINE ms == IF d \in superseded THEN <<>> ELSE <<Stopped("capture-stopped", d)>>
    <3>1. ms \in Seq(Msg) BY <2>1
    <3>2. Send(ms) /\ Misled(d, p, ms) BY <2>2 DEF Closed, PreviewClosed
    <3>3. inbox' \in Seq(Event \union Answer) BY <3>1, <3>2, SendingFacts DEF IInv
    <3>4. muddled' \subseteq Cards BY <1>1, <1>7, <2>2, <3>2 DEF Misled
    <3> QED BY <1>1, <1>7, <2>2, <3>3, <3>4 DEF Closed, PreviewClosed, MainType
  <2>3. CASE proc[p].role \in {"live", "ndi"}
    <3> DEFINE ms == <<Stopped("stream-stopped", d), Stopped("capture-stopped", d)>>
    <3>1. ms \in Seq(Msg) BY <2>1
    <3>2. Send(ms) /\ Misled(d, p, ms) BY <2>3 DEF Closed, StreamClosed
    <3>3. inbox' \in Seq(Event \union Answer) BY <3>1, <3>2, SendingFacts DEF IInv
    <3>4. muddled' \subseteq Cards BY <1>1, <1>7, <2>3, <3>2 DEF Misled
    <3> QED BY <1>1, <1>7, <2>3, <3>3, <3>4 DEF Closed, StreamClosed, MainType
  <2>4. CASE proc[p].role \notin {"preview", "live", "ndi"}
    <3> DEFINE kind == IF proc[p].role = "cam" THEN "capture-stopped" ELSE "stream-stopped"
    <3>1. <<Stopped(kind, d)>> \in Seq(Msg) BY <2>1
    <3>2. CamClosed(p) BY <2>4 DEF Closed
    <3>3. inbox' \in Seq(Event \union Answer) BY <3>1, <3>2, SendingFacts DEF IInv, CamClosed
    <3> QED BY <1>1, <3>2, <3>3 DEF CamClosed, MainType
  <2> QED BY <2>2, <2>3, <2>4
<1>9. \A q \in Procs \ {p} : \A e \in Cards : captureProcs[e] = q => captureProcs'[e] = q
  BY <1>1, <1>8 DEF Vacated, MainType
<1>10. captureProcs' \in [Cards -> Procs \union {None}] BY <1>1, <1>8 DEF Vacated, MainType
<1>11. TypeOK' BY <1>4, <1>8, <1>10 DEF Closed, window, IInv, TypeOK, ProcSet
<1>12. \A q \in Procs : Running(q)' /\ proc'[q].dev \in Cards => captureProcs'[proc'[q].dev] = q
  BY <1>6, <1>9 DEF IInv, OneProcessPerCard
<1> QED BY <1>6, <1>11, <1>12, EndsKeep DEF Closed

LEMMA WindowCloseKeeps ==
  ASSUME IInv, CloseWindow, UNCHANGED <<installed, ends>>, ops' \in 0..MaxOps PROVE IInv'
<1> DEFINE ps == {captureProcs[d] : d \in Cards} \union {captureProc, relayProc}
<1>1. proc \in ProcSet BY DEF IInv, TypeOK, ProcSet
<1>2. proc' = Killed(ps) BY DEF CloseWindow
<1>3. /\ proc' \in ProcSet
      /\ \A q \in Procs : /\ proc'[q].state # "free" => Goes(q)
                          /\ Running(q)' => Running(q) /\ q \notin ps
  <2> HIDE DEF ps
  <2> QED BY <1>1, <1>2, KillingFacts DEF Running, Goes
<1>4. TypeOK'
  <2>1. captureProcs' \in [Cards -> Procs \union {None}] /\ <<>> \in Seq(Event \union Answer)
    BY DEF CloseWindow
  <2>2. /\ UNION {beacons', waiting', devices', activeIds', liveIds', toggling', rendered'} \subseteq Devices
        /\ UNION {superseded', muddled'} \subseteq Cards
    BY DEF CloseWindow, IInv, TypeOK
  <2> QED BY <1>3, <2>1, <2>2 DEF CloseWindow, IInv, TypeOK, ProcSet
<1>5. RolesFit' BY <1>3 DEF IInv, RolesFit, Goes, Fits, Running
<1>6. PauseInv' BY DEF CloseWindow, IInv, PauseInv
<1>7. OneProcessPerCard'
  BY <1>3 DEF IInv, OneProcessPerCard, Goes, Running
<1>8. LiveIsAnnounced' BY DEF CloseWindow, LiveIsAnnounced
<1> QED BY <1>4, <1>5, <1>6, <1>7, <1>8 DEF IInv

LEMMA QuitKeeps == ASSUME IInv, Quit, UNCHANGED <<installed, ops, ends>> PROVE IInv'
<1>1. TypeOK' BY DEF Quit, main, window, IInv, TypeOK
<1>2. RolesFit' BY DEF Quit, main, IInv, RolesFit, Running
<1>3. PauseInv' BY DEF Quit, main, IInv, PauseInv
<1>4. OneProcessPerCard' BY DEF Quit, main, IInv, OneProcessPerCard, Running
<1>5. LiveIsAnnounced' BY DEF Quit, LiveIsAnnounced
<1> QED BY <1>1, <1>2, <1>3, <1>4, <1>5 DEF IInv

LEMMA IdleKeeps == IInv /\ UNCHANGED vars => IInv'
<1> SUFFICES ASSUME IInv, UNCHANGED vars PROVE IInv' OBVIOUS
<1>1. TypeOK' BY DEF vars, main, window, IInv, TypeOK
<1> QED BY <1>1, WindowKeeps DEF vars, main

-----------------------------------------------------------------------------
(* The theorems *)

LEMMA InitInv == Init => IInv
<1> SUFFICES ASSUME Init PROVE IInv OBVIOUS
<1>1. {MaxOps, MaxEnds} \subseteq Nat BY AppAssumption
<1>2. Free \in [state : {"free", "running", "dying"}, dev : Devices, role : Roles] BY FreeFacts
<1>3. 0 \in 0..MaxOps /\ 0 \in 0..MaxEnds BY <1>1
<1>4. TypeOK BY <1>2, <1>3 DEF Init, TypeOK
<1>5. \A p \in Procs : proc[p].state = "free" /\ ~Running(p) BY DEF Init, Free, Running
<1> QED BY <1>4, <1>5 DEF IInv, RolesFit, PauseInv, OneProcessPerCard, LiveIsAnnounced, Init

LEMMA StepInv == IInv /\ [Next]_vars => IInv'
<1> SUFFICES ASSUME IInv, [Next]_vars PROVE IInv' OBVIOUS
<1>1. ops \in 0..MaxOps /\ ends \in 0..MaxEnds BY DEF IInv, TypeOK
<1>2. CASE app # "gone" /\ UNCHANGED installed /\ User
  <2>1. ops' \in 0..MaxOps /\ ends' = ends /\ installed' = installed
    BY <1>1, <1>2, AppAssumption DEF User
  <2>2. ASSUME NEW d \in Devices, Click(d) \/ Rename(d) PROVE IInv'
    BY <2>1, <2>2, ClickKeeps, RenameKeeps
  <2>3. ASSUME NEW protocol \in Protocols, ToggleStream(protocol) PROVE IInv'
    BY <2>1, <2>3, ToggleKeeps
  <2>4. CASE Scan BY <2>1, <2>4, ScansKeep
  <2>5. CASE CloseWindow BY <2>1, <2>5, WindowCloseKeeps
  <2> QED BY <1>2, <2>2, <2>3, <2>4, <2>5 DEF User
<1>3. CASE app # "gone" /\ UNCHANGED installed /\ Dies
  <2>1. ends' \in 0..MaxEnds /\ ops' = ops /\ installed' = installed
    BY <1>1, <1>3, AppAssumption DEF Dies
  <2>2. PICK p \in Procs : Ends(p) BY <1>3 DEF Dies
  <2> QED BY <2>1, <2>2, DeathKeeps
<1>4. CASE System
  <2>1. UNCHANGED <<installed, ops, ends>> BY <1>4 DEF System
  <2>2. ASSUME NEW d \in Devices, Handler(d) PROVE IInv'
    BY <2>1, <2>2, StartCaptureKeeps, StopCaptureKeeps, StopStreamKeeps, RefuseKeeps, BeginKeeps,
       RelayCamKeeps, StreamsKeep DEF Handler
  <2>3. ASSUME NEW p \in Procs, Closed(p) PROVE IInv' BY <2>1, <2>3, CloseKeeps
  <2>4. CASE FormatsKnown BY <2>1, <2>4, FormatsKeep
  <2>5. CASE Scanned BY <1>1, <2>1, <2>5, ScansKeep
  <2>6. CASE Receive BY <2>1, <2>6, ReceiveKeeps
  <2>7. CASE Quit BY <2>1, <2>7, QuitKeeps
  <2> QED BY <1>4, <2>2, <2>3, <2>4, <2>5, <2>6, <2>7 DEF System
<1>5. CASE UNCHANGED vars BY <1>5, IdleKeeps
<1> QED BY <1>2, <1>3, <1>4, <1>5 DEF Next

-----------------------------------------------------------------------------
(* Queues: what is in them, and what is believed once they have been read. *)

Without(s, S) == \A i \in DOMAIN s : s[i] \notin S
AtMostOne(s, S) == \A i, j \in DOMAIN s : s[i] \in S /\ s[j] \in S => i = j

\* What comes to be true when s has been read: the last word that raises it comes after all
\* that lower it, or it is true now and nothing lowers it.
Will(s, raising, lowering, now) ==
  \/ \E i \in DOMAIN s : s[i] \in raising /\ \A j \in DOMAIN s : j > i => s[j] \notin lowering
  \/ now /\ Without(s, lowering)

\* What is where in a queue with one more at its end.
LEMMA AppendFacts ==
  ASSUME NEW S, NEW s \in Seq(S), NEW m \in S
  PROVE  /\ DOMAIN Append(s, m) = DOMAIN s \union {Len(s) + 1} /\ Len(s) \in Nat
         /\ DOMAIN s = 1..Len(s) /\ Append(s, m)[Len(s) + 1] = m
         /\ \A i \in DOMAIN s : Append(s, m)[i] = s[i]
<1>1. /\ Append(s, m) \in Seq(S) /\ Len(Append(s, m)) = Len(s) + 1 /\ Append(s, m)[Len(s) + 1] = m
      /\ \A i \in 1..Len(s) : Append(s, m)[i] = s[i]
  BY AppendProperties
<1>2. Len(s) \in Nat /\ DOMAIN s = 1..Len(s) /\ DOMAIN Append(s, m) = 1..(Len(s) + 1) BY <1>1
<1> QED BY <1>1, <1>2

\* What is where in a queue without its first.
LEMMA TailFacts ==
  ASSUME NEW S, NEW s \in Seq(S), s # <<>>
  PROVE  /\ Tail(s) \in Seq(S) /\ Len(s) \in Nat \ {0} /\ DOMAIN s = 1..Len(s)
         /\ DOMAIN Tail(s) = 1..(Len(s) - 1) /\ Head(s) = s[1]
         /\ \A i \in DOMAIN Tail(s) : Tail(s)[i] = s[i + 1]
BY HeadTailProperties

\* One more at the end.
LEMMA OneMore ==
  ASSUME NEW S, NEW s \in Seq(S), NEW m \in S
  PROVE  /\ \A X : /\ Without(Append(s, m), X) <=> Without(s, X) /\ m \notin X
                   /\ AtMostOne(s, X) /\ (m \in X => Without(s, X)) => AtMostOne(Append(s, m), X)
         /\ \A R, L : \A now \in BOOLEAN :
              Will(Append(s, m), R, L, now) <=> m \in R \/ (m \notin L /\ Will(s, R, L, now))
<1>1. /\ DOMAIN Append(s, m) = DOMAIN s \union {Len(s) + 1} /\ Len(s) \in Nat
      /\ DOMAIN s = 1..Len(s) /\ Append(s, m)[Len(s) + 1] = m
      /\ \A i \in DOMAIN s : Append(s, m)[i] = s[i]
  BY AppendFacts
<1>2. \A i \in DOMAIN s : i < Len(s) + 1 /\ ~(i > Len(s) + 1) /\ i # Len(s) + 1 BY <1>1
<1>3. ASSUME NEW X
      PROVE  /\ Without(Append(s, m), X) <=> Without(s, X) /\ m \notin X
             /\ AtMostOne(s, X) /\ (m \in X => Without(s, X)) => AtMostOne(Append(s, m), X)
  BY <1>1 DEF Without, AtMostOne
<1>4. ASSUME NEW R, NEW L, NEW now \in BOOLEAN
      PROVE  Will(Append(s, m), R, L, now) <=> m \in R \/ (m \notin L /\ Will(s, R, L, now))
  <2>1. ASSUME Will(Append(s, m), R, L, now), m \notin R PROVE m \notin L /\ Will(s, R, L, now)
    <3>1. CASE now /\ Without(Append(s, m), L) BY <1>3, <3>1 DEF Will
    <3>2. CASE ~(now /\ Without(Append(s, m), L))
      <4>1. PICK i \in DOMAIN Append(s, m) :
              Append(s, m)[i] \in R /\ \A j \in DOMAIN Append(s, m) : j > i => Append(s, m)[j] \notin L
        BY <2>1, <3>2 DEF Will
      <4>2. i \in DOMAIN s BY <1>1, <2>1, <4>1
      <4>3. Len(s) + 1 > i BY <1>1, <4>2
      <4>4. m \notin L BY <1>1, <4>1, <4>3
      <4> QED BY <1>1, <4>1, <4>2, <4>4 DEF Will
    <3> QED BY <3>1, <3>2
  <2>2. ASSUME m \in R PROVE Will(Append(s, m), R, L, now)
    <3>1. \A j \in DOMAIN Append(s, m) : ~(j > Len(s) + 1) BY <1>1
    <3> QED BY <1>1, <2>2, <3>1 DEF Will
  <2>3. ASSUME m \notin L, Will(s, R, L, now) PROVE Will(Append(s, m), R, L, now)
    <3>1. CASE now /\ Without(s, L) BY <1>3, <2>3, <3>1 DEF Will
    <3>2. CASE ~(now /\ Without(s, L))
      <4>1. PICK i \in DOMAIN s : s[i] \in R /\ \A j \in DOMAIN s : j > i => s[j] \notin L
        BY <2>3, <3>2 DEF Will
      <4>2. \A j \in DOMAIN Append(s, m) : j > i => Append(s, m)[j] \notin L BY <1>1, <2>3, <4>1
      <4> QED BY <1>1, <4>1, <4>2 DEF Will
    <3> QED BY <3>1, <3>2
  <2> QED BY <2>1, <2>2, <2>3
<1> QED BY <1>3, <1>4

\* One read from the front.
LEMMA OneLess ==
  ASSUME NEW S, NEW s \in Seq(S), s # <<>>
  PROVE  /\ \A X : /\ Without(s, X) <=> Without(Tail(s), X) /\ Head(s) \notin X
                   /\ AtMostOne(s, X) => /\ AtMostOne(Tail(s), X)
                                         /\ Head(s) \in X => Without(Tail(s), X)
         /\ \A R, L : \A now \in BOOLEAN :
              Will(s, R, L, now) <=> Will(Tail(s), R, L, Head(s) \in R \/ (Head(s) \notin L /\ now))
<1>1. /\ Len(s) \in Nat \ {0} /\ DOMAIN s = 1..Len(s)
      /\ DOMAIN Tail(s) = 1..(Len(s) - 1) /\ Head(s) = s[1]
      /\ \A i \in DOMAIN Tail(s) : Tail(s)[i] = s[i + 1]
  BY TailFacts
<1>2. \A i \in DOMAIN s : i = 1 \/ (i - 1 \in DOMAIN Tail(s) /\ i = (i - 1) + 1) BY <1>1
<1>3. 1 \in DOMAIN s /\ \A i \in DOMAIN Tail(s) : i + 1 \in DOMAIN s /\ i + 1 > 1 /\ i + 1 # 1 BY <1>1
<1>4. \A i \in DOMAIN s : i > 1 => i - 1 \in DOMAIN Tail(s) /\ s[i] = Tail(s)[i - 1] BY <1>1, <1>2
<1>5. ASSUME NEW X
      PROVE  /\ Without(s, X) <=> Without(Tail(s), X) /\ Head(s) \notin X
             /\ AtMostOne(s, X) => /\ AtMostOne(Tail(s), X)
                                   /\ Head(s) \in X => Without(Tail(s), X)
  <2>1. Without(s, X) => Without(Tail(s), X) /\ Head(s) \notin X BY <1>1, <1>3 DEF Without
  <2>2. ASSUME Without(Tail(s), X), Head(s) \notin X PROVE Without(s, X)
    <3>1. \A i \in DOMAIN s : i = 1 \/ i > 1 BY <1>1
    <3> QED BY <1>1, <1>4, <2>2, <3>1 DEF Without
  <2>3. AtMostOne(s, X) => AtMostOne(Tail(s), X)
    <3> SUFFICES ASSUME AtMostOne(s, X), NEW i \in DOMAIN Tail(s), NEW j \in DOMAIN Tail(s),
                        Tail(s)[i] \in X, Tail(s)[j] \in X
                 PROVE  i = j
      BY DEF AtMostOne
    <3>1. i + 1 = j + 1 BY <1>1, <1>3 DEF AtMostOne
    <3> QED BY <1>1, <3>1
  <2>4. AtMostOne(s, X) /\ Head(s) \in X => Without(Tail(s), X)
    BY <1>1, <1>3 DEF AtMostOne, Without
  <2> QED BY <2>1, <2>2, <2>3, <2>4
<1>6. ASSUME NEW R, NEW L, NEW now \in BOOLEAN
      PROVE  Will(s, R, L, now) <=> Will(Tail(s), R, L, Head(s) \in R \/ (Head(s) \notin L /\ now))
  <2>1. ASSUME NEW i \in DOMAIN s, s[i] \in R, \A j \in DOMAIN s : j > i => s[j] \notin L
        PROVE  Will(Tail(s), R, L, Head(s) \in R \/ (Head(s) \notin L /\ now))
    <3>1. CASE i = 1
      <4>1. Without(Tail(s), L) BY <1>1, <1>3, <2>1, <3>1 DEF Without
      <4> QED BY <1>1, <2>1, <3>1, <4>1 DEF Will
    <3>2. CASE i > 1
      <4>1. i - 1 \in DOMAIN Tail(s) /\ Tail(s)[i - 1] \in R BY <1>4, <2>1, <3>2
      <4>2. ASSUME NEW j \in DOMAIN Tail(s), j > i - 1 PROVE Tail(s)[j] \notin L
        <5>1. j + 1 > i /\ j + 1 \in DOMAIN s BY <1>1, <4>2
        <5> QED BY <1>1, <2>1, <5>1
      <4> QED BY <4>1, <4>2 DEF Will
    <3> QED BY <1>1, <3>1, <3>2
  <2>2. ASSUME now, Without(s, L)
        PROVE  Will(Tail(s), R, L, Head(s) \in R \/ (Head(s) \notin L /\ now))
    BY <1>5, <2>2 DEF Will
  <2>3. ASSUME NEW i \in DOMAIN Tail(s), Tail(s)[i] \in R,
               \A j \in DOMAIN Tail(s) : j > i => Tail(s)[j] \notin L
        PROVE  Will(s, R, L, now)
    <3>1. i + 1 \in DOMAIN s /\ s[i + 1] \in R BY <1>1, <1>3, <2>3
    <3>2. ASSUME NEW j \in DOMAIN s, j > i + 1 PROVE s[j] \notin L
      <4>1. j > 1 /\ j - 1 > i BY <1>1, <3>2
      <4> QED BY <1>4, <2>3, <4>1
    <3> QED BY <3>1, <3>2 DEF Will
  <2>4. ASSUME Head(s) \in R \/ (Head(s) \notin L /\ now), Without(Tail(s), L)
        PROVE  Will(s, R, L, now)
    <3>1. CASE Head(s) \in R
      <4>1. \A j \in DOMAIN s : j > 1 => s[j] \notin L BY <1>4, <2>4 DEF Without
      <4> QED BY <1>1, <1>3, <3>1, <4>1 DEF Will
    <3>2. CASE Head(s) \notin R BY <1>5, <2>4, <3>2 DEF Will
    <3> QED BY <3>1, <3>2
  <2> QED BY <2>1, <2>2, <2>3, <2>4 DEF Will
<1> QED BY <1>5, <1>6

-----------------------------------------------------------------------------
(* What the window will show. *)

StreamRoles == {"live", "ndi"}
StreamCalls == {"start-stream", "stop-stream"}

AnswerTo(d, by) == {m \in Answer : m.dev = d /\ m.call.by = by}
RaisesLive(d) == {m \in AnswerTo(d, "toggle") : m.call.op # "stop-stream" /\ m.ok}
LowersLive(d) == {Stopped("stream-stopped", d)}
                   \union {m \in AnswerTo(d, "toggle") : m.call.op = "stop-stream"}
RaisesActive(d) == {m \in AnswerTo(d, "click") : m.call.op = "start-capture"}
LowersActive(d) == {Stopped("capture-stopped", d)}
                     \union {m \in AnswerTo(d, "click") : m.call.op # "start-capture"}

WillBeLive(d) == Will(inbox, RaisesLive(d), LowersLive(d), d \in liveIds)
WillBeActive(d) == Will(inbox, RaisesActive(d), LowersActive(d), d \in activeIds)

\* Processes that work for d, and those among them that are about to close.
Works(p, d) == proc[p].state # "free" /\ proc[p].dev = d
Dying(d, roles) ==
  {p \in Procs : proc[p].state = "dying" /\ proc[p].dev = d /\ proc[p].role \in roles}

\* Streams are started and stopped by the button, captures by clicks; only a channel that
\* is muddled has been renamed.
Toggles == {c \in Call : c.by = "toggle"}
GoLives == {c \in Toggles : c.op = "start-stream"}
Unfit == {c \in Call : c.by # IF c.op \in StreamCalls THEN "toggle" ELSE "click"}
CallsFit(d) ==
  /\ Without(lock[d], Unfit) /\ Without(inbox, AnswerTo(d, "rename"))
  /\ d \in waiting => Head(lock[d]).op = "start-stream"

\* The button is off from its click to the answer.
OneToggle(d) ==
  /\ AtMostOne(lock[d], Toggles) /\ AtMostOne(inbox, AnswerTo(d, "toggle"))
  /\ Without(lock[d], Toggles) \/ Without(inbox, AnswerTo(d, "toggle"))
  /\ d \notin toggling => Without(lock[d], Toggles) /\ Without(inbox, AnswerTo(d, "toggle"))

\* A stream in its slot will be shown live; what will be shown live streams, or is about to
\* be reported; and who is about to go live is not live.
SlotInv(d) ==
  captureProcs[d] # None => /\ Works(captureProcs[d], d)
                            /\ proc[captureProcs[d]].role \in StreamRoles => WillBeLive(d)
LiveInv(d) ==
  /\ WillBeLive(d) => Streaming(d) \/ Dying(d, StreamRoles) # {}
  /\ WillBeLive(d) => Without(lock[d], GoLives)

\* A preview that was superseded is about to close.  What will be shown active runs, or its
\* end is about to be reported - by a stream, or by a preview other than the superseded one.
PreviewInv(d) == d \in superseded => Dying(d, {"preview"}) # {}
ActiveInv(d) ==
  WillBeActive(d) =>
    \/ Capturing(d) \/ Dying(d, StreamRoles) # {}
    \/ \E q \in Dying(d, {"preview"}) : d \in superseded => \E r \in Dying(d, {"preview"}) : r # q

AgreesOn(d) ==
  /\ CallsFit(d) /\ OneToggle(d) /\ SlotInv(d) /\ LiveInv(d) /\ PreviewInv(d)
  /\ installed => ActiveInv(d)

AgreeInv == app = "open" => \A d \in Cards \ muddled : AgreesOn(d)

-----------------------------------------------------------------------------
(* Which message says what. *)

\* Messages about other devices say nothing of d.
LEMMA ForeignFacts ==
  ASSUME NEW d, NEW m, m.dev # d
  PROVE  /\ \A by : m \notin AnswerTo(d, by)
         /\ m \notin RaisesLive(d) /\ m \notin LowersLive(d)
         /\ m \notin RaisesActive(d) /\ m \notin LowersActive(d)
<1>1. \A by : m \notin AnswerTo(d, by) BY DEF AnswerTo
<1>2. \A kind : Stopped(kind, d).dev = d BY DEF Stopped
<1> QED BY <1>1, <1>2 DEF RaisesLive, LowersLive, RaisesActive, LowersActive

\* An event says that d is not live, or not active any more, and answers nothing.
LEMMA EventFacts ==
  ASSUME NEW d, NEW kind \in {"stream-stopped", "capture-stopped"}
  PROVE  /\ \A by : Stopped(kind, d) \notin AnswerTo(d, by)
         /\ Stopped(kind, d) \notin RaisesLive(d) /\ Stopped(kind, d) \notin RaisesActive(d)
         /\ Stopped(kind, d) \in LowersLive(d) <=> kind = "stream-stopped"
         /\ Stopped(kind, d) \in LowersActive(d) <=> kind = "capture-stopped"
<1>1. /\ \A k : Stopped(k, d).kind = k /\ kind # "answer"
      /\ \A m \in Answer : m.kind = "answer"
  BY DEF Stopped, Answer
<1>2. \A by : Stopped(kind, d) \notin AnswerTo(d, by) BY <1>1 DEF AnswerTo
<1>3. \A k : Stopped(kind, d) = Stopped(k, d) <=> kind = k BY <1>1
<1> QED BY <1>2, <1>3 DEF RaisesLive, LowersLive, RaisesActive, LowersActive

\* An answer says what its call was for.
LEMMA AnswerFacts ==
  ASSUME NEW d \in Devices, NEW c \in Call, NEW ok \in BOOLEAN, NEW m,
         m = [kind |-> "answer", call |-> c, dev |-> d, ok |-> ok]
  PROVE  /\ m \in Answer /\ \A by : m \in AnswerTo(d, by) <=> c.by = by
         /\ m \in RaisesLive(d) <=> c.by = "toggle" /\ c.op # "stop-stream" /\ ok
         /\ m \in LowersLive(d) <=> c.by = "toggle" /\ c.op = "stop-stream"
         /\ m \in RaisesActive(d) <=> c.by = "click" /\ c.op = "start-capture"
         /\ m \in LowersActive(d) <=> c.by = "click" /\ c.op # "start-capture"
<1>1. m \in Answer BY DEF Answer
<1>2. m.kind = "answer" /\ m.call = c /\ m.dev = d /\ m.ok = ok OBVIOUS
<1>3. \A k \in {"stream-stopped", "capture-stopped"} : m # Stopped(k, d)
  <2>1. \A k : Stopped(k, d).kind = k BY DEF Stopped
  <2> QED BY <1>2, <2>1
<1>4. \A by : m \in AnswerTo(d, by) <=> c.by = by BY <1>1, <1>2 DEF AnswerTo
<1>5. m \in RaisesLive(d) <=> c.by = "toggle" /\ c.op # "stop-stream" /\ ok
  BY <1>2, <1>4 DEF RaisesLive
<1> QED BY <1>1, <1>2, <1>3, <1>4, <1>5 DEF LowersLive, RaisesActive, LowersActive

\* Some more at the end.
LEMMA SomeMore ==
  ASSUME NEW S, NEW s \in Seq(S), NEW t \in Seq(S)
  PROVE  /\ s \o t \in Seq(S)
         /\ \A X : /\ Without(s \o t, X) <=> Without(s, X) /\ Without(t, X)
                   /\ AtMostOne(s, X) /\ AtMostOne(t, X) /\ (Without(s, X) \/ Without(t, X))
                        => AtMostOne(s \o t, X)
         /\ \A R, L : \A now \in BOOLEAN :
              Will(s \o t, R, L, now) <=> Will(t, R, L, Will(s, R, L, now))
<1> DEFINE u == s \o t
<1>1. /\ Len(s) \in Nat /\ Len(t) \in Nat /\ DOMAIN s = 1..Len(s) /\ DOMAIN t = 1..Len(t)
      /\ u \in Seq(S) /\ DOMAIN u = 1..(Len(s) + Len(t))
      /\ \A i \in DOMAIN u : u[i] = IF i <= Len(s) THEN s[i] ELSE t[i - Len(s)]
  BY ConcatProperties
<1> HIDE DEF u
<1>2. /\ \A i \in DOMAIN s : i \in DOMAIN u /\ u[i] = s[i]
      /\ \A i \in DOMAIN t : /\ i + Len(s) \in DOMAIN u /\ u[i + Len(s)] = t[i]
                             /\ \A j \in DOMAIN s : i + Len(s) > j
  <2>1. ASSUME NEW i \in DOMAIN s PROVE i \in DOMAIN u /\ u[i] = s[i] BY <1>1
  <2>2. ASSUME NEW i \in DOMAIN t PROVE i + Len(s) \in DOMAIN u /\ u[i + Len(s)] = t[i]
    <3>1. i + Len(s) \in DOMAIN u /\ ~(i + Len(s) <= Len(s)) /\ (i + Len(s)) - Len(s) = i BY <1>1
    <3> QED BY <1>1, <3>1
  <2>3. \A i \in DOMAIN t : \A j \in DOMAIN s : i + Len(s) > j BY <1>1
  <2> QED BY <2>1, <2>2, <2>3
<1>3. \A i \in DOMAIN u : i \in DOMAIN s \/ \E j \in DOMAIN t : i = j + Len(s)
  <2> SUFFICES ASSUME NEW i \in DOMAIN u, i \notin DOMAIN s PROVE \E j \in DOMAIN t : i = j + Len(s)
    OBVIOUS
  <2>1. i - Len(s) \in DOMAIN t /\ i = (i - Len(s)) + Len(s) BY <1>1
  <2> QED BY <2>1
<1>4. ASSUME NEW X PROVE Without(u, X) <=> Without(s, X) /\ Without(t, X)
  <2>1. Without(u, X) => Without(s, X) /\ Without(t, X) BY <1>2 DEF Without
  <2>2. Without(s, X) /\ Without(t, X) => Without(u, X) BY <1>2, <1>3 DEF Without
  <2> QED BY <2>1, <2>2
<1>5. ASSUME NEW X, AtMostOne(s, X), AtMostOne(t, X), Without(s, X) \/ Without(t, X)
      PROVE  AtMostOne(u, X)
  <2>1. CASE Without(s, X)
    <3>1. \A i \in DOMAIN u : u[i] \in X => \E j \in DOMAIN t : i = j + Len(s) /\ t[j] \in X
      BY <1>2, <1>3, <2>1 DEF Without
    <3> QED BY <1>5, <3>1 DEF AtMostOne
  <2>2. CASE Without(t, X)
    <3>1. \A i \in DOMAIN u : u[i] \in X => i \in DOMAIN s /\ s[i] \in X
      BY <1>2, <1>3, <2>2 DEF Without
    <3> QED BY <1>5, <3>1 DEF AtMostOne
  <2> QED BY <1>5, <2>1, <2>2
<1>6. ASSUME NEW R, NEW L, NEW now \in BOOLEAN
      PROVE  Will(u, R, L, now) <=> Will(t, R, L, Will(s, R, L, now))
  <2>1. ASSUME NEW i \in DOMAIN u, u[i] \in R, \A j \in DOMAIN u : j > i => u[j] \notin L
        PROVE  Will(t, R, L, Will(s, R, L, now))
    <3>1. CASE i \in DOMAIN s
      <4>1. Will(s, R, L, now) BY <1>2, <2>1, <3>1 DEF Will
      <4>2. Without(t, L) BY <1>2, <2>1, <3>1 DEF Without
      <4> QED BY <4>1, <4>2 DEF Will
    <3>2. CASE i \notin DOMAIN s
      <4>1. PICK k \in DOMAIN t : i = k + Len(s) BY <1>3, <3>2
      <4>2. \A j \in DOMAIN t : j > k => j + Len(s) > i BY <1>1, <4>1
      <4>3. t[k] \in R /\ \A j \in DOMAIN t : j > k => t[j] \notin L BY <1>2, <2>1, <4>1, <4>2
      <4> QED BY <4>3 DEF Will
    <3> QED BY <3>1, <3>2
  <2>2. ASSUME now, Without(u, L) PROVE Will(t, R, L, Will(s, R, L, now))
    BY <1>4, <2>2 DEF Will
  <2>3. ASSUME NEW k \in DOMAIN t, t[k] \in R, \A j \in DOMAIN t : j > k => t[j] \notin L
        PROVE  Will(u, R, L, now)
    <3>1. ASSUME NEW j \in DOMAIN u, j > k + Len(s) PROVE u[j] \notin L
      <4>1. j \notin DOMAIN s BY <1>1, <3>1
      <4>2. PICK i \in DOMAIN t : j = i + Len(s) BY <1>3, <4>1
      <4>3. i > k BY <1>1, <3>1, <4>2
      <4> QED BY <1>2, <2>3, <4>2, <4>3
    <3>2. k + Len(s) \in DOMAIN u /\ u[k + Len(s)] \in R BY <1>2, <2>3
    <3> QED BY <3>1, <3>2 DEF Will
  <2>4. ASSUME Will(s, R, L, now), Without(t, L) PROVE Will(u, R, L, now)
    <3>1. CASE now /\ Without(s, L) BY <1>4, <2>4, <3>1 DEF Will
    <3>2. CASE ~(now /\ Without(s, L))
      <4>1. PICK i \in DOMAIN s : s[i] \in R /\ \A j \in DOMAIN s : j > i => s[j] \notin L
        BY <2>4, <3>2 DEF Will
      <4>2. \A j \in DOMAIN u : j > i => u[j] \notin L
        BY <1>2, <1>3, <2>4, <4>1 DEF Without
      <4> QED BY <1>2, <4>1, <4>2 DEF Will
    <3> QED BY <3>1, <3>2
  <2> QED BY <2>1, <2>2, <2>3, <2>4 DEF Will
<1> QED BY <1>1, <1>4, <1>5, <1>6 DEF u

-----------------------------------------------------------------------------
(* What one step does to one device. *)

\* Nothing said changes nothing.
LEMMA NothingSaid ==
  /\ <<>> \in Seq(Msg) /\ \A X : Without(<<>>, X)
  /\ \A R, L : \A x \in BOOLEAN : Will(<<>>, R, L, x) <=> x
<1>1. <<>> \in Seq(Msg) /\ \A X : Without(<<>>, X) BY DEF Without
<1>2. \A R, L : \A x \in BOOLEAN : Will(<<>>, R, L, x) <=> x BY DEF Will, Without
<1> QED BY <1>1, <1>2

\* Of a stream's end both events are heard, of a capture's one.
LEMMA EventsSay ==
  ASSUME NEW d \in Devices, NEW x \in BOOLEAN,
         NEW ss, NEW cs, ss = Stopped("stream-stopped", d), cs = Stopped("capture-stopped", d)
  PROVE  /\ \A by : /\ Without(<<ss>>, AnswerTo(d, by)) /\ Without(<<cs>>, AnswerTo(d, by))
                    /\ Without(<<ss, cs>>, AnswerTo(d, by))
         /\ ~Will(<<ss>>, RaisesLive(d), LowersLive(d), x)
         /\ ~Will(<<ss, cs>>, RaisesLive(d), LowersLive(d), x)
         /\ ~Will(<<ss, cs>>, RaisesActive(d), LowersActive(d), x)
         /\ ~Will(<<cs>>, RaisesActive(d), LowersActive(d), x)
         /\ Will(<<cs>>, RaisesLive(d), LowersLive(d), x) <=> x
         /\ Will(<<ss>>, RaisesActive(d), LowersActive(d), x) <=> x
<1>5. /\ \A by : ss \notin AnswerTo(d, by) /\ cs \notin AnswerTo(d, by)
      /\ ss \notin RaisesLive(d) /\ cs \notin RaisesLive(d) /\ ss \notin RaisesActive(d) /\ cs \notin RaisesActive(d)
      /\ ss \in LowersLive(d) /\ cs \notin LowersLive(d) /\ ss \notin LowersActive(d) /\ cs \in LowersActive(d)
  BY EventFacts
<1>6. ASSUME NEW m
      PROVE  /\ \A X : Without(<<m>>, X) <=> m \notin X
             /\ \A R, L : Will(<<m>>, R, L, x) <=> m \in R \/ (m \notin L /\ x)
  <2>1. DOMAIN <<m>> = {1} /\ <<m>>[1] = m /\ ~(1 > 1) OBVIOUS
  <2> QED BY <2>1 DEF Will, Without
<1>7. \A X : Without(<<ss, cs>>, X) <=> ss \notin X /\ cs \notin X
  <2>1. DOMAIN <<ss, cs>> = {1, 2} /\ <<ss, cs>>[1] = ss /\ <<ss, cs>>[2] = cs OBVIOUS
  <2> QED BY <2>1 DEF Without
<1>8. \A R, L : Will(<<ss, cs>>, R, L, x) => cs \in R \/ (cs \notin L /\ (ss \in R \/ (ss \notin L /\ x)))
  <2>1. DOMAIN <<ss, cs>> = {1, 2} /\ <<ss, cs>>[1] = ss /\ <<ss, cs>>[2] = cs /\ 2 > 1 OBVIOUS
  <2> QED BY <2>1 DEF Will, Without
<1> QED BY <1>5, <1>6, <1>7, <1>8

\* What will be shown, one step later: the messages then, and what is shown then.
LEMMA Later ==
  ASSUME NEW d
  PROVE  /\ WillBeLive(d)' <=> Will(inbox', RaisesLive(d), LowersLive(d), d \in liveIds')
         /\ WillBeActive(d)' <=> Will(inbox', RaisesActive(d), LowersActive(d), d \in activeIds')
BY DEF WillBeLive, WillBeActive, Will, Without

\* Messages about other devices.
LEMMA ToldNothing ==
  ASSUME TypeOK, NEW d, NEW ms \in Seq(Msg), \A i \in DOMAIN ms : ms[i].dev # d,
         inbox' = inbox \o ms, UNCHANGED <<liveIds, activeIds>>
  PROVE  /\ WillBeLive(d)' <=> WillBeLive(d)
         /\ WillBeActive(d)' <=> WillBeActive(d)
         /\ \A by : /\ Without(inbox, AnswerTo(d, by)) => Without(inbox', AnswerTo(d, by))
                    /\ AtMostOne(inbox, AnswerTo(d, by)) => AtMostOne(inbox', AnswerTo(d, by))
<1>1. /\ \A by : Without(ms, AnswerTo(d, by))
      /\ Without(ms, RaisesLive(d)) /\ Without(ms, LowersLive(d))
      /\ Without(ms, RaisesActive(d)) /\ Without(ms, LowersActive(d))
  BY ForeignFacts DEF Without
<1>2. \A by : AtMostOne(ms, AnswerTo(d, by)) BY <1>1 DEF AtMostOne, Without
<1>3. inbox \in Seq(Msg) BY DEF TypeOK, Msg
<1>4. ASSUME NEW R, NEW L, Without(ms, R), Without(ms, L), NEW now \in BOOLEAN
      PROVE  Will(inbox', R, L, now) <=> Will(inbox, R, L, now)
  <2>1. Will(inbox', R, L, now) <=> Will(ms, R, L, Will(inbox, R, L, now)) BY <1>3, SomeMore
  <2>2. Will(ms, R, L, Will(inbox, R, L, now)) <=> Will(inbox, R, L, now)
    <3>1. ASSUME NEW x \in BOOLEAN PROVE Will(ms, R, L, x) <=> x BY <1>4 DEF Will, Without
    <3>2. Will(inbox, R, L, now) \in BOOLEAN BY DEF Will
    <3> QED BY <3>1, <3>2
  <2> QED BY <2>1, <2>2
<1>6. WillBeLive(d)' <=> WillBeLive(d)
  <2> DEFINE now == d \in liveIds
  <2>1. Will(inbox', RaisesLive(d), LowersLive(d), now) <=> Will(inbox, RaisesLive(d), LowersLive(d), now)
    <3>1. now \in BOOLEAN OBVIOUS
    <3> HIDE DEF now
    <3> QED BY <1>1, <1>4, <3>1
  <2> QED BY <2>1, Later DEF WillBeLive
<1>7. WillBeActive(d)' <=> WillBeActive(d)
  <2> DEFINE now == d \in activeIds
  <2>1. Will(inbox', RaisesActive(d), LowersActive(d), now) <=> Will(inbox, RaisesActive(d), LowersActive(d), now)
    <3>1. now \in BOOLEAN OBVIOUS
    <3> HIDE DEF now
    <3> QED BY <1>1, <1>4, <3>1
  <2> QED BY <2>1, Later DEF WillBeActive
<1>8. \A by : /\ Without(inbox, AnswerTo(d, by)) => Without(inbox', AnswerTo(d, by))
              /\ AtMostOne(inbox, AnswerTo(d, by)) => AtMostOne(inbox', AnswerTo(d, by))
  BY <1>1, <1>2, <1>3, SomeMore
<1> QED BY <1>6, <1>7, <1>8

\* Processes that go on working for d, some of which may have been told to end.
Kept(d) ==
  \A p \in Procs : /\ Works(p, d)' <=> Works(p, d)
                   /\ Works(p, d) => proc'[p].role = proc[p].role /\ (Running(p)' => Running(p))

\* Processes that were told to end are about to close, and a stream with them is still reported.
LEMMA KeptFacts ==
  ASSUME TypeOK, TypeOK', RolesFit, NEW d \in Cards, Kept(d)
  PROVE  /\ \A roles : Dying(d, roles) \subseteq Dying(d, roles)'
         /\ Streaming(d) => Streaming(d)' \/ Dying(d, StreamRoles)' # {}
         /\ Streaming(d)' => Streaming(d)
         /\ \A p \in Procs : Works(p, d) /\ ~Running(p) => proc'[p].state = "dying"
         /\ \A p \in Procs : Works(p, d) => proc[p].role \in StreamRoles \union {"preview"}
<1>1. \A p \in Procs : /\ proc[p].state \in {"free", "running", "dying"}
                       /\ proc'[p].state \in {"free", "running", "dying"}
  BY DEF TypeOK
<1>2. \A p \in Procs : Works(p, d) => /\ proc'[p].state # "free" /\ proc'[p].dev = d
                                      /\ proc'[p].role = proc[p].role
                                      /\ proc'[p].state = "running" => proc[p].state = "running"
  BY DEF Kept, Works, Running
<1>3. \A roles : Dying(d, roles) \subseteq Dying(d, roles)' BY <1>1, <1>2 DEF Dying, Works
<1>4. Streaming(d) => Streaming(d)' \/ Dying(d, StreamRoles)' # {}
  BY <1>1, <1>2 DEF Streaming, Dying, Works, Running, StreamRoles
<1>5. Streaming(d)' => Streaming(d) BY DEF Streaming, Kept, Works, Running
<1>6. \A p \in Procs : Works(p, d) /\ ~Running(p) => proc'[p].state = "dying"
  BY <1>1, <1>2 DEF Running
<1>7. \A p \in Procs : Works(p, d) => proc[p].role \in StreamRoles \union {"preview"}
  BY DEF RolesFit, Fits, Works, StreamRoles
<1> QED BY <1>3, <1>4, <1>5, <1>6, <1>7

\* Nothing of d changes but processes that end.
LEMMA FrameAgrees ==
  ASSUME TypeOK, TypeOK', RolesFit, NEW d \in Cards, Kept(d), AgreesOn(d),
         captureProcs'[d] = captureProcs[d], installed' = installed,
         d \in superseded' <=> d \in superseded,
         WillBeLive(d)' <=> WillBeLive(d), installed /\ WillBeActive(d)' => WillBeActive(d),
         CallsFit(d)', OneToggle(d)', WillBeLive(d) => Without(lock'[d], GoLives)
  PROVE  AgreesOn(d)'
<1>1. /\ \A roles : Dying(d, roles) \subseteq Dying(d, roles)'
      /\ Streaming(d) => Streaming(d)' \/ Dying(d, StreamRoles)' # {}
      /\ \A p \in Procs : Works(p, d) /\ ~Running(p) => proc'[p].state = "dying"
      /\ \A p \in Procs : Works(p, d) => proc[p].role \in StreamRoles \union {"preview"}
  BY KeptFacts
<1>2. SlotInv(d)'
  <2>1. captureProcs[d] \in Procs \union {None} BY DEF TypeOK
  <2> QED BY <2>1 DEF AgreesOn, SlotInv, Kept, Works
<1>3. LiveInv(d)'
  <2>1. WillBeLive(d)' => Without(lock[d], GoLives)' BY DEF Without, GoLives, Toggles
  <2>2. WillBeLive(d)' => Streaming(d)' \/ Dying(d, StreamRoles)' # {}
    BY <1>1 DEF AgreesOn, LiveInv
  <2> QED BY <2>1, <2>2 DEF LiveInv
<1>4. PreviewInv(d)' BY <1>1 DEF AgreesOn, PreviewInv
<1>5. ASSUME installed', WillBeActive(d)'
      PROVE  \/ Capturing(d)' \/ Dying(d, StreamRoles)' # {}
             \/ \E q \in Dying(d, {"preview"})' :
                  d \in superseded' => \E r \in Dying(d, {"preview"})' : r # q
  <2>1. CASE Capturing(d)
    <3>1. PICK p \in Procs : Running(p) /\ proc[p].dev = d BY <2>1 DEF Capturing
    <3>2. Works(p, d) BY <3>1 DEF Works, Running
    <3>3. Works(p, d)' /\ proc'[p].role = proc[p].role BY <3>2 DEF Kept
    <3>4. CASE Running(p)' BY <3>3, <3>4 DEF Capturing, Works
    <3>5. CASE ~Running(p)'
      <4>1. proc'[p].state = "dying" /\ proc'[p].dev = d
        BY <3>3, <3>5 DEF TypeOK, Works, Running
      <4>2. CASE proc[p].role \in StreamRoles BY <3>3, <4>1, <4>2 DEF Dying
      <4>3. CASE proc[p].role = "preview"
        <5>1. p \in Dying(d, {"preview"})' BY <3>3, <4>1, <4>3 DEF Dying
        <5>2. ASSUME d \in superseded' PROVE \E r \in Dying(d, {"preview"})' : r # p
          <6>1. PICK r \in Dying(d, {"preview"}) : TRUE BY <5>2 DEF AgreesOn, PreviewInv
          <6>2. r # p BY <3>1, <6>1 DEF Dying, Running
          <6> QED BY <1>1, <6>1, <6>2
        <5> QED BY <5>1, <5>2
      <4> QED BY <1>1, <3>2, <4>2, <4>3
    <3> QED BY <3>4, <3>5
  <2>2. CASE Dying(d, StreamRoles) # {} BY <1>1, <2>2
  <2>3. CASE \E q \in Dying(d, {"preview"}) : d \in superseded => \E r \in Dying(d, {"preview"}) : r # q
    BY <1>1, <2>3
  <2> QED BY <1>5, <2>1, <2>2, <2>3 DEF AgreesOn, ActiveInv
<1>6. installed' => ActiveInv(d)' BY <1>5 DEF ActiveInv
<1> QED BY <1>2, <1>3, <1>4, <1>6 DEF AgreesOn

\* Something is done for another device.
LEMMA OthersAgree ==
  ASSUME IInv, IInv', NEW d \in Cards, AgreesOn(d), Kept(d),
         NEW ms \in Seq(Msg), \A i \in DOMAIN ms : ms[i].dev # d, inbox' = inbox \o ms,
         lock'[d] = lock[d],
         d \in waiting' => d \in waiting \/ Head(lock[d]).op = "start-stream",
         captureProcs'[d] = captureProcs[d], d \in superseded' <=> d \in superseded,
         UNCHANGED <<liveIds, activeIds, toggling, installed>>
  PROVE  AgreesOn(d)'
<1>1. /\ WillBeLive(d)' <=> WillBeLive(d)
      /\ WillBeActive(d)' <=> WillBeActive(d)
      /\ \A by : /\ Without(inbox, AnswerTo(d, by)) => Without(inbox', AnswerTo(d, by))
                 /\ AtMostOne(inbox, AnswerTo(d, by)) => AtMostOne(inbox', AnswerTo(d, by))
  BY ToldNothing DEF IInv
<1>2. CallsFit(d)' BY <1>1 DEF AgreesOn, CallsFit, Without, AnswerTo, Unfit
<1>3. OneToggle(d)' BY <1>1 DEF AgreesOn, OneToggle, Without, AtMostOne, AnswerTo, Toggles
<1>4. WillBeLive(d) => Without(lock'[d], GoLives) BY DEF AgreesOn, LiveInv
<1> QED BY <1>1, <1>2, <1>3, <1>4, FrameAgrees DEF IInv

\* What a call of d fits: clicks are for captures, the button for streams.
LEMMA CallFits ==
  ASSUME TypeOK, NEW d \in Cards, CallsFit(d), lock[d] # <<>>
  PROVE  /\ Head(lock[d]) \in Call /\ Tail(lock[d]) \in Seq(Call) /\ lock[d] \in Seq(Call)
         /\ Head(lock[d]).op \in StreamCalls <=> Head(lock[d]).by = "toggle"
         /\ Head(lock[d]).op \notin StreamCalls <=> Head(lock[d]).by = "click"
<1>1. lock[d] \in Seq(Call) BY DEF TypeOK, Devices
<1>2. Head(lock[d]) \in Call /\ Tail(lock[d]) \in Seq(Call) BY <1>1
<1>3. Head(lock[d]) \notin Unfit BY <1>1, OneLess DEF CallsFit
<1>4. Head(lock[d]).by = IF Head(lock[d]).op \in StreamCalls THEN "toggle" ELSE "click"
  BY <1>2, <1>3 DEF Unfit
<1> QED BY <1>1, <1>2, <1>4

\* A handler of d returns: what will be shown afterwards is what the answer says, or else
\* what it has sent before.
LEMMA OwnReturn ==
  ASSUME IInv, NEW d \in Cards, AgreesOn(d), lock[d] # <<>>, app = "open",
         NEW ok \in BOOLEAN, NEW events \in Seq(Msg),
         \A by : Without(events, AnswerTo(d, by)), Return(d, ok, events),
         UNCHANGED <<liveIds, activeIds, toggling>>,
         NEW op, op = Head(lock[d]).op
  PROVE  /\ CallsFit(d)' /\ OneToggle(d)'
         /\ WillBeLive(d)' <=>
              \/ op = "start-stream" /\ ok
              \/ op # "stop-stream" /\ Will(events, RaisesLive(d), LowersLive(d), WillBeLive(d))
         /\ WillBeActive(d)' <=>
              \/ op = "start-capture"
              \/ op # "stop-capture" /\ Will(events, RaisesActive(d), LowersActive(d), WillBeActive(d))
         /\ WillBeLive(d) => Without(lock'[d], GoLives)
         /\ op = "start-stream" => ~WillBeLive(d) /\ Without(lock'[d], GoLives)
<1> DEFINE c == Head(lock[d])
           a == [kind |-> "answer", call |-> c, dev |-> d, ok |-> ok]
           ms == Append(events, a)
<1>1. /\ c \in Call /\ Tail(lock[d]) \in Seq(Call) /\ lock[d] \in Seq(Call)
      /\ c.op \in StreamCalls <=> c.by = "toggle"
      /\ c.op \notin StreamCalls <=> c.by = "click"
  BY CallFits DEF AgreesOn, IInv
<1>2. d \in Devices BY DEF Devices
<1>3. /\ a \in Answer /\ \A by : a \in AnswerTo(d, by) <=> c.by = by
      /\ a \in RaisesLive(d) <=> c.by = "toggle" /\ c.op # "stop-stream" /\ ok
      /\ a \in LowersLive(d) <=> c.by = "toggle" /\ c.op = "stop-stream"
      /\ a \in RaisesActive(d) <=> c.by = "click" /\ c.op = "start-capture"
      /\ a \in LowersActive(d) <=> c.by = "click" /\ c.op # "start-capture"
  BY <1>1, <1>2, AnswerFacts
<1>4. /\ inbox' = inbox \o ms /\ lock' = [lock EXCEPT ![d] = Tail(@)]
      /\ waiting' = waiting \ {d}
  BY DEF Return, Send
<1>5. lock'[d] = Tail(lock[d]) BY <1>2, <1>4 DEF IInv, TypeOK
<1>6. c.op \in StreamCalls \union {"start-capture", "stop-capture"} BY <1>1 DEF Call, StreamCalls
<1>7. c \in Toggles <=> c.by = "toggle" BY <1>1 DEF Toggles
<1> HIDE DEF c, a
<1>8. inbox \in Seq(Msg) /\ ms \in Seq(Msg) /\ a \in Msg BY <1>3 DEF IInv, TypeOK, Msg
<1>9. \A by : /\ Without(ms, AnswerTo(d, by)) <=> c.by # by
              /\ AtMostOne(ms, AnswerTo(d, by))
  <2>1. ASSUME NEW by PROVE Without(ms, AnswerTo(d, by)) <=> c.by # by
    BY <1>3, <1>8, OneMore
  <2>2. ASSUME NEW by PROVE AtMostOne(ms, AnswerTo(d, by))
    <3>1. AtMostOne(events, AnswerTo(d, by)) BY DEF AtMostOne, Without
    <3> QED BY <1>8, <3>1, OneMore
  <2> QED BY <2>1, <2>2
<1>10. /\ \A X : /\ Without(lock[d], X) => Without(lock'[d], X)
                 /\ AtMostOne(lock[d], X) => AtMostOne(lock'[d], X)
                 /\ AtMostOne(lock[d], X) /\ c \in X => Without(lock'[d], X)
                 /\ Without(lock[d], X) => c \notin X
  BY <1>1, <1>5, OneLess DEF c
<1>11. \A by : /\ Without(inbox', AnswerTo(d, by)) <=> Without(inbox, AnswerTo(d, by)) /\ c.by # by
               /\ AtMostOne(inbox, AnswerTo(d, by)) /\ (c.by # by \/ Without(inbox, AnswerTo(d, by)))
                    => AtMostOne(inbox', AnswerTo(d, by))
  BY <1>4, <1>8, <1>9, SomeMore
<1>12. CallsFit(d)'
  <2>1. Without(lock'[d], Unfit) BY <1>10 DEF AgreesOn, CallsFit
  <2>2. Without(inbox', AnswerTo(d, "rename"))
    BY <1>1, <1>11 DEF AgreesOn, CallsFit
  <2> QED BY <1>4, <2>1, <2>2 DEF CallsFit, Without, AnswerTo, Unfit
<1>13. OneToggle(d)'
  <2>1. AtMostOne(lock'[d], Toggles) BY <1>10 DEF AgreesOn, OneToggle
  <2>2. CASE c.by = "toggle"
    <3>1. /\ ~Without(lock[d], Toggles) /\ Without(inbox, AnswerTo(d, "toggle"))
          /\ d \in toggling /\ Without(lock'[d], Toggles)
      BY <1>7, <1>10, <2>2 DEF AgreesOn, OneToggle
    <3>2. AtMostOne(inbox', AnswerTo(d, "toggle"))
      BY <1>11, <3>1 DEF AgreesOn, OneToggle
    <3> QED BY <2>1, <3>1, <3>2 DEF OneToggle, Without, AtMostOne, AnswerTo, Toggles
  <2>3. CASE c.by # "toggle"
    <3>1. /\ Without(inbox', AnswerTo(d, "toggle")) <=> Without(inbox, AnswerTo(d, "toggle"))
          /\ AtMostOne(inbox', AnswerTo(d, "toggle"))
      BY <1>11, <2>3 DEF AgreesOn, OneToggle
    <3>2. Without(lock[d], Toggles) => Without(lock'[d], Toggles) BY <1>10
    <3>3. /\ Without(lock'[d], Toggles) \/ Without(inbox', AnswerTo(d, "toggle"))
          /\ d \notin toggling => Without(lock'[d], Toggles) /\ Without(inbox', AnswerTo(d, "toggle"))
      BY <3>1, <3>2 DEF AgreesOn, OneToggle
    <3> QED BY <2>1, <3>1, <3>3 DEF OneToggle, Without, AtMostOne, AnswerTo, Toggles
  <2> QED BY <2>2, <2>3
<1>14. ASSUME NEW R, NEW L, NEW now \in BOOLEAN
       PROVE  Will(inbox', R, L, now) <=> a \in R \/ (a \notin L /\ Will(events, R, L, Will(inbox, R, L, now)))
  <2>1. Will(inbox, R, L, now) \in BOOLEAN BY DEF Will
  <2>2. Will(inbox', R, L, now) <=> Will(ms, R, L, Will(inbox, R, L, now))
    BY <1>4, <1>8, SomeMore
  <2> QED BY <1>8, <2>1, <2>2, OneMore
<1>15. WillBeLive(d)' <=>
         \/ op = "start-stream" /\ ok
         \/ op # "stop-stream" /\ Will(events, RaisesLive(d), LowersLive(d), WillBeLive(d))
  <2> DEFINE now == d \in liveIds
  <2>1. Will(inbox', RaisesLive(d), LowersLive(d), now)
          <=> \/ a \in RaisesLive(d)
              \/ a \notin LowersLive(d)
                   /\ Will(events, RaisesLive(d), LowersLive(d), Will(inbox, RaisesLive(d), LowersLive(d), now))
    <3>1. now \in BOOLEAN OBVIOUS
    <3> HIDE DEF now
    <3> QED BY <1>14, <3>1
  <2>2. WillBeLive(d)' <=> Will(inbox', RaisesLive(d), LowersLive(d), now) BY Later
  <2>3. WillBeLive(d) = Will(inbox, RaisesLive(d), LowersLive(d), now) BY DEF WillBeLive
  <2>4. a \in RaisesLive(d) <=> op = "start-stream" /\ ok BY <1>1, <1>3, <1>6 DEF StreamCalls, c
  <2>5. a \notin LowersLive(d) <=> op # "stop-stream" BY <1>1, <1>3, <1>6 DEF StreamCalls, c
  <2> HIDE DEF now
  <2> QED BY <2>1, <2>2, <2>3, <2>4, <2>5
<1>16. WillBeActive(d)' <=>
         \/ op = "start-capture"
         \/ op # "stop-capture" /\ Will(events, RaisesActive(d), LowersActive(d), WillBeActive(d))
  <2> DEFINE now == d \in activeIds
  <2>1. Will(inbox', RaisesActive(d), LowersActive(d), now)
          <=> \/ a \in RaisesActive(d)
              \/ a \notin LowersActive(d)
                   /\ Will(events, RaisesActive(d), LowersActive(d), Will(inbox, RaisesActive(d), LowersActive(d), now))
    <3>1. now \in BOOLEAN OBVIOUS
    <3> HIDE DEF now
    <3> QED BY <1>14, <3>1
  <2>2. WillBeActive(d)' <=> Will(inbox', RaisesActive(d), LowersActive(d), now) BY Later
  <2>3. WillBeActive(d) = Will(inbox, RaisesActive(d), LowersActive(d), now) BY DEF WillBeActive
  <2>4. a \in RaisesActive(d) <=> op = "start-capture" BY <1>1, <1>3, <1>6 DEF StreamCalls, c
  <2>5. a \notin LowersActive(d) <=> op # "stop-capture" BY <1>1, <1>3, <1>6 DEF StreamCalls, c
  <2> HIDE DEF now
  <2> QED BY <2>1, <2>2, <2>3, <2>4, <2>5
<1>17. WillBeLive(d) => Without(lock'[d], GoLives) BY <1>10 DEF AgreesOn, LiveInv
<1>18. op = "start-stream" => ~WillBeLive(d) /\ Without(lock'[d], GoLives)
  <2> SUFFICES ASSUME op = "start-stream" PROVE ~WillBeLive(d) /\ Without(lock'[d], GoLives) OBVIOUS
  <2>1. c \in Toggles /\ c \in GoLives BY <1>1, <1>7 DEF GoLives, StreamCalls, c
  <2>2. ~WillBeLive(d) BY <1>10, <2>1 DEF AgreesOn, LiveInv
  <2>3. Without(lock'[d], Toggles) BY <1>10, <2>1 DEF AgreesOn, OneToggle
  <2> QED BY <2>2, <2>3 DEF Without, GoLives
<1> QED BY <1>12, <1>13, <1>15, <1>16, <1>17, <1>18

\* Nothing is left of d but processes that are about to close, and the window will hear it.
LEMMA StopAgrees ==
  ASSUME TypeOK, TypeOK', RolesFit, NEW d \in Cards, Kept(d), AgreesOn(d),
         captureProcs'[d] = None, d \in superseded' <=> d \in superseded,
         ~WillBeLive(d)', ~WillBeActive(d)', CallsFit(d)', OneToggle(d)'
  PROVE  AgreesOn(d)'
<1>1. Dying(d, {"preview"}) \subseteq Dying(d, {"preview"})' BY KeptFacts
<1>2. PreviewInv(d)' BY <1>1 DEF AgreesOn, PreviewInv
<1> QED BY <1>2 DEF AgreesOn, SlotInv, LiveInv, ActiveInv

\* Killing keeps the processes of every device working.
LEMMA KillsKeep == ASSUME TypeOK, NEW ps, proc' = Killed(ps), NEW d PROVE Kept(d)
<1>1. /\ proc \in ProcSet
      /\ \A p \in Procs : /\ proc'[p].dev = proc[p].dev
                          /\ proc'[p].role = proc[p].role
                          /\ proc'[p].state = "running" <=> Running(p) /\ p \notin ps
                          /\ proc'[p].state = "free" <=> proc[p].state = "free"
  BY KillingFacts DEF TypeOK, ProcSet
<1> QED BY <1>1 DEF Kept, Works, Running


\* A process that is started for d replaces the one in its slot.
Takes(p, d, role) ==
  /\ p \in Procs /\ proc[p].state = "free"
  /\ proc'[p] = [state |-> "running", dev |-> d, role |-> role]
  /\ \A q \in Procs \ {p} : /\ Works(q, d)' <=> Works(q, d)
                            /\ proc'[q].role = proc[q].role /\ proc'[q].dev = proc[q].dev
                            /\ proc'[q].state = "running" <=> Running(q) /\ q # captureProcs[d]

LEMMA SpawnsOwn ==
  ASSUME TypeOK, NEW p \in Unused, NEW d \in Devices, NEW role \in Roles,
         proc' = Spawned({captureProcs[d]}, p, d, role)
  PROVE  Takes(p, d, role)
<1>1. proc \in ProcSet /\ p \in Procs /\ proc[p].state = "free" BY UnusedIsFree DEF TypeOK, ProcSet
<1>2. /\ proc'[p] = [state |-> "running", dev |-> d, role |-> role]
      /\ \A q \in Procs \ {p} : /\ proc'[q].dev = proc[q].dev
                                /\ proc'[q].role = proc[q].role
                                /\ proc'[q].state = "running" <=> Running(q) /\ q \notin {captureProcs[d]}
                                /\ proc'[q].state = "free" <=> proc[q].state = "free"
  BY <1>1, SpawningFacts
<1> QED BY <1>1, <1>2 DEF Takes, Works

\* A preview is started: it runs, and what was live is about to be reported.
LEMMA PreviewAgrees ==
  ASSUME IInv, IInv', NEW d \in Cards, NEW p \in Unused, AgreesOn(d), installed' = installed,
         NEW role \in Roles \ StreamRoles,
         proc' = Spawned({captureProcs[d]}, p, d, role),
         captureProcs' = [captureProcs EXCEPT ![d] = p],
         d \in superseded' <=> d \in superseded, WillBeLive(d)' <=> WillBeLive(d),
         CallsFit(d)', OneToggle(d)', WillBeLive(d) => Without(lock'[d], GoLives)
  PROVE  AgreesOn(d)'
<1>1. d \in Devices /\ role \in Roles /\ role \notin StreamRoles
  BY DEF Devices, Roles, StreamRoles
<1>2. /\ p \in Procs /\ proc[p].state = "free"
      /\ proc'[p] = [state |-> "running", dev |-> d, role |-> role]
      /\ \A q \in Procs \ {p} : /\ Works(q, d)' <=> Works(q, d)
                                /\ proc'[q].role = proc[q].role /\ proc'[q].dev = proc[q].dev
                                /\ proc'[q].state = "running" <=> Running(q) /\ q # captureProcs[d]
  <2>1. TypeOK /\ proc' = Spawned({captureProcs[d]}, p, d, role) BY DEF IInv
  <2>2. Takes(p, d, role) BY <1>1, <2>1, SpawnsOwn
  <2> QED BY <2>2 DEF Takes
<1>3. \A q \in Procs : proc[q].state = "dying" => q # p BY <1>2
<1>4. \A q \in Procs : /\ proc[q].state \in {"free", "running", "dying"}
                       /\ proc'[q].state \in {"free", "running", "dying"}
  BY DEF IInv, TypeOK
<1>5. \A roles : Dying(d, roles) \subseteq Dying(d, roles)'
  <2> SUFFICES ASSUME NEW roles, NEW q \in Dying(d, roles) PROVE q \in Dying(d, roles)' OBVIOUS
  <2>1. q \in Procs \ {p} /\ Works(q, d) /\ ~Running(q) /\ proc[q].role \in roles
    BY <1>3 DEF Dying, Works, Running
  <2>2. proc'[q].state # "free" /\ proc'[q].dev = d /\ proc'[q].state # "running" /\ proc'[q].role \in roles
    BY <1>2, <2>1 DEF Works
  <2> QED BY <1>4, <2>1, <2>2 DEF Dying
<1>6. SlotInv(d)'
  <2>1. captureProcs'[d] = p BY DEF IInv, TypeOK
  <2>2. proc'[p].state = "running" /\ proc'[p].dev = d /\ proc'[p].role \notin StreamRoles BY <1>1, <1>2
  <2> QED BY <2>1, <2>2 DEF SlotInv, Works
<1>7. LiveInv(d)'
  <2>1. WillBeLive(d)' => Without(lock[d], GoLives)' BY DEF Without, GoLives, Toggles
  <2>2. ASSUME Streaming(d) PROVE Dying(d, StreamRoles)' # {} \/ Streaming(d)'
    <3>1. PICK q \in Procs : Running(q) /\ proc[q].dev = d /\ proc[q].role \in {"live", "ndi"}
      BY <2>2 DEF Streaming
    <3>2. q \in Procs \ {p} /\ Works(q, d) BY <1>2, <3>1 DEF Works, Running
    <3>3. proc'[q].state # "free" /\ proc'[q].dev = d /\ proc'[q].role \in {"live", "ndi"}
      BY <1>2, <3>1, <3>2 DEF Works
    <3> QED BY <1>4, <3>2, <3>3 DEF Streaming, Dying, Running, StreamRoles
  <2>3. WillBeLive(d)' => Streaming(d)' \/ Dying(d, StreamRoles)' # {}
    BY <1>5, <2>2 DEF AgreesOn, LiveInv
  <2> QED BY <2>1, <2>3 DEF LiveInv
<1>8. PreviewInv(d)' BY <1>5 DEF AgreesOn, PreviewInv
<1>9. Capturing(d)'
  <2>1. proc'[p].state = "running" /\ proc'[p].dev = d BY <1>2
  <2> QED BY <1>2, <2>1 DEF Capturing, Running
<1> QED BY <1>6, <1>7, <1>8, <1>9 DEF AgreesOn, ActiveInv

\* A stream is started in place of a preview, or of nothing: what is live cannot go live.
LEMMA StreamAgrees ==
  ASSUME IInv, IInv', NEW d \in Cards, NEW p \in Unused, NEW role \in StreamRoles, AgreesOn(d),
         ReplaceStreamProc(d, p, role), ~WillBeLive(d), WillBeLive(d)',
         CallsFit(d)', OneToggle(d)', Without(lock'[d], GoLives)
  PROVE  AgreesOn(d)'
<1>1. d \in Devices /\ role \in Roles /\ role \in {"live", "ndi"} BY DEF Devices, Roles, StreamRoles
<1>2. /\ p \in Procs /\ proc[p].state = "free"
      /\ proc'[p] = [state |-> "running", dev |-> d, role |-> role]
      /\ \A q \in Procs \ {p} : /\ Works(q, d)' <=> Works(q, d)
                                /\ proc'[q].role = proc[q].role /\ proc'[q].dev = proc[q].dev
                                /\ proc'[q].state = "running" <=> Running(q) /\ q # captureProcs[d]
  <2>1. TypeOK /\ proc' = Spawned({captureProcs[d]}, p, d, role) BY DEF IInv, ReplaceStreamProc
  <2>2. Takes(p, d, role) BY <1>1, <2>1, SpawnsOwn
  <2> QED BY <2>2 DEF Takes
<1>3. /\ captureProcs'[d] = p
      /\ superseded' = IF captureProcs[d] # None THEN superseded \union {d} ELSE superseded
      /\ captureProcs[d] \in Procs \union {None}
  BY DEF ReplaceStreamProc, IInv, TypeOK
<1>4. \A q \in Procs : /\ proc[q].state \in {"free", "running", "dying"}
                       /\ proc'[q].state \in {"free", "running", "dying"}
  BY DEF IInv, TypeOK
<1>5. proc'[p].state = "running" /\ proc'[p].dev = d /\ proc'[p].role = role BY <1>2
<1>6. SlotInv(d)' BY <1>3, <1>5 DEF SlotInv, Works
<1>7. Streaming(d)' /\ Capturing(d)' BY <1>1, <1>2, <1>5 DEF Streaming, Capturing, Running
<1>8. LiveInv(d)'
  <2>1. Without(lock[d], GoLives)' BY DEF Without, GoLives, Toggles
  <2> QED BY <1>7, <2>1 DEF LiveInv
<1>9. ASSUME NEW q \in Procs, Works(q, d), ~Running(q) \/ q = captureProcs[d], proc[q].role = "preview"
      PROVE  Dying(d, {"preview"})' # {}
  <2>1. q \in Procs \ {p} BY <1>2, <1>9 DEF Works
  <2>2. proc'[q].state # "free" /\ proc'[q].dev = d /\ proc'[q].state # "running" /\ proc'[q].role = "preview"
    BY <1>2, <1>9, <2>1 DEF Works
  <2> QED BY <1>4, <2>1, <2>2 DEF Dying
<1>10. PreviewInv(d)'
  <2>1. CASE captureProcs[d] # None
    <3>1. captureProcs[d] \in Procs /\ Works(captureProcs[d], d) BY <1>3, <2>1 DEF AgreesOn, SlotInv
    <3>2. proc[captureProcs[d]].role \notin StreamRoles BY <2>1 DEF AgreesOn, SlotInv
    <3>3. proc[captureProcs[d]].role = "preview"
      BY <3>1, <3>2 DEF IInv, RolesFit, Fits, Works, StreamRoles
    <3> QED BY <1>9, <3>1, <3>3 DEF PreviewInv
  <2>2. CASE captureProcs[d] = None
    <3> SUFFICES ASSUME d \in superseded PROVE Dying(d, {"preview"})' # {}
      BY <1>3, <2>2 DEF PreviewInv
    <3>1. PICK q \in Dying(d, {"preview"}) : TRUE BY DEF AgreesOn, PreviewInv
    <3> QED BY <1>9, <3>1 DEF Dying, Works, Running
  <2> QED BY <2>1, <2>2
<1> QED BY <1>6, <1>7, <1>8, <1>10 DEF AgreesOn, ActiveInv

-----------------------------------------------------------------------------
(* The handlers of d's calls, seen by d. *)

\* A preview is started, or refused without the program.
LEMMA OwnCapture ==
  ASSUME IInv, IInv', NEW d \in Cards, AgreesOn(d), app = "open", StartCapture(d), installed' = installed
  PROVE  AgreesOn(d)'
<1> DEFINE op == Head(lock[d]).op
<1>1. lock[d] # <<>> /\ op = "start-capture" BY DEF StartCapture, Handles
<1>2. UNCHANGED <<liveIds, activeIds, toggling, superseded>> BY DEF StartCapture, window
<1>3. /\ <<>> \in Seq(Msg) /\ \A X : Without(<<>>, X)
      /\ \A R, L : Will(<<>>, R, L, WillBeLive(d)) <=> WillBeLive(d)
  <2>1. WillBeLive(d) \in BOOLEAN BY DEF WillBeLive, Will
  <2> QED BY <2>1, NothingSaid
<1>4. ASSUME NEW ok \in BOOLEAN, Return(d, ok, <<>>)
      PROVE  /\ CallsFit(d)' /\ OneToggle(d)'
             /\ WillBeLive(d)' <=> WillBeLive(d)
             /\ WillBeLive(d) => Without(lock'[d], GoLives)
  <2>1. /\ CallsFit(d)' /\ OneToggle(d)'
        /\ WillBeLive(d)' <=>
             \/ op = "start-stream" /\ ok
             \/ op # "stop-stream" /\ Will(<<>>, RaisesLive(d), LowersLive(d), WillBeLive(d))
        /\ WillBeLive(d) => Without(lock'[d], GoLives)
    BY <1>1, <1>2, <1>3, <1>4, OwnReturn
  <2> QED BY <1>1, <1>3, <2>1
<1>5. CASE ~installed
  <2>1. Return(d, FALSE, <<>>) /\ UNCHANGED <<proc, captureProcs>> BY <1>5 DEF StartCapture
  <2>2. Kept(d) BY <2>1 DEF Kept, Works, Running
  <2> QED BY <1>2, <1>4, <1>5, <2>1, <2>2, FrameAgrees DEF IInv
<1>6. CASE installed
  <2>1. d \notin Cams BY AppAssumption
  <2>2. PICK p \in Unused : CaptureAja(d, p) /\ Return(d, TRUE, <<>>)
    BY <1>6, <2>1 DEF StartCapture, CaptureDeckLink, Cards
  <2>3. "preview" \in Roles \ StreamRoles BY DEF Roles, StreamRoles
  <2>4. /\ proc' = Spawned({captureProcs[d]}, p, d, "preview")
        /\ captureProcs' = [captureProcs EXCEPT ![d] = p]
    BY <2>2 DEF CaptureAja
  <2>5. /\ CallsFit(d)' /\ OneToggle(d)'
        /\ WillBeLive(d)' <=> WillBeLive(d)
        /\ WillBeLive(d) => Without(lock'[d], GoLives)
    BY <1>4, <2>2
  <2> QED BY <1>2, <2>3, <2>4, <2>5, PreviewAgrees
<1> QED BY <1>5, <1>6

\* A capture or a stream is stopped: the window is told before the answer.
LEMMA OwnStops ==
  ASSUME IInv, IInv', NEW d \in Cards, AgreesOn(d), app = "open", StopCapture(d) \/ StopStream(d)
  PROVE  AgreesOn(d)'
<1> DEFINE op == Head(lock[d]).op
           ss == Stopped("stream-stopped", d)
           cs == Stopped("capture-stopped", d)
<1>1. lock[d] # <<>> BY DEF StopCapture, StopStream, Handles
<1>2. UNCHANGED <<liveIds, activeIds, toggling, superseded>> BY DEF StopCapture, StopStream, window
<1>3. d \in Devices /\ <<ss>> \in Seq(Msg) /\ <<ss, cs>> \in Seq(Msg)
  <2>1. ss \in Msg /\ cs \in Msg BY EventsAreMessages DEF Devices
  <2> QED BY <2>1 DEF Devices
<1>4. WillBeLive(d) \in BOOLEAN /\ WillBeActive(d) \in BOOLEAN
  BY DEF WillBeLive, WillBeActive, Will
<1>5. captureProcs \in [Cards -> Procs \union {None}] BY DEF IInv, TypeOK
<1>6. ASSUME NEW events \in {<<ss>>, <<ss, cs>>}, Return(d, TRUE, events),
             ~Will(events, RaisesLive(d), LowersLive(d), WillBeLive(d)),
             op = "stop-capture" \/ ~Will(events, RaisesActive(d), LowersActive(d), WillBeActive(d)),
             op \in {"stop-capture", "stop-stream"}
      PROVE  CallsFit(d)' /\ OneToggle(d)' /\ ~WillBeLive(d)' /\ ~WillBeActive(d)'
  <2>1. events \in Seq(Msg) BY <1>3, <1>6
  <2>2. \A by : Without(events, AnswerTo(d, by)) BY <1>3, <1>4, <1>6, EventsSay
  <2>3. /\ CallsFit(d)' /\ OneToggle(d)'
        /\ WillBeLive(d)' <=>
             \/ op = "start-stream" /\ TRUE
             \/ op # "stop-stream" /\ Will(events, RaisesLive(d), LowersLive(d), WillBeLive(d))
        /\ WillBeActive(d)' <=>
             \/ op = "start-capture"
             \/ op # "stop-capture" /\ Will(events, RaisesActive(d), LowersActive(d), WillBeActive(d))
    <3> HIDE DEF ss, cs
    <3> QED BY <1>1, <1>2, <1>6, <2>1, <2>2, OwnReturn
  <2> QED BY <1>6, <2>3
<1>7. CASE StopCapture(d)
  <2>1. /\ op = "stop-capture" /\ Return(d, TRUE, <<ss>>)
        /\ proc' = Killed({captureProcs[d]}) /\ captureProcs' = [captureProcs EXCEPT ![d] = None]
    BY <1>7 DEF StopCapture, Handles
  <2>2. ~Will(<<ss>>, RaisesLive(d), LowersLive(d), WillBeLive(d)) BY <1>3, <1>4, EventsSay
  <2>3. CallsFit(d)' /\ OneToggle(d)' /\ ~WillBeLive(d)' /\ ~WillBeActive(d)' BY <1>6, <2>1, <2>2
  <2>4. Kept(d) BY <2>1, KillsKeep DEF IInv
  <2>5. captureProcs'[d] = None BY <1>5, <2>1
  <2> QED BY <1>2, <2>3, <2>4, <2>5, StopAgrees DEF IInv
<1>8. CASE StopStream(d)
  <2>1. /\ op = "stop-stream" /\ Return(d, TRUE, <<ss, cs>>)
        /\ proc' = Killed({captureProcs[d]}) \/ proc' = Killed({relayProc})
        /\ captureProcs'[d] = None
    BY <1>5, <1>8 DEF StopStream, Handles
  <2>2. /\ ~Will(<<ss, cs>>, RaisesLive(d), LowersLive(d), WillBeLive(d))
        /\ ~Will(<<ss, cs>>, RaisesActive(d), LowersActive(d), WillBeActive(d))
    BY <1>3, <1>4, EventsSay
  <2>3. CallsFit(d)' /\ OneToggle(d)' /\ ~WillBeLive(d)' /\ ~WillBeActive(d)' BY <1>6, <2>1, <2>2
  <2>4. Kept(d) BY <2>1, KillsKeep DEF IInv
  <2> QED BY <1>2, <2>1, <2>3, <2>4, StopAgrees DEF IInv
<1> QED BY <1>7, <1>8

\* A refused stream leaves everything as it is.
LEMMA OwnRefuse ==
  ASSUME IInv, IInv', NEW d \in Cards, AgreesOn(d), app = "open", RefuseStream(d), installed' = installed
  PROVE  AgreesOn(d)'
<1> DEFINE op == Head(lock[d]).op
<1>1. lock[d] # <<>> /\ op = "start-stream" /\ Return(d, FALSE, <<>>) BY DEF RefuseStream, Handles
<1>2. UNCHANGED <<liveIds, activeIds, toggling, superseded, proc, captureProcs>>
  BY DEF RefuseStream, window
<1>3. /\ <<>> \in Seq(Msg) /\ \A X : Without(<<>>, X)
      /\ \A R, L : Will(<<>>, R, L, WillBeLive(d)) <=> WillBeLive(d)
      /\ \A R, L : Will(<<>>, R, L, WillBeActive(d)) <=> WillBeActive(d)
  <2>1. WillBeLive(d) \in BOOLEAN /\ WillBeActive(d) \in BOOLEAN
    BY DEF WillBeLive, WillBeActive, Will
  <2> QED BY <2>1, NothingSaid
<1>4. /\ CallsFit(d)' /\ OneToggle(d)'
      /\ WillBeLive(d)' <=>
           \/ op = "start-stream" /\ FALSE
           \/ op # "stop-stream" /\ Will(<<>>, RaisesLive(d), LowersLive(d), WillBeLive(d))
      /\ WillBeActive(d)' <=>
           \/ op = "start-capture"
           \/ op # "stop-capture" /\ Will(<<>>, RaisesActive(d), LowersActive(d), WillBeActive(d))
      /\ WillBeLive(d) => Without(lock'[d], GoLives)
  BY <1>1, <1>2, <1>3, OwnReturn
<1>5. (WillBeLive(d)' <=> WillBeLive(d)) /\ (WillBeActive(d)' <=> WillBeActive(d)) BY <1>1, <1>3, <1>4
<1>6. Kept(d) BY <1>2 DEF Kept, Works, Running
<1> QED BY <1>2, <1>4, <1>5, <1>6, FrameAgrees DEF IInv

\* A stream begins, and its answer says so.
LEMMA OwnStreams ==
  ASSUME IInv, IInv', NEW d \in Cards, AgreesOn(d), app = "open",
         PushUdp(d) \/ BroadcastNdi(d) \/ PublishSrt(d)
  PROVE  AgreesOn(d)'
<1> DEFINE op == Head(lock[d]).op
<1>1. d \in waiting /\ Return(d, TRUE, <<>>) BY DEF PushUdp, BroadcastNdi, PublishSrt, Streams
<1>2. lock[d] # <<>> /\ op = "start-stream" BY <1>1 DEF AgreesOn, CallsFit, IInv, PauseInv
<1>3. UNCHANGED <<liveIds, activeIds, toggling>> BY DEF PushUdp, BroadcastNdi, PublishSrt, window
<1>4. <<>> \in Seq(Msg) /\ \A X : Without(<<>>, X) BY NothingSaid
<1>5. PICK p \in Unused, role \in StreamRoles : ReplaceStreamProc(d, p, role)
  BY DEF PushUdp, BroadcastNdi, PublishSrt, StreamRoles
<1>6. /\ CallsFit(d)' /\ OneToggle(d)'
      /\ WillBeLive(d)' <=>
           \/ op = "start-stream" /\ TRUE
           \/ op # "stop-stream" /\ Will(<<>>, RaisesLive(d), LowersLive(d), WillBeLive(d))
      /\ op = "start-stream" => ~WillBeLive(d) /\ Without(lock'[d], GoLives)
  BY <1>1, <1>2, <1>3, <1>4, OwnReturn
<1>7. WillBeLive(d)' /\ ~WillBeLive(d) /\ Without(lock'[d], GoLives) BY <1>2, <1>6
<1> QED BY <1>5, <1>6, <1>7, StreamAgrees

\* The pause before a stream begins.
LEMMA BeginAgrees ==
  ASSUME IInv, IInv', NEW d \in Cards, AgreesOn(d), NEW e \in Devices, BeginStream(e), installed' = installed
  PROVE  AgreesOn(d)'
<1>1. UNCHANGED <<proc, captureProcs, superseded, lock, inbox, liveIds, activeIds, toggling>>
  BY DEF BeginStream, window
<1>2. d \in waiting' => d \in waiting \/ Head(lock[d]).op = "start-stream" BY DEF BeginStream, Handles
<1>3. Kept(d) BY <1>1 DEF Kept, Works, Running
<1>4. <<>> \in Seq(Msg) /\ inbox' = inbox \o <<>> /\ \A i \in DOMAIN <<>> : <<>>[i].dev # d
  BY <1>1 DEF IInv, TypeOK
<1> QED BY <1>1, <1>2, <1>3, <1>4, OthersAgree

-----------------------------------------------------------------------------
(* The handlers of other devices, and the ends of processes. *)

\* The answer to a call of another device is nothing to d.
LEMMA OtherReturn ==
  ASSUME IInv, IInv', NEW d \in Cards, AgreesOn(d), Kept(d), NEW e \in Devices, e # d, app = "open",
         NEW ok \in BOOLEAN, NEW events \in Seq(Msg), \A i \in DOMAIN events : events[i].dev # d,
         lock[e] # <<>>, Return(e, ok, events),
         captureProcs'[d] = captureProcs[d], d \in superseded' <=> d \in superseded,
         UNCHANGED <<liveIds, activeIds, toggling, installed>>
  PROVE  AgreesOn(d)'
<1> DEFINE c == Head(lock[e])
           a == [kind |-> "answer", call |-> c, dev |-> e, ok |-> ok]
           ms == Append(events, a)
<1>1. /\ waiting' = waiting \ {e} /\ lock'[d] = lock[d]
  BY ReturnFacts DEF IInv, Devices
<1>2. a \in Msg /\ a.dev = e
  <2>1. c \in Call BY DEF IInv, TypeOK
  <2> HIDE DEF c
  <2> QED BY <2>1 DEF Msg, Answer
<1>3. inbox' = inbox \o ms BY DEF Return, Send
<1> HIDE DEF a
<1>4. ms \in Seq(Msg) BY <1>2
<1>5. \A i \in DOMAIN ms : ms[i].dev # d
  <2>1. /\ DOMAIN ms = DOMAIN events \union {Len(events) + 1}
        /\ ms[Len(events) + 1] = a /\ \A i \in DOMAIN events : ms[i] = events[i]
    BY <1>2, AppendFacts
  <2> QED BY <1>2, <2>1
<1> HIDE DEF ms
<1> QED BY <1>1, <1>3, <1>4, <1>5, OthersAgree

\* Nor is a process started for another device.
LEMMA SpawnsElsewhere ==
  ASSUME TypeOK, NEW ps, NEW p \in Unused, NEW e \in Devices, NEW role \in Roles,
         proc' = Spawned(ps, p, e, role), NEW d, e # d
  PROVE  Kept(d)
<1>1. proc \in ProcSet /\ p \in Procs /\ proc[p].state = "free" BY UnusedIsFree DEF TypeOK, ProcSet
<1>2. /\ proc'[p] = [state |-> "running", dev |-> e, role |-> role]
      /\ \A q \in Procs \ {p} : /\ proc'[q].dev = proc[q].dev
                                /\ proc'[q].role = proc[q].role
                                /\ proc'[q].state = "running" <=> Running(q) /\ q \notin ps
                                /\ proc'[q].state = "free" <=> proc[q].state = "free"
  BY <1>1, SpawningFacts
<1>3. proc'[p].dev = e BY <1>2
<1> QED BY <1>1, <1>2, <1>3 DEF Kept, Works, Running

\* So whatever is done for another device is nothing to d.
LEMMA OtherHandlers ==
  ASSUME IInv, IInv', NEW d \in Cards, AgreesOn(d), NEW e \in Devices, e # d, app = "open",
         Handler(e), installed' = installed
  PROVE  AgreesOn(d)'
<1>1. TypeOK /\ captureProcs \in [Cards -> Procs \union {None}] BY DEF IInv, TypeOK
<1>2. /\ <<>> \in Seq(Msg) /\ \A i \in DOMAIN <<>> : <<>>[i].dev # d
  OBVIOUS
<1>3. /\ <<Stopped("stream-stopped", e)>> \in Seq(Msg)
      /\ \A i \in DOMAIN <<Stopped("stream-stopped", e)>> : <<Stopped("stream-stopped", e)>>[i].dev # d
      /\ <<Stopped("stream-stopped", e), Stopped("capture-stopped", e)>> \in Seq(Msg)
      /\ \A i \in DOMAIN <<Stopped("stream-stopped", e), Stopped("capture-stopped", e)>> :
           <<Stopped("stream-stopped", e), Stopped("capture-stopped", e)>>[i].dev # d
  <2> DEFINE ss == Stopped("stream-stopped", e)
             cs == Stopped("capture-stopped", e)
  <2>1. ss \in Msg /\ cs \in Msg BY EventsAreMessages
  <2>2. ss.dev = e /\ cs.dev = e BY DEF Stopped
  <2> HIDE DEF ss, cs
  <2>3. <<ss>> \in Seq(Msg) /\ <<ss, cs>> \in Seq(Msg) BY <2>1
  <2>4. /\ DOMAIN <<ss>> = {1} /\ <<ss>>[1] = ss
        /\ DOMAIN <<ss, cs>> = {1, 2} /\ <<ss, cs>>[1] = ss /\ <<ss, cs>>[2] = cs
    OBVIOUS
  <2>5. /\ \A i \in DOMAIN <<ss>> : <<ss>>[i].dev # d
        /\ \A i \in DOMAIN <<ss, cs>> : <<ss, cs>>[i].dev # d
    BY <2>2, <2>4
  <2> QED BY <2>3, <2>5 DEF ss, cs
<1>4. ASSUME UNCHANGED proc PROVE Kept(d) BY <1>4 DEF Kept, Works, Running
<1>5. \A p : Vacated(e, p)[d] = captureProcs[d] BY <1>1 DEF Vacated
<1>6. ASSUME NEW ps, NEW p \in Unused, NEW role \in Roles, proc' = Spawned(ps, p, e, role)
      PROVE  Kept(d)
  BY <1>1, <1>6, SpawnsElsewhere
<1>7. CASE StartCapture(e)
  <2>1. /\ lock[e] # <<>> /\ UNCHANGED <<superseded, liveIds, activeIds, toggling>>
    BY <1>7 DEF StartCapture, Handles, window
  <2>2. CASE e \in Cards /\ ~installed
    <3>1. Return(e, FALSE, <<>>) /\ UNCHANGED <<proc, captureProcs>>
      BY <1>7, <2>2 DEF StartCapture
    <3> QED BY <1>2, <1>4, <2>1, <3>1, OtherReturn
  <2>3. CASE ~(e \in Cards /\ ~installed)
    <3>1. PICK p \in Unused : /\ CaptureAja(e, p) \/ CaptureCam(e, p)
                              /\ Return(e, TRUE, <<>>)
      BY <1>7, <2>3 DEF StartCapture, CaptureDeckLink
    <3>2. /\ \E ps : \E role \in Roles : proc' = Spawned(ps, p, e, role)
          /\ captureProcs'[d] = captureProcs[d]
      BY <1>1, <3>1 DEF CaptureAja, CaptureCam, Roles
    <3>3. Kept(d) BY <1>6, <3>2
    <3> QED BY <1>2, <2>1, <3>1, <3>2, <3>3, OtherReturn
  <2> QED BY <2>2, <2>3
<1>8. CASE StopCapture(e)
  <2>1. /\ lock[e] # <<>> /\ UNCHANGED <<superseded, liveIds, activeIds, toggling>>
        /\ Return(e, TRUE, <<Stopped("stream-stopped", e)>>)
    BY <1>8 DEF StopCapture, Handles, window
  <2>2. captureProcs'[d] = captureProcs[d] BY <1>1, <1>8 DEF StopCapture
  <2>3. (\E ps : proc' = Killed(ps)) \/ proc' = proc BY <1>8 DEF StopCapture
  <2>4. Kept(d) BY <1>1, <1>4, <2>3, KillsKeep
  <2> QED BY <1>3, <2>1, <2>2, <2>4, OtherReturn
<1>9. CASE StopStream(e)
  <2>1. /\ lock[e] # <<>> /\ UNCHANGED <<superseded, liveIds, activeIds, toggling>>
        /\ Return(e, TRUE, <<Stopped("stream-stopped", e), Stopped("capture-stopped", e)>>)
    BY <1>9 DEF StopStream, Handles, window
  <2>2. captureProcs'[d] = captureProcs[d] BY <1>1, <1>9 DEF StopStream
  <2>3. \E ps : proc' = Killed(ps) BY <1>9 DEF StopStream
  <2>4. Kept(d) BY <1>1, <2>3, KillsKeep
  <2> QED BY <1>3, <2>1, <2>2, <2>4, OtherReturn
<1>10. CASE RefuseStream(e)
  <2>1. /\ lock[e] # <<>> /\ Return(e, FALSE, <<>>)
        /\ UNCHANGED <<superseded, liveIds, activeIds, toggling, proc, captureProcs>>
    BY <1>10 DEF RefuseStream, Handles, window
  <2> QED BY <1>2, <1>4, <2>1, OtherReturn
<1>11. CASE BeginStream(e) BY <1>11, BeginAgrees
<1>12. CASE RelayCam(e)
  <2>1. /\ lock[e] # <<>> /\ Return(e, TRUE, <<>>)
        /\ UNCHANGED <<superseded, liveIds, activeIds, toggling, captureProcs>>
    BY <1>12 DEF RelayCam, Handles, window
  <2>2. PICK p \in Unused : proc' = Spawned({relayProc}, p, e, "relay") BY <1>12 DEF RelayCam
  <2>3. Kept(d) BY <1>6, <2>2 DEF Roles
  <2> QED BY <1>2, <2>1, <2>3, OtherReturn
<1>13. CASE PushUdp(e) \/ BroadcastNdi(e) \/ PublishSrt(e)
  <2>1. /\ e \in waiting /\ Return(e, TRUE, <<>>) /\ UNCHANGED <<liveIds, activeIds, toggling>>
    BY <1>13 DEF PushUdp, BroadcastNdi, PublishSrt, Streams, window
  <2>2. lock[e] # <<>> BY <2>1 DEF IInv, PauseInv
  <2>3. PICK p \in Unused, role \in Roles : ReplaceStreamProc(e, p, role)
    BY <1>13 DEF PushUdp, BroadcastNdi, PublishSrt, Roles
  <2>4. /\ captureProcs'[d] = captureProcs[d]
        /\ d \in superseded' <=> d \in superseded
    BY <1>1, <2>3 DEF ReplaceStreamProc
  <2>5. Kept(d) BY <1>6, <2>3 DEF ReplaceStreamProc
  <2> QED BY <1>2, <2>1, <2>2, <2>4, <2>5, OtherReturn
<1> QED BY <1>7, <1>8, <1>9, <1>10, <1>11, <1>12, <1>13 DEF Handler

\* Every handler keeps what is known of d.
LEMMA HandlersAgree ==
  ASSUME IInv, IInv', NEW d \in Cards, AgreesOn(d), NEW e \in Devices, app = "open",
         Handler(e), installed' = installed
  PROVE  AgreesOn(d)'
<1>1. CASE e # d BY <1>1, OtherHandlers
<1>2. CASE e = d
  <2>1. ~RelayCam(d) BY AppAssumption DEF RelayCam
  <2>2. CASE StartCapture(d) BY <2>2, OwnCapture
  <2>3. CASE StopCapture(d) \/ StopStream(d) BY <2>3, OwnStops
  <2>4. CASE RefuseStream(d) BY <2>4, OwnRefuse
  <2>5. CASE BeginStream(d) BY <1>2, <2>5, BeginAgrees
  <2>6. CASE PushUdp(d) \/ BroadcastNdi(d) \/ PublishSrt(d) BY <2>6, OwnStreams
  <2> QED BY <1>2, <2>1, <2>2, <2>3, <2>4, <2>5, <2>6 DEF Handler
<1> QED BY <1>1, <1>2

\* A process that ends is about to close: what was running is still to be reported.
LEMMA EndAgrees ==
  ASSUME IInv, IInv', NEW d \in Cards, AgreesOn(d), NEW p \in Procs, Ends(p), installed' = installed
  PROVE  AgreesOn(d)'
<1>1. /\ UNCHANGED <<captureProcs, superseded, lock, waiting, inbox, liveIds, activeIds, toggling>>
      /\ proc' = Killed({p})
  BY DEF Ends, window
<1>2. Kept(d) BY <1>1, KillsKeep DEF IInv
<1>3. <<>> \in Seq(Msg) /\ inbox' = inbox \o <<>> /\ \A i \in DOMAIN <<>> : <<>>[i].dev # d
  BY <1>1 DEF IInv, TypeOK
<1> QED BY <1>1, <1>2, <1>3, OthersAgree

\* Messages that are no answers, while nothing else of the window or of d's calls changes.
LEMMA OwnMessages ==
  ASSUME IInv, NEW d \in Cards, AgreesOn(d), NEW ms \in Seq(Msg),
         \A by : Without(ms, AnswerTo(d, by)), inbox' = inbox \o ms,
         UNCHANGED <<lock, waiting, toggling, liveIds, activeIds>>
  PROVE  /\ CallsFit(d)' /\ OneToggle(d)'
         /\ WillBeLive(d)' <=> Will(ms, RaisesLive(d), LowersLive(d), WillBeLive(d))
         /\ WillBeActive(d)' <=> Will(ms, RaisesActive(d), LowersActive(d), WillBeActive(d))
<1>1. inbox \in Seq(Msg) BY DEF IInv, TypeOK, Msg
<1>2. \A by : /\ Without(inbox, AnswerTo(d, by)) => Without(inbox', AnswerTo(d, by))
              /\ AtMostOne(inbox, AnswerTo(d, by)) => AtMostOne(inbox', AnswerTo(d, by))
  <2>1. \A by : AtMostOne(ms, AnswerTo(d, by)) BY DEF AtMostOne, Without
  <2> QED BY <1>1, <2>1, SomeMore
<1>3. CallsFit(d)' BY <1>2 DEF AgreesOn, CallsFit, Without, AnswerTo, Unfit
<1>4. OneToggle(d)' BY <1>2 DEF AgreesOn, OneToggle, Without, AtMostOne, AnswerTo, Toggles
<1>5. ASSUME NEW R, NEW L, NEW now \in BOOLEAN
      PROVE  Will(inbox', R, L, now) <=> Will(ms, R, L, Will(inbox, R, L, now))
  BY <1>1, SomeMore
<1>6. WillBeLive(d)' <=> Will(ms, RaisesLive(d), LowersLive(d), WillBeLive(d))
  <2> DEFINE now == d \in liveIds
  <2>1. Will(inbox', RaisesLive(d), LowersLive(d), now)
          <=> Will(ms, RaisesLive(d), LowersLive(d), Will(inbox, RaisesLive(d), LowersLive(d), now))
    <3>1. now \in BOOLEAN OBVIOUS
    <3> HIDE DEF now
    <3> QED BY <1>5, <3>1
  <2> QED BY <2>1, Later DEF WillBeLive
<1>7. WillBeActive(d)' <=> Will(ms, RaisesActive(d), LowersActive(d), WillBeActive(d))
  <2> DEFINE now == d \in activeIds
  <2>1. Will(inbox', RaisesActive(d), LowersActive(d), now)
          <=> Will(ms, RaisesActive(d), LowersActive(d), Will(inbox, RaisesActive(d), LowersActive(d), now))
    <3>1. now \in BOOLEAN OBVIOUS
    <3> HIDE DEF now
    <3> QED BY <1>5, <3>1
  <2> QED BY <2>1, Later DEF WillBeActive
<1> QED BY <1>3, <1>4, <1>6, <1>7

\* What is left when a process has closed.
LEMMA CloseFacts ==
  ASSUME TypeOK, NEW d \in Cards, NEW p \in Procs, proc[p].state = "dying", proc' = [proc EXCEPT ![p] = Free]
  PROVE  /\ \A q \in Procs \ {p} : /\ Works(q, d)' <=> Works(q, d)
                                   /\ proc'[q] = proc[q]
         /\ Streaming(d)' <=> Streaming(d)
         /\ Capturing(d)' <=> Capturing(d)
         /\ \A roles : Dying(d, roles)' = Dying(d, roles) \ {p}
<1>1. proc'[p].state = "free" BY DEF TypeOK, Free
<1>2. \A q \in Procs \ {p} : proc'[q] = proc[q] BY DEF TypeOK
<1>3. \A q \in Procs \ {p} : Works(q, d)' <=> Works(q, d) BY <1>2 DEF Works
<1>4. \A q \in Procs : Running(q)' <=> Running(q) /\ q # p BY <1>1, <1>2 DEF Running
<1>5. \A q \in Procs : Running(q) => q # p BY DEF Running
<1>6. Streaming(d)' <=> Streaming(d) BY <1>2, <1>4, <1>5 DEF Streaming
<1>7. Capturing(d)' <=> Capturing(d) BY <1>2, <1>4, <1>5 DEF Capturing
<1>8. \A roles : Dying(d, roles)' = Dying(d, roles) \ {p} BY <1>1, <1>2 DEF Dying
<1> QED BY <1>2, <1>3, <1>6, <1>7, <1>8

\* The close of a process of another device is nothing to d.
LEMMA OtherCloses ==
  ASSUME IInv, IInv', NEW d \in Cards, AgreesOn(d), NEW p \in Procs, proc[p].dev # d,
         Closed(p), app = "open", installed' = installed
  PROVE  AgreesOn(d)'
<1> DEFINE e == proc[p].dev
<1>1. /\ UNCHANGED <<lock, waiting, liveIds, activeIds, toggling>>
      /\ proc' = [proc EXCEPT ![p] = Free] /\ proc[p].state = "dying"
  BY DEF Closed, window
<1>2. e \in Devices /\ captureProcs \in [Cards -> Procs \union {None}] BY DEF IInv, TypeOK
<1>3. Kept(d)
  <2>1. \A q \in Procs \ {p} : (Works(q, d)' <=> Works(q, d)) /\ proc'[q] = proc[q]
    BY <1>1, CloseFacts DEF IInv
  <2>2. proc'[p].state = "free" BY <1>1 DEF IInv, TypeOK, Free
  <2>3. ~Works(p, d) /\ ~Works(p, d)' BY <2>2 DEF Works
  <2> QED BY <2>1, <2>3 DEF Kept, Running
<1>4. \A x : Vacated(e, x)[d] = captureProcs[d] BY <1>2 DEF Vacated
<1> DEFINE ss == Stopped("stream-stopped", e)
           cs == Stopped("capture-stopped", e)
<1>5. /\ <<>> \in Seq(Msg) /\ \A i \in DOMAIN <<>> : <<>>[i].dev # d
      /\ <<ss>> \in Seq(Msg) /\ \A i \in DOMAIN <<ss>> : <<ss>>[i].dev # d
      /\ <<cs>> \in Seq(Msg) /\ \A i \in DOMAIN <<cs>> : <<cs>>[i].dev # d
      /\ <<ss, cs>> \in Seq(Msg) /\ \A i \in DOMAIN <<ss, cs>> : <<ss, cs>>[i].dev # d
  <2>1. ss \in Msg /\ cs \in Msg BY <1>2, EventsAreMessages
  <2>2. ss.dev # d /\ cs.dev # d BY DEF Stopped
  <2> HIDE DEF ss, cs
  <2>3. <<>> \in Seq(Msg) /\ <<ss>> \in Seq(Msg) /\ <<cs>> \in Seq(Msg) /\ <<ss, cs>> \in Seq(Msg) BY <2>1
  <2>4. /\ DOMAIN <<>> = {}
        /\ DOMAIN <<ss>> = {1} /\ <<ss>>[1] = ss /\ DOMAIN <<cs>> = {1} /\ <<cs>>[1] = cs
        /\ DOMAIN <<ss, cs>> = {1, 2} /\ <<ss, cs>>[1] = ss /\ <<ss, cs>>[2] = cs
    OBVIOUS
  <2> QED BY <2>2, <2>3, <2>4
<1>6. \E ms \in {<<>>, <<ss>>, <<cs>>, <<ss, cs>>} : inbox' = inbox \o ms
  <2>1. CASE proc[p].role = "preview"
    <3>1. PreviewClosed(p) BY <2>1 DEF Closed
    <3> QED BY <3>1 DEF PreviewClosed, Send
  <2>2. CASE proc[p].role \in {"live", "ndi"}
    <3>1. StreamClosed(p) BY <2>2 DEF Closed
    <3> QED BY <3>1 DEF StreamClosed, Send
  <2>3. CASE proc[p].role \notin {"preview", "live", "ndi"}
    <3>1. CamClosed(p) BY <2>3 DEF Closed
    <3> QED BY <3>1 DEF CamClosed, Send
  <2> QED BY <2>1, <2>2, <2>3
<1>7. /\ captureProcs'[d] = captureProcs[d]
      /\ d \in superseded' <=> d \in superseded
  <2>1. CASE proc[p].role = "preview"
    <3>1. PreviewClosed(p) BY <2>1 DEF Closed
    <3> QED BY <1>4, <3>1 DEF PreviewClosed
  <2>2. CASE proc[p].role \in {"live", "ndi"}
    <3>1. StreamClosed(p) BY <2>2 DEF Closed
    <3> QED BY <1>4, <3>1 DEF StreamClosed
  <2>3. CASE proc[p].role \notin {"preview", "live", "ndi"}
    <3>1. CamClosed(p) BY <2>3 DEF Closed
    <3> QED BY <3>1 DEF CamClosed
  <2> QED BY <2>1, <2>2, <2>3
<1> HIDE DEF ss, cs
<1>8. PICK ms \in {<<>>, <<ss>>, <<cs>>, <<ss, cs>>} : inbox' = inbox \o ms BY <1>6
<1>9. ms \in Seq(Msg) /\ \A i \in DOMAIN ms : ms[i].dev # d BY <1>5
<1> QED BY <1>1, <1>3, <1>7, <1>8, <1>9, OthersAgree

\* The slot when a process of d has closed.
LEMMA VacatedFacts ==
  ASSUME TypeOK, TypeOK', NEW d \in Cards, SlotInv(d), NEW p \in Procs, proc[p].dev = d,
         proc[p].state = "dying", proc' = [proc EXCEPT ![p] = Free], captureProcs' = Vacated(d, p),
         WillBeLive(d)' <=> WillBeLive(d)
  PROVE  SlotInv(d)'
<1>1. \A q \in Procs \ {p} : (Works(q, d)' <=> Works(q, d)) /\ proc'[q] = proc[q] BY CloseFacts
<1>2. captureProcs'[d] # p /\ captureProcs'[d] \in {captureProcs[d], None}
  BY AppAssumption DEF Vacated, TypeOK, Devices
<1>3. captureProcs[d] \in Procs \union {None} BY DEF TypeOK
<1>4. captureProcs'[d] # None => captureProcs'[d] = captureProcs[d] /\ captureProcs'[d] \in Procs \ {p}
  BY <1>2, <1>3
<1> QED BY <1>1, <1>4 DEF SlotInv, Works

\* A preview that was superseded closes unheard: another one that is dying is still to be.
LEMMA SupersededCloses ==
  ASSUME IInv, IInv', NEW d \in Cards, AgreesOn(d), NEW p \in Procs, proc[p].dev = d,
         d \in superseded, proc[p].role = "preview", Closed(p), app = "open", installed' = installed
  PROVE  AgreesOn(d)'
<1>1. /\ UNCHANGED <<lock, waiting, liveIds, activeIds, toggling>>
      /\ proc' = [proc EXCEPT ![p] = Free] /\ proc[p].state = "dying"
      /\ captureProcs' = Vacated(d, p) /\ superseded' = superseded \ {d} /\ inbox' = inbox \o <<>>
  BY DEF Closed, window, PreviewClosed, Send
<1>2. /\ Streaming(d)' <=> Streaming(d)
      /\ Capturing(d)' <=> Capturing(d)
      /\ \A roles : Dying(d, roles)' = Dying(d, roles) \ {p}
  BY <1>1, CloseFacts DEF IInv
<1>3. Dying(d, StreamRoles)' = Dying(d, StreamRoles) BY <1>2 DEF Dying, StreamRoles
<1>4. WillBeLive(d) \in BOOLEAN /\ WillBeActive(d) \in BOOLEAN BY DEF WillBeLive, WillBeActive, Will
<1>5. /\ CallsFit(d)' /\ OneToggle(d)'
      /\ WillBeLive(d)' <=> Will(<<>>, RaisesLive(d), LowersLive(d), WillBeLive(d))
      /\ WillBeActive(d)' <=> Will(<<>>, RaisesActive(d), LowersActive(d), WillBeActive(d))
  BY <1>1, NothingSaid, OwnMessages
<1>6. (WillBeLive(d)' <=> WillBeLive(d)) /\ (WillBeActive(d)' <=> WillBeActive(d))
  BY <1>4, <1>5, NothingSaid
<1>7. SlotInv(d)' BY <1>1, <1>6, VacatedFacts DEF IInv, AgreesOn
<1>8. LiveInv(d)'
  <2>1. Without(lock[d], GoLives) => Without(lock[d], GoLives)' BY <1>1 DEF Without, GoLives, Toggles
  <2> QED BY <1>2, <1>3, <1>6, <2>1 DEF AgreesOn, LiveInv
<1>9. d \notin superseded' BY <1>1
<1>10. installed' => ActiveInv(d)'
  <2> SUFFICES ASSUME installed', WillBeActive(d)'
               PROVE  Capturing(d)' \/ Dying(d, StreamRoles)' # {} \/ \E q \in Dying(d, {"preview"})' : TRUE
    BY <1>9 DEF ActiveInv
  <2>1. \/ Capturing(d) \/ Dying(d, StreamRoles) # {}
        \/ \E q \in Dying(d, {"preview"}) : \E r \in Dying(d, {"preview"}) : r # q
    BY <1>6 DEF AgreesOn, ActiveInv
  <2> QED BY <1>2, <1>3, <2>1
<1> QED BY <1>5, <1>7, <1>8, <1>9, <1>10 DEF AgreesOn, PreviewInv

\* The end of any other preview is heard: the channel will not be shown active, be it again.
LEMMA PreviewCloses ==
  ASSUME IInv, IInv', NEW d \in Cards, AgreesOn(d), NEW p \in Procs, proc[p].dev = d,
         d \notin superseded, proc[p].role = "preview", Closed(p), app = "open", installed' = installed
  PROVE  AgreesOn(d)'
<1> DEFINE cs == Stopped("capture-stopped", d)
<1>1. /\ UNCHANGED <<lock, waiting, liveIds, activeIds, toggling>>
      /\ proc' = [proc EXCEPT ![p] = Free] /\ proc[p].state = "dying"
      /\ captureProcs' = Vacated(d, p) /\ superseded' = superseded \ {d} /\ inbox' = inbox \o <<cs>>
  BY DEF Closed, window, PreviewClosed, Send
<1>2. /\ Streaming(d)' <=> Streaming(d)
      /\ \A roles : Dying(d, roles)' = Dying(d, roles) \ {p}
  BY <1>1, CloseFacts DEF IInv
<1>3. Dying(d, StreamRoles)' = Dying(d, StreamRoles) BY <1>2 DEF Dying, StreamRoles
<1>4. WillBeLive(d) \in BOOLEAN /\ WillBeActive(d) \in BOOLEAN BY DEF WillBeLive, WillBeActive, Will
<1>5. <<cs>> \in Seq(Msg) /\ d \in Devices
  <2>1. cs \in Msg BY EventsAreMessages DEF Devices
  <2> QED BY <2>1 DEF Devices
<1>6. /\ \A by : Without(<<cs>>, AnswerTo(d, by))
      /\ ~Will(<<cs>>, RaisesActive(d), LowersActive(d), WillBeActive(d))
      /\ Will(<<cs>>, RaisesLive(d), LowersLive(d), WillBeLive(d)) <=> WillBeLive(d)
  <2>1. PICK ss : ss = Stopped("stream-stopped", d) OBVIOUS
  <2>2. \A by : Without(<<cs>>, AnswerTo(d, by)) BY <1>4, <1>5, <2>1, EventsSay
  <2>3. ~Will(<<cs>>, RaisesActive(d), LowersActive(d), WillBeActive(d)) BY <1>4, <1>5, <2>1, EventsSay
  <2>4. Will(<<cs>>, RaisesLive(d), LowersLive(d), WillBeLive(d)) <=> WillBeLive(d)
    <3>1. cs = Stopped("capture-stopped", d) OBVIOUS
    <3> HIDE DEF cs
    <3> QED BY <1>4, <1>5, <2>1, <3>1, EventsSay
  <2> QED BY <2>2, <2>3, <2>4
<1>7. /\ CallsFit(d)' /\ OneToggle(d)'
      /\ WillBeLive(d)' <=> Will(<<cs>>, RaisesLive(d), LowersLive(d), WillBeLive(d))
      /\ WillBeActive(d)' <=> Will(<<cs>>, RaisesActive(d), LowersActive(d), WillBeActive(d))
  <2> HIDE DEF cs
  <2> QED BY <1>1, <1>5, <1>6, OwnMessages
<1>8. (WillBeLive(d)' <=> WillBeLive(d)) /\ ~WillBeActive(d)' BY <1>6, <1>7
<1>9. SlotInv(d)' BY <1>1, <1>8, VacatedFacts DEF IInv, AgreesOn
<1>10. LiveInv(d)'
  <2>1. Without(lock[d], GoLives) => Without(lock[d], GoLives)' BY <1>1 DEF Without, GoLives, Toggles
  <2> QED BY <1>2, <1>3, <1>8, <2>1 DEF AgreesOn, LiveInv
<1>11. d \notin superseded' BY <1>1
<1> QED BY <1>7, <1>8, <1>9, <1>10, <1>11 DEF AgreesOn, PreviewInv, ActiveInv

\* So is the end of a stream: the slot is empty, or it was the stream's own.
LEMMA StreamCloses ==
  ASSUME IInv, IInv', NEW d \in Cards \ muddled', AgreesOn(d), NEW p \in Procs, proc[p].dev = d,
         proc[p].role \in StreamRoles, Closed(p), app = "open", installed' = installed
  PROVE  AgreesOn(d)'
<1> DEFINE ss == Stopped("stream-stopped", d)
           cs == Stopped("capture-stopped", d)
<1>1. /\ UNCHANGED <<lock, waiting, liveIds, activeIds, toggling, superseded>>
      /\ proc' = [proc EXCEPT ![p] = Free] /\ proc[p].state = "dying"
      /\ captureProcs' = Vacated(d, p) /\ inbox' = inbox \o <<ss, cs>>
      /\ Misled(d, p, <<ss, cs>>)
  BY DEF Closed, window, StreamClosed, Send, StreamRoles
<1>2. captureProcs'[d] = None
  <2>1. captureProcs[d] \in {p, None} BY <1>1 DEF Misled
  <2> QED BY <1>1, <2>1 DEF Vacated, IInv, TypeOK
<1>3. \A roles : Dying(d, roles)' = Dying(d, roles) \ {p} BY <1>1, CloseFacts DEF IInv
<1>4. Dying(d, {"preview"})' = Dying(d, {"preview"}) BY <1>3 DEF Dying, StreamRoles
<1>5. WillBeLive(d) \in BOOLEAN /\ WillBeActive(d) \in BOOLEAN BY DEF WillBeLive, WillBeActive, Will
<1>6. <<ss, cs>> \in Seq(Msg) /\ d \in Devices
  <2>1. ss \in Msg /\ cs \in Msg BY EventsAreMessages DEF Devices
  <2> QED BY <2>1 DEF Devices
<1>7. /\ \A by : Without(<<ss, cs>>, AnswerTo(d, by))
      /\ ~Will(<<ss, cs>>, RaisesActive(d), LowersActive(d), WillBeActive(d))
      /\ ~Will(<<ss, cs>>, RaisesLive(d), LowersLive(d), WillBeLive(d))
  BY <1>5, <1>6, EventsSay
<1>8. /\ CallsFit(d)' /\ OneToggle(d)'
      /\ WillBeLive(d)' <=> Will(<<ss, cs>>, RaisesLive(d), LowersLive(d), WillBeLive(d))
      /\ WillBeActive(d)' <=> Will(<<ss, cs>>, RaisesActive(d), LowersActive(d), WillBeActive(d))
  <2> HIDE DEF ss, cs
  <2> QED BY <1>1, <1>6, <1>7, OwnMessages
<1>9. ~WillBeLive(d)' /\ ~WillBeActive(d)' BY <1>7, <1>8
<1>10. PreviewInv(d)' BY <1>1, <1>4 DEF AgreesOn, PreviewInv
<1> QED BY <1>2, <1>8, <1>9, <1>10 DEF AgreesOn, SlotInv, LiveInv, ActiveInv

\* Every close keeps what is known of a device that is not muddled by it.
LEMMA CloseAgrees ==
  ASSUME IInv, IInv', NEW d \in Cards \ muddled', AgreesOn(d), NEW p \in Procs, Closed(p),
         app = "open", installed' = installed
  PROVE  AgreesOn(d)'
<1>1. CASE proc[p].dev # d BY <1>1, OtherCloses
<1>2. CASE proc[p].dev = d
  <2>1. proc[p].role \in StreamRoles \union {"preview"}
    BY <1>2 DEF Closed, IInv, RolesFit, Fits, StreamRoles
  <2>2. CASE proc[p].role \in StreamRoles BY <1>2, <2>2, StreamCloses
  <2>3. CASE proc[p].role = "preview" /\ d \in superseded BY <1>2, <2>3, SupersededCloses
  <2>4. CASE proc[p].role = "preview" /\ d \notin superseded BY <1>2, <2>4, PreviewCloses
  <2> QED BY <2>1, <2>2, <2>3, <2>4
<1> QED BY <1>1, <1>2

-----------------------------------------------------------------------------
(* The window *)

\* The window does something that leaves the processes alone.
LEMMA WindowAgreesOn ==
  ASSUME IInv, IInv', NEW d \in Cards, AgreesOn(d),
         UNCHANGED <<proc, captureProcs, superseded, installed>>,
         WillBeLive(d)' <=> WillBeLive(d), WillBeActive(d)' <=> WillBeActive(d),
         CallsFit(d)', OneToggle(d)', WillBeLive(d) => Without(lock'[d], GoLives)
  PROVE  AgreesOn(d)'
<1>1. Kept(d) BY DEF Kept, Works, Running
<1> QED BY <1>1, FrameAgrees DEF IInv

\* It does something that is nothing to d.
LEMMA NothingForIt ==
  ASSUME IInv, IInv', NEW d \in Cards, AgreesOn(d),
         UNCHANGED <<proc, captureProcs, superseded, waiting, installed, inbox, liveIds, activeIds>>,
         lock'[d] = lock[d], d \in toggling => d \in toggling'
  PROVE  AgreesOn(d)'
<1>1. WillBeLive(d)' <=> WillBeLive(d) BY Later DEF WillBeLive
<1>2. WillBeActive(d)' <=> WillBeActive(d) BY Later DEF WillBeActive
<1>3. CallsFit(d)' BY DEF AgreesOn, CallsFit, Without, AnswerTo, Unfit
<1>4. OneToggle(d)' BY DEF AgreesOn, OneToggle, Without, AtMostOne, AnswerTo, Toggles
<1>5. WillBeLive(d) => Without(lock'[d], GoLives) BY DEF AgreesOn, LiveInv
<1> QED BY <1>1, <1>2, <1>3, <1>4, <1>5, WindowAgreesOn

\* It calls for d: by a click for a capture, by the button for a stream.
LEMMA CallAgrees ==
  ASSUME IInv, IInv', NEW d \in Cards, AgreesOn(d),
         UNCHANGED <<proc, captureProcs, superseded, waiting, installed, inbox, liveIds, activeIds>>,
         NEW op, NEW by, NEW protocol, Calls(d, op, by, protocol),
         [op |-> op, by |-> by, protocol |-> protocol] \in Call,
         by = IF op \in StreamCalls THEN "toggle" ELSE "click",
         d \in toggling => d \in toggling', by = "toggle" => d \in toggling' /\ d \notin toggling,
         op = "start-stream" => ~WillBeLive(d)
  PROVE  AgreesOn(d)'
<1> DEFINE c == [op |-> op, by |-> by, protocol |-> protocol]
<1>1. WillBeLive(d)' <=> WillBeLive(d) BY Later DEF WillBeLive
<1>2. WillBeActive(d)' <=> WillBeActive(d) BY Later DEF WillBeActive
<1>3. lock[d] \in Seq(Call) /\ lock'[d] = Append(lock[d], c)
  BY DEF IInv, TypeOK, Devices, Calls
<1>4. c \in Call /\ c.op = op /\ c.by = by OBVIOUS
<1>5. d \in waiting => Head(lock'[d]) = Head(lock[d])
  <2>1. d \in waiting => lock[d] # <<>> BY DEF IInv, PauseInv
  <2>2. d \in Devices BY DEF Devices
  <2> QED BY <2>1, <2>2, CallIsLast DEF IInv
<1> HIDE DEF c
<1>6. /\ \A X : /\ Without(lock'[d], X) <=> Without(lock[d], X) /\ c \notin X
                /\ AtMostOne(lock[d], X) /\ (c \in X => Without(lock[d], X)) => AtMostOne(lock'[d], X)
  BY <1>3, <1>4, OneMore
<1>7. c \notin Unfit BY <1>4 DEF Unfit
<1>8. c \in Toggles <=> by = "toggle" BY <1>4 DEF Toggles
<1>9. c \in GoLives => op = "start-stream" BY <1>4 DEF GoLives
<1>10. CallsFit(d)'
  <2>1. Without(lock'[d], Unfit) BY <1>6, <1>7 DEF AgreesOn, CallsFit
  <2>2. d \in waiting' => Head(lock'[d]).op = "start-stream" BY <1>5 DEF AgreesOn, CallsFit
  <2>3. Without(inbox, AnswerTo(d, "rename")) BY DEF AgreesOn, CallsFit
  <2> QED BY <2>1, <2>2, <2>3 DEF CallsFit, Without, AnswerTo, Unfit
<1>11. OneToggle(d)'
  <2>1. AtMostOne(lock'[d], Toggles) BY <1>6, <1>8 DEF AgreesOn, OneToggle
  <2>2. AtMostOne(inbox, AnswerTo(d, "toggle")) BY DEF AgreesOn, OneToggle
  <2>3. /\ Without(lock'[d], Toggles) \/ Without(inbox, AnswerTo(d, "toggle"))
        /\ d \notin toggling' => Without(lock'[d], Toggles) /\ Without(inbox, AnswerTo(d, "toggle"))
    BY <1>6, <1>8 DEF AgreesOn, OneToggle
  <2> QED BY <2>1, <2>2, <2>3 DEF OneToggle, Without, AtMostOne, AnswerTo, Toggles
<1>12. WillBeLive(d) => Without(lock'[d], GoLives) BY <1>6, <1>9 DEF AgreesOn, LiveInv
<1> QED BY <1>1, <1>2, <1>10, <1>11, <1>12, WindowAgreesOn

\* Calls for other devices.
LEMMA OtherCalls ==
  ASSUME TypeOK, NEW d \in Devices, NEW e, e # d, NEW op, NEW by, NEW protocol, Calls(e, op, by, protocol)
  PROVE  lock'[d] = lock[d]
BY DEF Calls, TypeOK

\* A click calls for the end of a capture; a renamed channel is muddled.
LEMMA ClickAgrees ==
  ASSUME IInv, IInv', NEW d \in Cards, AgreesOn(d), NEW e \in Devices, Click(e) \/ Rename(e),
         d \notin muddled', installed' = installed
  PROVE  AgreesOn(d)'
<1>1. UNCHANGED <<proc, captureProcs, superseded, waiting, installed, inbox, liveIds, activeIds, toggling>>
  BY DEF Click, Rename, window
<1>2. CASE Click(e) /\ e = d /\ d \in activeIds /\ selected = d
  <2>1. Calls(d, "stop-capture", "click", "srt") BY <1>2 DEF Click
  <2>2. [op |-> "stop-capture", by |-> "click", protocol |-> "srt"] \in Call BY DEF Call, Protocols
  <2>3. "stop-capture" \notin StreamCalls BY DEF StreamCalls
  <2> QED BY <1>1, <2>1, <2>2, <2>3, CallAgrees
<1>3. CASE ~(Click(e) /\ e = d /\ d \in activeIds /\ selected = d)
  <2>1. ASSUME Rename(e) PROVE e # d BY <2>1 DEF Rename
  <2>2. d \in Devices /\ TypeOK BY DEF Devices, IInv
  <2>3. lock'[d] = lock[d]
    <3>1. CASE Rename(e) BY <2>1, <2>2, <3>1, OtherCalls DEF Rename
    <3>2. CASE Click(e) /\ e \in activeIds /\ selected = e
      <4>1. e # d /\ Calls(e, "stop-capture", "click", "srt") BY <1>3, <3>2 DEF Click
      <4> QED BY <2>2, <4>1, OtherCalls
    <3>3. CASE Click(e) /\ ~(e \in activeIds /\ selected = e) BY <3>3 DEF Click
    <3> QED BY <3>1, <3>2, <3>3
  <2> QED BY <1>1, <2>3, NothingForIt
<1> QED BY <1>2, <1>3

\* Formats that are known call for a capture.
LEMMA FormatsAgree ==
  ASSUME IInv, IInv', NEW d \in Cards, AgreesOn(d), FormatsKnown, installed' = installed
  PROVE  AgreesOn(d)'
<1>1. /\ UNCHANGED <<proc, captureProcs, superseded, waiting, installed, inbox, liveIds, activeIds, toggling>>
      /\ Calls(capturing, "start-capture", "click", "srt")
  BY DEF FormatsKnown, window
<1>2. CASE capturing = d
  <2>1. [op |-> "start-capture", by |-> "click", protocol |-> "srt"] \in Call BY DEF Call, Protocols
  <2>2. "start-capture" \notin StreamCalls BY DEF StreamCalls
  <2>3. Calls(d, "start-capture", "click", "srt") BY <1>1, <1>2
  <2> QED BY <1>1, <2>1, <2>2, <2>3, CallAgrees
<1>3. CASE capturing # d
  <2>1. lock'[d] = lock[d] BY <1>1, <1>3, OtherCalls DEF Devices, IInv
  <2> QED BY <1>1, <2>1, NothingForIt
<1> QED BY <1>2, <1>3

\* The button calls for a stream only when nothing is under way and none is shown.
LEMMA ToggleAgrees ==
  ASSUME IInv, IInv', NEW d \in Cards, AgreesOn(d), NEW protocol \in Protocols, ToggleStream(protocol),
         installed' = installed
  PROVE  AgreesOn(d)'
<1>1. /\ UNCHANGED <<proc, captureProcs, superseded, waiting, installed, inbox, liveIds, activeIds>>
      /\ toggling' = toggling \union {selected} /\ selected \notin toggling
  BY DEF ToggleStream
<1>2. CASE selected # d
  <2>1. lock'[d] = lock[d]
    <3>1. \E op, pr : Calls(selected, op, "toggle", pr) BY DEF ToggleStream
    <3> QED BY <1>2, <3>1, OtherCalls DEF Devices, IInv
  <2> QED BY <1>1, <2>1, NothingForIt
<1>3. CASE selected = d
  <2>1. d \notin toggling /\ d \in toggling' BY <1>1, <1>3
  <2>2. "stop-stream" \in StreamCalls /\ "start-stream" \in StreamCalls BY DEF StreamCalls
  <2>3. CASE d \in liveIds
    <3>1. Calls(d, "stop-stream", "toggle", "srt") BY <1>3, <2>3 DEF ToggleStream
    <3>2. [op |-> "stop-stream", by |-> "toggle", protocol |-> "srt"] \in Call BY DEF Call, Protocols
    <3> QED BY <1>1, <2>1, <2>2, <3>1, <3>2, CallAgrees
  <2>4. CASE d \notin liveIds
    <3>1. Calls(d, "start-stream", "toggle", protocol) BY <1>3, <2>4 DEF ToggleStream
    <3>2. [op |-> "start-stream", by |-> "toggle", protocol |-> protocol] \in Call BY DEF Call
    <3>3. Without(inbox, AnswerTo(d, "toggle")) BY <2>1 DEF AgreesOn, OneToggle
    <3>4. Without(inbox, RaisesLive(d)) BY <3>3 DEF Without, RaisesLive
    <3>5. ~WillBeLive(d) BY <2>4, <3>4 DEF WillBeLive, Will, Without
    <3> QED BY <1>1, <2>1, <2>2, <3>1, <3>2, <3>5, CallAgrees
  <2> QED BY <2>3, <2>4
<1> QED BY <1>2, <1>3

\* A scan is nothing to any stream.
LEMMA ScansAgree ==
  ASSUME IInv, IInv', NEW d \in Cards, AgreesOn(d), Scan \/ Scanned, installed' = installed
  PROVE  AgreesOn(d)'
<1>1. UNCHANGED <<proc, captureProcs, superseded, waiting, installed, inbox, liveIds, activeIds, toggling, lock>>
  BY DEF Scan, Scanned, main
<1> QED BY <1>1, NothingForIt

\* What the first message says of d is believed when it is read.
LEMMA ReadAgrees ==
  ASSUME IInv, IInv', NEW d \in Cards, AgreesOn(d), inbox # <<>>, inbox' = Tail(inbox), NEW m, m = Head(inbox),
         UNCHANGED <<proc, captureProcs, superseded, waiting, installed>>, lock'[d] = lock[d],
         d \in liveIds' <=> m \in RaisesLive(d) \/ (m \notin LowersLive(d) /\ d \in liveIds),
         d \in activeIds' <=> m \in RaisesActive(d) \/ (m \notin LowersActive(d) /\ d \in activeIds),
         d \notin toggling' => d \notin toggling \/ m \in AnswerTo(d, "toggle")
  PROVE  AgreesOn(d)'
<1>1. inbox \in Seq(Msg) BY DEF IInv, TypeOK, Msg
<1>2. /\ \A X : /\ Without(inbox, X) <=> Without(inbox', X) /\ m \notin X
                /\ AtMostOne(inbox, X) => AtMostOne(inbox', X) /\ (m \in X => Without(inbox', X))
      /\ \A R, L : \A now \in BOOLEAN :
           Will(inbox, R, L, now) <=> Will(inbox', R, L, m \in R \/ (m \notin L /\ now))
  BY <1>1, OneLess
<1>3. WillBeLive(d)' <=> WillBeLive(d)
  <2> DEFINE now == d \in liveIds
             then == m \in RaisesLive(d) \/ (m \notin LowersLive(d) /\ now)
  <2>1. Will(inbox, RaisesLive(d), LowersLive(d), now) <=> Will(inbox', RaisesLive(d), LowersLive(d), then)
    <3>1. now \in BOOLEAN OBVIOUS
    <3> HIDE DEF now
    <3> QED BY <1>2, <3>1
  <2>2. (d \in liveIds') = then OBVIOUS
  <2>3. WillBeLive(d)' <=> Will(inbox', RaisesLive(d), LowersLive(d), then) BY <2>2, Later
  <2> QED BY <2>1, <2>3 DEF WillBeLive
<1>4. WillBeActive(d)' <=> WillBeActive(d)
  <2> DEFINE now == d \in activeIds
             then == m \in RaisesActive(d) \/ (m \notin LowersActive(d) /\ now)
  <2>1. Will(inbox, RaisesActive(d), LowersActive(d), now) <=> Will(inbox', RaisesActive(d), LowersActive(d), then)
    <3>1. now \in BOOLEAN OBVIOUS
    <3> HIDE DEF now
    <3> QED BY <1>2, <3>1
  <2>2. (d \in activeIds') = then OBVIOUS
  <2>3. WillBeActive(d)' <=> Will(inbox', RaisesActive(d), LowersActive(d), then) BY <2>2, Later
  <2> QED BY <2>1, <2>3 DEF WillBeActive
<1>5. CallsFit(d)'
  <2>1. Without(inbox', AnswerTo(d, "rename")) BY <1>2 DEF AgreesOn, CallsFit
  <2> QED BY <2>1 DEF AgreesOn, CallsFit, Without, AnswerTo, Unfit
<1>6. OneToggle(d)'
  <2>1. AtMostOne(inbox', AnswerTo(d, "toggle")) BY <1>2 DEF AgreesOn, OneToggle
  <2>2. Without(inbox, AnswerTo(d, "toggle")) => Without(inbox', AnswerTo(d, "toggle")) BY <1>2
  <2>3. ASSUME m \in AnswerTo(d, "toggle")
        PROVE  Without(lock[d], Toggles) /\ Without(inbox', AnswerTo(d, "toggle"))
    BY <1>2, <2>3 DEF AgreesOn, OneToggle
  <2>4. /\ Without(lock[d], Toggles) \/ Without(inbox', AnswerTo(d, "toggle"))
        /\ d \notin toggling' => Without(lock[d], Toggles) /\ Without(inbox', AnswerTo(d, "toggle"))
    BY <2>2, <2>3 DEF AgreesOn, OneToggle
  <2>5. AtMostOne(lock[d], Toggles) BY DEF AgreesOn, OneToggle
  <2> QED BY <2>1, <2>4, <2>5 DEF OneToggle, Without, AtMostOne, AnswerTo, Toggles
<1>7. WillBeLive(d) => Without(lock'[d], GoLives) BY DEF AgreesOn, LiveInv
<1> QED BY <1>3, <1>4, <1>5, <1>6, <1>7, WindowAgreesOn

\* Which message says what of d.
LEMMA MessageSays ==
  ASSUME NEW d \in Devices, NEW m \in Msg, m.dev = d
  PROVE  /\ m.kind # "answer" =>
              /\ \A by : m \notin AnswerTo(d, by)
              /\ m \notin RaisesLive(d) /\ m \notin RaisesActive(d)
              /\ m \in LowersLive(d) <=> m.kind = "stream-stopped"
              /\ m \in LowersActive(d) <=> m.kind # "stream-stopped"
         /\ m.kind = "answer" =>
              /\ \A by : m \in AnswerTo(d, by) <=> m.call.by = by
              /\ m \in RaisesLive(d) <=> m.call.by = "toggle" /\ m.call.op # "stop-stream" /\ m.ok
              /\ m \in LowersLive(d) <=> m.call.by = "toggle" /\ m.call.op = "stop-stream"
              /\ m \in RaisesActive(d) <=> m.call.by = "click" /\ m.call.op = "start-capture"
              /\ m \in LowersActive(d) <=> m.call.by = "click" /\ m.call.op # "start-capture"
<1>1. CASE m \in Event
  <2>1. m.kind \in {"stream-stopped", "capture-stopped"} /\ m = Stopped(m.kind, d)
    BY <1>1 DEF Event, Stopped
  <2>2. PICK kind \in {"stream-stopped", "capture-stopped"} : kind = m.kind BY <2>1
  <2>3. m = Stopped(kind, d) BY <2>1, <2>2
  <2>4. /\ \A by : Stopped(kind, d) \notin AnswerTo(d, by)
        /\ Stopped(kind, d) \notin RaisesLive(d) /\ Stopped(kind, d) \notin RaisesActive(d)
        /\ Stopped(kind, d) \in LowersLive(d) <=> kind = "stream-stopped"
        /\ Stopped(kind, d) \in LowersActive(d) <=> kind = "capture-stopped"
    BY EventFacts
  <2> QED BY <2>1, <2>2, <2>3, <2>4
<1>2. CASE m \in Answer
  <2>1. m.call \in Call /\ m.ok \in BOOLEAN
    BY <1>2 DEF Answer
  <2>2. m = [kind |-> "answer", call |-> m.call, dev |-> d, ok |-> m.ok] BY <1>2 DEF Answer
  <2>3. m.kind = "answer" BY <1>2 DEF Answer
  <2>4. PICK c \in Call, ok \in BOOLEAN : c = m.call /\ ok = m.ok BY <2>1
  <2>5. m = [kind |-> "answer", call |-> c, dev |-> d, ok |-> ok] BY <2>2, <2>4
  <2>6. /\ m \in Answer /\ \A by : m \in AnswerTo(d, by) <=> c.by = by
        /\ m \in RaisesLive(d) <=> c.by = "toggle" /\ c.op # "stop-stream" /\ ok
        /\ m \in LowersLive(d) <=> c.by = "toggle" /\ c.op = "stop-stream"
        /\ m \in RaisesActive(d) <=> c.by = "click" /\ c.op = "start-capture"
        /\ m \in LowersActive(d) <=> c.by = "click" /\ c.op # "start-capture"
    BY <2>5, AnswerFacts
  <2> QED BY <2>3, <2>4, <2>6
<1> QED BY <1>1, <1>2 DEF Msg

\* The window does what the message says.
LEMMA ReceiveAgrees ==
  ASSUME IInv, IInv', NEW d \in Cards, AgreesOn(d), Receive, installed' = installed
  PROVE  AgreesOn(d)'
<1> DEFINE m == Head(inbox)
<1>1. /\ inbox # <<>> /\ inbox' = Tail(inbox) /\ UNCHANGED <<proc, captureProcs, superseded, waiting, installed>>
      /\ m.kind # "answer" => OnEvent(m)
      /\ m.kind = "answer" /\ m.call.by = "click" => AfterClick(m)
      /\ m.kind = "answer" /\ m.call.by = "toggle" => AfterToggle(m)
      /\ m.kind = "answer" /\ m.call.by \notin {"click", "toggle"} =>
           \E protocol \in Protocols : AfterRename(m, protocol)
  <2>1. m.kind = "answer" => CASE m.call.by = "click" -> AfterClick(m)
                               [] m.call.by = "toggle" -> AfterToggle(m)
                               [] OTHER -> \E protocol \in Protocols : AfterRename(m, protocol)
    BY DEF Receive
  <2> HIDE DEF m
  <2>2. /\ m.kind = "answer" /\ m.call.by = "click" => AfterClick(m)
        /\ m.kind = "answer" /\ m.call.by = "toggle" => AfterToggle(m)
        /\ m.kind = "answer" /\ m.call.by \notin {"click", "toggle"} =>
             \E protocol \in Protocols : AfterRename(m, protocol)
    BY <2>1
  <2>3. /\ inbox # <<>> /\ inbox' = Tail(inbox) /\ UNCHANGED <<proc, captureProcs, superseded, waiting, installed>>
        /\ m.kind # "answer" => OnEvent(m)
    BY DEF Receive, m
  <2> QED BY <2>2, <2>3
<1>2. m \in Msg
  <2>1. inbox \in Seq(Msg) BY DEF IInv, TypeOK, Msg
  <2> QED BY <1>1, <2>1
<1>3. TypeOK /\ d \in Devices BY DEF IInv, Devices
<1>4. m \notin AnswerTo(d, "rename")
  <2>1. inbox \in Seq(Msg) BY DEF IInv, TypeOK, Msg
  <2>2. Without(inbox, AnswerTo(d, "rename")) BY DEF AgreesOn, CallsFit
  <2> QED BY <1>1, <2>1, <2>2, OneLess
<1>5. m = Head(inbox) OBVIOUS
<1> HIDE DEF m
<1> DEFINE Said == /\ lock'[d] = lock[d]
                   /\ d \in liveIds' <=> m \in RaisesLive(d) \/ (m \notin LowersLive(d) /\ d \in liveIds)
                   /\ d \in activeIds' <=> m \in RaisesActive(d) \/ (m \notin LowersActive(d) /\ d \in activeIds)
                   /\ d \notin toggling' => d \notin toggling \/ m \in AnswerTo(d, "toggle")
<1>6. ASSUME m.dev # d PROVE Said
  <2>1. /\ \A by : m \notin AnswerTo(d, by)
        /\ m \notin RaisesLive(d) /\ m \notin LowersLive(d)
        /\ m \notin RaisesActive(d) /\ m \notin LowersActive(d)
    BY <1>6, ForeignFacts
  <2>2. /\ lock'[d] = lock[d] /\ (d \in liveIds' <=> d \in liveIds) /\ (d \in activeIds' <=> d \in activeIds)
        /\ (d \in toggling' <=> d \in toggling)
    <3>1. CASE m.kind # "answer" BY <1>1, <1>6, <3>1 DEF OnEvent
    <3>2. CASE m.kind = "answer" /\ m.call.by = "click" BY <1>1, <1>6, <3>2 DEF AfterClick
    <3>3. CASE m.kind = "answer" /\ m.call.by = "toggle" BY <1>1, <1>6, <3>3 DEF AfterToggle
    <3>4. CASE m.kind = "answer" /\ m.call.by \notin {"click", "toggle"}
      <4>1. PICK protocol \in Protocols : AfterRename(m, protocol) BY <1>1, <3>4
      <4>2. lock'[d] = lock[d]
        <5>1. CASE m.call.op = "stop-stream"
          <6>1. Calls(m.dev, "start-stream", "rename", protocol) BY <4>1, <5>1 DEF AfterRename
          <6> QED BY <1>3, <1>6, <6>1, OtherCalls
        <5>2. CASE m.call.op # "stop-stream" BY <4>1, <5>2 DEF AfterRename
        <5> QED BY <5>1, <5>2
      <4>3. (d \in liveIds' <=> d \in liveIds) /\ UNCHANGED <<activeIds, toggling>>
        BY <1>6, <4>1 DEF AfterRename
      <4> QED BY <4>2, <4>3
    <3> QED BY <3>1, <3>2, <3>3, <3>4
  <2> QED BY <2>1, <2>2
<1>7. ASSUME m.dev = d PROVE Said
  <2>1. CASE m.kind # "answer"
    <3>1. /\ m \notin RaisesLive(d) /\ m \notin RaisesActive(d)
          /\ m \in LowersLive(d) <=> m.kind = "stream-stopped"
          /\ m \in LowersActive(d) <=> m.kind # "stream-stopped"
      BY <1>2, <1>3, <1>7, <2>1, MessageSays
    <3> QED BY <1>1, <1>7, <2>1, <3>1 DEF OnEvent
  <2>2. CASE m.kind = "answer"
    <3>1. /\ \A by : m \in AnswerTo(d, by) <=> m.call.by = by
          /\ m \in RaisesLive(d) <=> m.call.by = "toggle" /\ m.call.op # "stop-stream" /\ m.ok
          /\ m \in LowersLive(d) <=> m.call.by = "toggle" /\ m.call.op = "stop-stream"
          /\ m \in RaisesActive(d) <=> m.call.by = "click" /\ m.call.op = "start-capture"
          /\ m \in LowersActive(d) <=> m.call.by = "click" /\ m.call.op # "start-capture"
      BY <1>2, <1>3, <1>7, <2>2, MessageSays
    <3>2. CASE m.call.by = "click" BY <1>1, <1>7, <2>2, <3>1, <3>2 DEF AfterClick
    <3>3. CASE m.call.by = "toggle" BY <1>1, <1>7, <2>2, <3>1, <3>3 DEF AfterToggle
    <3>4. m.call.by \in {"click", "toggle"}
      <4>1. m \in Answer BY <1>2, <2>2 DEF Msg, Event
      <4>2. m.call.by \in {"click", "toggle", "rename"} BY <4>1 DEF Answer, Call
      <4> QED BY <1>4, <3>1, <4>2
    <3> QED BY <3>2, <3>3, <3>4
  <2> QED BY <2>1, <2>2
<1>8. Said BY <1>6, <1>7
<1> QED BY <1>1, <1>5, <1>8, ReadAgrees

-----------------------------------------------------------------------------
(* Every step *)

\* At first nothing runs and nothing is shown.
LEMMA InitAgrees == Init => AgreeInv
<1> SUFFICES ASSUME Init, NEW d \in Cards PROVE AgreesOn(d) BY DEF AgreeInv
<1>1. /\ lock[d] = <<>> /\ inbox = <<>> /\ d \notin waiting /\ d \notin liveIds /\ d \notin activeIds
      /\ d \notin superseded /\ captureProcs[d] = None
  BY DEF Init, Devices
<1>2. \A X : /\ Without(lock[d], X) /\ Without(inbox, X)
             /\ AtMostOne(lock[d], X) /\ AtMostOne(inbox, X)
  BY <1>1 DEF Without, AtMostOne
<1>3. ~WillBeLive(d) /\ ~WillBeActive(d) BY <1>1, <1>2 DEF WillBeLive, WillBeActive, Will, Without
<1>4. CallsFit(d) /\ OneToggle(d) BY <1>1, <1>2 DEF CallsFit, OneToggle
<1> QED BY <1>1, <1>3, <1>4 DEF AgreesOn, SlotInv, LiveInv, PreviewInv, ActiveInv

\* What is muddled stays so.
LEMMA MuddledStays == ASSUME [Next]_vars PROVE muddled \subseteq muddled'
<1>1. CASE User
  <2>1. CASE \E d \in Devices : Click(d) \/ Rename(d) BY <2>1 DEF Click, Rename
  <2>2. CASE (\E protocol \in Protocols : ToggleStream(protocol)) \/ Scan \/ CloseWindow
    BY <2>2 DEF ToggleStream, Scan, CloseWindow
  <2> QED BY <1>1, <2>1, <2>2 DEF User
<1>2. CASE Dies BY <1>2 DEF Dies, Ends
<1>3. CASE System
  <2>1. CASE \E d \in Devices : Handler(d)
    BY <2>1 DEF Handler, StartCapture, StopCapture, StopStream, RefuseStream, BeginStream, RelayCam,
                PushUdp, BroadcastNdi, PublishSrt
  <2>2. ASSUME NEW p \in Procs, Closed(p) PROVE muddled \subseteq muddled'
    <3>1. PreviewClosed(p) \/ StreamClosed(p) \/ CamClosed(p) BY <2>2 DEF Closed
    <3> QED BY <3>1 DEF PreviewClosed, StreamClosed, CamClosed, Misled
  <2>3. CASE FormatsKnown \/ Scanned \/ Receive \/ Quit
    BY <2>3 DEF FormatsKnown, Scanned, Receive, Quit
  <2> QED BY <1>3, <2>1, <2>2, <2>3 DEF System
<1>4. CASE UNCHANGED vars BY <1>4 DEF vars
<1> QED BY <1>1, <1>2, <1>3, <1>4 DEF Next

\* A window that is open was.
LEMMA WasOpen == ASSUME [Next]_vars, app' = "open" PROVE app = "open"
<1>1. CASE User
  <2>1. CASE \E d \in Devices : Click(d) \/ Rename(d) BY <2>1 DEF Click, Rename
  <2>2. CASE (\E protocol \in Protocols : ToggleStream(protocol)) \/ Scan \/ CloseWindow
    BY <2>2 DEF ToggleStream, Scan, CloseWindow
  <2> QED BY <1>1, <2>1, <2>2 DEF User
<1>2. CASE Dies BY <1>2 DEF Dies, Ends
<1>3. CASE System
  <2>1. CASE \E d \in Devices : Handler(d)
    BY <2>1 DEF Handler, StartCapture, StopCapture, StopStream, RefuseStream, BeginStream, RelayCam,
                PushUdp, BroadcastNdi, PublishSrt
  <2>2. CASE \E p \in Procs : Closed(p) BY <2>2 DEF Closed
  <2>3. CASE FormatsKnown \/ Scanned \/ Receive \/ Quit
    BY <2>3 DEF FormatsKnown, Scanned, Receive, Quit
  <2> QED BY <1>3, <2>1, <2>2, <2>3 DEF System
<1>4. CASE UNCHANGED vars BY <1>4 DEF vars
<1> QED BY <1>1, <1>2, <1>3, <1>4 DEF Next

\* Every step keeps it.
LEMMA StepAgrees == IInv /\ AgreeInv /\ [Next]_vars => AgreeInv'
<1> SUFFICES ASSUME IInv, AgreeInv, [Next]_vars, app' = "open", NEW d \in Cards \ muddled'
             PROVE  AgreesOn(d)'
  BY DEF AgreeInv
<1>1. IInv' BY StepInv
<1>2. app = "open" BY WasOpen
<1>3. d \in Cards /\ AgreesOn(d) BY <1>2, MuddledStays DEF AgreeInv
<1>4. CASE User
  <2>1. installed' = installed BY <1>4 DEF Next, System, vars
  <2>2. CASE \E e \in Devices : Click(e) \/ Rename(e) BY <1>1, <1>3, <2>1, <2>2, ClickAgrees
  <2>3. CASE \E protocol \in Protocols : ToggleStream(protocol) BY <1>1, <1>3, <2>1, <2>3, ToggleAgrees
  <2>4. CASE Scan BY <1>1, <1>3, <2>1, <2>4, ScansAgree
  <2>5. CASE CloseWindow BY <2>5 DEF CloseWindow
  <2> QED BY <1>4, <2>2, <2>3, <2>4, <2>5 DEF User
<1>5. CASE Dies
  <2>1. installed' = installed BY <1>5 DEF Next, System, vars
  <2>2. PICK p \in Procs : Ends(p) BY <1>5 DEF Dies
  <2> QED BY <1>1, <1>3, <2>1, <2>2, EndAgrees
<1>6. CASE System
  <2>1. installed' = installed BY <1>6 DEF System
  <2>2. CASE \E e \in Devices : Handler(e) BY <1>1, <1>2, <1>3, <2>1, <2>2, HandlersAgree
  <2>3. CASE \E p \in Procs : Closed(p) BY <1>1, <1>2, <1>3, <2>1, <2>3, CloseAgrees
  <2>4. CASE FormatsKnown BY <1>1, <1>3, <2>1, <2>4, FormatsAgree
  <2>5. CASE Scanned BY <1>1, <1>3, <2>1, <2>5, ScansAgree
  <2>6. CASE Receive BY <1>1, <1>3, <2>1, <2>6, ReceiveAgrees
  <2>7. CASE Quit BY <2>7 DEF Quit
  <2> QED BY <1>6, <2>2, <2>3, <2>4, <2>5, <2>6, <2>7 DEF System
<1>7. CASE UNCHANGED vars
  <2>1. UNCHANGED <<proc, captureProcs, superseded, waiting, installed, inbox, liveIds, activeIds, toggling, lock>>
    BY <1>7 DEF vars, main, window
  <2> QED BY <1>1, <1>3, <2>1, NothingForIt
<1> QED BY <1>4, <1>5, <1>6, <1>7 DEF Next

\* When nothing is on its way, what the window will show is what it shows.
LEMMA QuietAgrees == IInv /\ AgreeInv => WindowAgrees
<1> SUFFICES ASSUME IInv, app = "open", installed, NEW d \in Cards, AgreesOn(d), Quiet(d)
             PROVE  (d \in liveIds <=> Streaming(d)) /\ (d \in activeIds => Capturing(d))
  BY DEF AgreeInv, WindowAgrees
<1>1. \A X : (\A m \in X : m.dev = d) => Without(inbox, X) BY DEF Quiet, Without
<1>2. /\ Without(inbox, RaisesLive(d)) /\ Without(inbox, LowersLive(d))
      /\ Without(inbox, RaisesActive(d)) /\ Without(inbox, LowersActive(d))
  <2>1. \A by : \A m \in AnswerTo(d, by) : m.dev = d BY DEF AnswerTo
  <2>2. \A kind : Stopped(kind, d).dev = d BY DEF Stopped
  <2>3. /\ \A m \in RaisesLive(d) : m.dev = d
        /\ \A m \in LowersLive(d) : m.dev = d
        /\ \A m \in RaisesActive(d) : m.dev = d
        /\ \A m \in LowersActive(d) : m.dev = d
    BY <2>1, <2>2 DEF RaisesLive, LowersLive, RaisesActive, LowersActive
  <2> QED BY <1>1, <2>3
<1>3. /\ WillBeLive(d) <=> d \in liveIds
      /\ WillBeActive(d) <=> d \in activeIds
  BY <1>2 DEF WillBeLive, WillBeActive, Will, Without
<1>4. \A roles : Dying(d, roles) = {} BY DEF Quiet, Dying
<1>5. ASSUME Streaming(d) PROVE d \in liveIds
  <2>1. PICK p \in Procs : Running(p) /\ proc[p].dev = d /\ proc[p].role \in StreamRoles
    BY <1>5 DEF Streaming, StreamRoles
  <2>2. captureProcs[d] = p /\ p # None BY <2>1, AppAssumption DEF IInv, OneProcessPerCard
  <2> QED BY <1>3, <2>1, <2>2 DEF AgreesOn, SlotInv
<1>6. d \in liveIds => Streaming(d) BY <1>3, <1>4 DEF AgreesOn, LiveInv
<1>7. d \in activeIds => Capturing(d) BY <1>3, <1>4 DEF AgreesOn, ActiveInv
<1> QED BY <1>5, <1>6, <1>7

-----------------------------------------------------------------------------
(* The theorems *)

\* The state of the application and of its window stays well-formed.
THEOREM AppTypeCorrect == Spec => []TypeOK
<1>1. IInv => TypeOK BY DEF IInv
<1> QED BY InitInv, StepInv, <1>1, PTL DEF Spec

\* A card is captured by one process, the one in its slot, whatever the user clicks and
\* whatever ends when (main.ts:168, 920).
THEOREM OneProcessForEachCard == Spec => []OneProcessPerCard
<1>1. IInv => OneProcessPerCard BY DEF IInv
<1> QED BY InitInv, StepInv, <1>1, PTL DEF Spec

\* What streams is announced, whatever other channels do (main.ts:848, 1695).
THEOREM LiveStaysAnnounced == Spec => []LiveIsAnnounced
<1>1. IInv => LiveIsAnnounced BY DEF IInv
<1> QED BY InitInv, StepInv, <1>1, PTL DEF Spec

\* When all that was sent has been read, the window shows a card live exactly while it
\* streams, and active only while it is captured, whatever overlaps with what - unless it was
\* renamed while live, or the end of a process was reported after its successor had been
\* started (App.tsx:342).
THEOREM WindowTellsTruth == Spec => []WindowAgrees
<1>1. Init => IInv /\ AgreeInv BY InitInv, InitAgrees
<1>2. IInv /\ AgreeInv /\ [Next]_vars => (IInv /\ AgreeInv)' BY StepInv, StepAgrees
<1>3. IInv /\ AgreeInv => WindowAgrees BY QuietAgrees
<1> QED BY <1>1, <1>2, <1>3, PTL DEF Spec

=============================================================================
