-------------------------- MODULE CommsEngine_proofs --------------------------
(***************************************************************************)
(* Invariance proofs about CommsEngine, for any channels and any number of *)
(* events.                                                                 *)
(***************************************************************************)
EXTENDS CommsEngine, SequenceTheorems, TLAPS

\* The fields of the records the properties are about.
Shapes ==
  /\ eng = [status |-> eng.status, stopped |-> eng.stopped, welcomed |-> eng.welcomed,
            failed |-> eng.failed, timer |-> eng.timer]
  /\ keys = [held |-> keys.held, latched |-> keys.latched, listen |-> keys.listen,
             channels |-> keys.channels]
  /\ mic = [open |-> mic.open, boot |-> mic.boot, press |-> mic.press, idle |-> mic.idle,
            refused |-> mic.refused]
  /\ net = [ws |-> net.ws, up |-> net.up, down |-> net.down]
  /\ sfu = [room |-> sfu.room, gains |-> sfu.gains, hot |-> sfu.hot, tracks |-> sfu.tracks,
            hurt |-> sfu.hurt]
  /\ conn = [at |-> conn.at, wait |-> conn.wait]
  /\ mesh = [roster |-> mesh.roster, talks |-> mesh.talks, said |-> mesh.said, blank |-> mesh.blank,
             pc |-> mesh.pc, first |-> mesh.first, on |-> mesh.on, here |-> mesh.here, speaks |-> mesh.speaks, far |-> mesh.far]
  /\ prog = [wanted |-> prog.wanted, pc |-> prog.pc, retry |-> prog.retry, loc |-> prog.loc,
             old |-> prog.old, lost |-> prog.lost]
  /\ duck = [on |-> duck.on, timer |-> duck.timer]

\* A socket exists only in a session that is starting, on or resuming, and never beside a
\* pending retry or the first microphone prompt; a room is joined only over a socket.
SessionInv ==
  /\ net.ws # "none" => eng.status \in {"connecting", "connected", "reconnecting"}
  /\ eng.timer /\ ~eng.stopped => eng.status \in {"connecting", "reconnecting"} /\ net.ws = "none"
  /\ mic.boot => eng.status = "connecting" /\ net.ws = "none" /\ ~eng.timer
  /\ eng.welcomed => eng.status # "connecting"
  /\ conn.at # "none" => net.ws # "none"

\* An IFB talker in the roster ducks, and no release is pending while he does; nobody out
\* of the roster talks.
IfbDucks == eng.status = "connected" /\ IfbTalks(keys, mesh) => duck.on
DuckInv ==
  /\ duck.timer /\ eng.status = "connected" => ~IfbTalks(keys, mesh)
  /\ mesh.roster = "no" => ~mesh.talks

\* The roster shows what the server said, but for an entry that went blank.
SaidInv == mesh.said /\ ~mesh.blank => mesh.talks

RetryInv == prog.retry => prog.wanted /\ prog.pc = "none"

IInv == /\ Shapes /\ SessionInv /\ DuckInv /\ RetryInv
        /\ HotOnlyWhileKeyed /\ KeyedIsFed /\ IfbDucks /\ SaidInv /\ OneFeed

-----------------------------------------------------------------------------
\* Every message of the server, handled by onMessage().
LEMMA HearInv == ASSUME IInv, Hear PROVE IInv'
<1> DEFINE m == Head(net.down)
<1> USE DEF IInv, Shapes, SessionInv, DuckInv, RetryInv, HotOnlyWhileKeyed, KeyedIsFed,
         IfbDucks, SaidInv, OneFeed, IfbTalks, InSession, TalkSet, client, sending, hearing
<1>0. net.ws = "open" BY DEF Hear
<1>1. CASE Welcome(m)
  BY <1>0, <1>1, ZenonT(40) DEF Welcome, ApplyRouting, Routed, Wired, MicSynced, DuckUpdated,
       Sent, Got, ConnectedProg
<1>2. CASE Adopt(m)
  BY <1>0, <1>2, ZenonT(40) DEF Adopt, ApplyRouting, Routed, Wired, MicSynced, DuckUpdated,
       Got
<1>3. CASE Fatal
  BY <1>0, <1>3, ZenonT(40) DEF Fatal, TeardownSession, ClosedSfu, NoConn, NoPeer, Silent, Closed
<1>4. CASE PeerJoins BY <1>0, <1>4, ZenonT(40) DEF PeerJoins, Silent, Got
<1>5. CASE PeerLeaves BY <1>0, <1>5, ZenonT(40) DEF PeerLeaves, Silent, Got
<1>6. CASE PeerState(m)
  BY <1>0, <1>6, ZenonT(40) DEF PeerState, ApplyRouting, Routed, Wired, MicSynced,
       DuckUpdated, Got
<1>7. CASE GotOffer
  BY <1>0, <1>7, ZenonT(40) DEF GotOffer, ApplyRouting, Routed, Wired, MicSynced, DuckUpdated,
       Got, Signal, Sent
<1>8. CASE GotAnswer BY <1>0, <1>8, ZenonT(40) DEF GotAnswer, Got
<1> QED BY <1>1, <1>2, <1>3, <1>4, <1>5, <1>6, <1>7, <1>8 DEF Hear

\* The socket, its retry and the server at its other end.
LEMMA SocketInv == ASSUME IInv, Socket PROVE IInv'
<1> USE DEF IInv, Shapes, SessionInv, DuckInv, RetryInv, HotOnlyWhileKeyed, KeyedIsFed,
         IfbDucks, SaidInv, OneFeed, IfbTalks, InSession, TalkSet, client, sending, hearing
<1>0. CASE Hear BY <1>0, HearInv
<1>1. CASE Opened BY <1>1, ZenonT(40) DEF Opened
<1>2. CASE SocketClosed
  BY <1>2, ZenonT(40) DEF SocketClosed, SocketCloses, TeardownSession, ClosedSfu, NoConn,
       NoPeer, Silent, Closed
<1>3. CASE PongTimeout BY <1>3, ZenonT(40) DEF PongTimeout, Closed
<1>4. CASE Retry BY <1>4, ZenonT(40) DEF Retry, Closed
<1>5. CASE ServerHears
  BY <1>5, ZenonT(40) DEF ServerHears, HearJoin, HearState, HearMusic, HearOffer, HearAnswer,
       Tell, Read
<1>6. CASE TokenReady BY <1>6, ZenonT(40) DEF TokenReady, Tell
<1> QED BY <1>0, <1>1, <1>2, <1>3, <1>4, <1>5, <1>6 DEF Socket

\* The room of the media server.
LEMMA RoomInv == ASSUME IInv, Room PROVE IInv'
<1> USE DEF IInv, Shapes, SessionInv, DuckInv, RetryInv, HotOnlyWhileKeyed, KeyedIsFed,
         IfbDucks, SaidInv, OneFeed, IfbTalks, InSession, TalkSet, client, sending, hearing
<1>1. CASE RoomConnected BY <1>1, ZenonT(40) DEF RoomConnected
<1>2. CASE ConnSynced
  <2>1. CASE ~music.tx
    <3>1. conn' = NoConn /\ UNCHANGED <<eng, keys, mic, net, sfu, hearing>>
      BY <1>2, <2>1 DEF ConnSynced
    <3> QED BY <3>1, ZenonT(40) DEF NoConn
  <2>2. CASE music.tx
    <3> DEFINE x == PublishMusic([music EXCEPT !.pub = FALSE], "conn")
    <3>1. /\ net' = Announced(x, net)
         /\ conn' = [conn EXCEPT !.at = IF x.jobs = music.jobs THEN "none" ELSE "music"]
      BY <1>2, <2>2 DEF ConnSynced
    <3>2. net'.ws = net.ws /\ (net = [ws |-> net.ws, up |-> net.up, down |-> net.down])'
      BY <3>1, ZenonT(40) DEF Announced, Sent
    <3>3. (conn = [at |-> conn.at, wait |-> conn.wait])' /\ conn.at # "none" 
      <4>1. CASE x.jobs = music.jobs BY <1>2, <3>1, <4>1, ZenonT(40) DEF ConnSynced
      <4>2. CASE x.jobs # music.jobs BY <1>2, <3>1, <4>2, ZenonT(40) DEF ConnSynced
      <4> QED BY <4>1, <4>2
    <3>4. UNCHANGED <<eng, keys, mic, sfu, hearing>> BY <1>2 DEF ConnSynced
    <3> HIDE DEF x
    <3> QED BY <3>2, <3>3, <3>4, ZenonT(40)
  <2> QED BY <2>1, <2>2
<1>3. CASE RoomBack BY <1>3, ZenonT(40) DEF RoomBack
<1>4. CASE StallTimeout BY <1>4, ZenonT(40) DEF StallTimeout, CloseWs, Closed
<1> QED BY <1>1, <1>2, <1>3, <1>4 DEF Room

\* syncSfuTracks().
LEMMA SyncingInv == ASSUME IInv, Syncing PROVE IInv'
<1> USE DEF IInv, Shapes, SessionInv, DuckInv, RetryInv, HotOnlyWhileKeyed, KeyedIsFed,
         IfbDucks, SaidInv, OneFeed, IfbTalks, InSession, TalkSet, client, sending, hearing
<1>1. CASE SyncStart BY <1>1, ZenonT(40) DEF SyncStart, Awaited
<1>2. CASE SyncPublished BY <1>2, ZenonT(40) DEF SyncPublished
<1>3. CASE SyncFails BY <1>3, ZenonT(40) DEF SyncFails, Awaited
<1>4. CASE SyncEnds
  <2>1. CASE sync.live
    <3>1. ApplyRouting(keys, sfu, mesh) /\ UNCHANGED <<eng, net, prog>> /\ conn' = Awaited
      BY <1>4, <2>1 DEF SyncEnds
    <3>2. (conn = [at |-> conn.at, wait |-> conn.wait])' /\ conn'.at = conn.at
      BY <3>1, ZenonT(40) DEF Awaited
    <3> QED BY <3>1, <3>2, ZenonT(40) DEF ApplyRouting, Routed, Wired, MicSynced, DuckUpdated
  <2>2. CASE ~sync.live BY <1>4, <2>2, ZenonT(40) DEF SyncEnds, Awaited
  <2> QED BY <2>1, <2>2
<1>5. ASSUME NEW x \in Names, SyncUnpublished(x) PROVE IInv'
  BY <1>5, ZenonT(40) DEF SyncUnpublished
<1>6. ASSUME NEW x \in Names, SyncAdds(x) PROVE IInv'
  BY <1>6, ZenonT(40) DEF SyncAdds
<1> QED BY <1>1, <1>2, <1>3, <1>4, <1>5, <1>6 DEF Syncing

\* Music under way.
LEMMA MusicalInv == ASSUME IInv, Musical PROVE IInv'
<1> USE DEF IInv, Shapes, SessionInv, DuckInv, RetryInv, HotOnlyWhileKeyed, KeyedIsFed,
         IfbDucks, SaidInv, OneFeed, IfbTalks, InSession, TalkSet, client, sending, hearing
<1>1. CASE CaptureReady BY <1>1, ZenonT(40) DEF CaptureReady, Announced, Sent
<1>2. CASE CaptureRefused BY <1>2, ZenonT(40) DEF CaptureRefused
<1>3. ASSUME NEW j \in Jobs, MusicPublished(j) PROVE IInv'
  BY <1>3, ZenonT(40) DEF MusicPublished, Sent, NoConn
<1>4. ASSUME NEW j \in Jobs, MusicFails(j) PROVE IInv'
  BY <1>4, ZenonT(40) DEF MusicFails, Sent, NoConn
<1> QED BY <1>1, <1>2, <1>3, <1>4 DEF Musical

\* The mesh link.
LEMMA LinkingInv == ASSUME IInv, Linking PROVE IInv'
<1> USE DEF IInv, Shapes, SessionInv, DuckInv, RetryInv, HotOnlyWhileKeyed, KeyedIsFed,
         IfbDucks, SaidInv, OneFeed, IfbTalks, InSession, TalkSet, client, sending, hearing
<1>1. CASE MakeOffer BY <1>1, ZenonT(40) DEF MakeOffer, Signal, Sent
<1>2. CASE PcFails BY <1>2, ZenonT(40) DEF PcFails, Wired
<1>3. CASE OtherOffers BY <1>3, ZenonT(40) DEF OtherOffers, Other, Tell
<1>4. CASE FarFails BY <1>4, ZenonT(40) DEF FarFails, Other, Tell
<1> QED BY <1>1, <1>2, <1>3, <1>4 DEF Linking

\* The programme feed and the release of the ducking.
LEMMA FeedingInv == ASSUME IInv, Feeding PROVE IInv'
<1> USE DEF IInv, Shapes, SessionInv, DuckInv, RetryInv, HotOnlyWhileKeyed, KeyedIsFed,
         IfbDucks, SaidInv, OneFeed, IfbTalks, InSession, TalkSet, client, sending, hearing
<1>1. CASE Gathered BY <1>1, ZenonT(40) DEF Gathered, Feed
<1>2. CASE WhepAnswers BY <1>2, ZenonT(40) DEF WhepAnswers, Feed
<1>3. CASE FeedRetries BY <1>3, ZenonT(40) DEF FeedRetries, Feed, ConnectedProg
<1>4. CASE OldGathered
  <2>1. PICK posted \in BOOLEAN :
           Feed([prog EXCEPT !.old = (@ \ {"gather"}) \cup (IF posted THEN {"post"} ELSE {})])
    BY <1>4 DEF OldGathered
  <2> QED BY <1>4, <2>1, ZenonT(40) DEF OldGathered, Feed
<1>5. CASE OldAnswered
  <2>1. PICK made \in BOOLEAN :
           Feed([prog EXCEPT !.old = @ \ {"post"}, !.lost = @ \/ made])
    BY <1>5 DEF OldAnswered
  <2> QED BY <1>5, <2>1, ZenonT(40) DEF OldAnswered, Feed
<1>6. CASE DuckReleased BY <1>6, ZenonT(40) DEF DuckReleased
<1> QED BY <1>1, <1>2, <1>3, <1>4, <1>5, <1>6 DEF Feeding

\* Answers of getUserMedia, and the lingering microphone.
LEMMA MicrophoneInv == ASSUME IInv, Microphone PROVE IInv'
<1> USE DEF IInv, Shapes, SessionInv, DuckInv, RetryInv, HotOnlyWhileKeyed, KeyedIsFed,
         IfbDucks, SaidInv, OneFeed, IfbTalks, InSession, TalkSet, client, sending, hearing
<1>1. CASE MicOpened BY <1>1, ZenonT(40) DEF MicOpened
<1>2. CASE MicLingered BY <1>2, ZenonT(40) DEF MicLingered
<1> QED BY <1>1, <1>2 DEF Microphone

\* What the user does.
LEMMA UserInv == ASSUME IInv, User PROVE IInv'
<1> USE DEF IInv, Shapes, SessionInv, DuckInv, RetryInv, HotOnlyWhileKeyed, KeyedIsFed,
         IfbDucks, SaidInv, OneFeed, IfbTalks, InSession, TalkSet, client, sending, hearing
<1>1. CASE Join
  BY <1>1, ZenonT(40) DEF Join, Left, StoppedProg, ClosedProg, TeardownSession, ClosedSfu,
       NoConn, NoPeer, Silent, Closed
<1>2. CASE Leave
  BY <1>2, ZenonT(40) DEF Leave, Left, StoppedProg, ClosedProg, TeardownSession, ClosedSfu,
       NoConn, NoPeer, Silent, Closed
<1>3. CASE StartMusic BY <1>3, ZenonT(40) DEF StartMusic
<1>4. CASE StopMusic BY <1>4, ZenonT(40) DEF StopMusic, Sent
<1>5. CASE ReleaseAll
  BY <1>5, ZenonT(40) DEF ReleaseAll, Pushed, PushState, ApplyRouting, Routed, Wired,
       MicSynced, DuckUpdated, Sent, StateMsg
<1>6. ASSUME NEW t \in Names, Press(t) PROVE IInv'
  BY <1>6, ZenonT(40) DEF Press, Pushed, PushState, ApplyRouting, Routed, Wired, MicSynced,
       DuckUpdated, Sent, StateMsg
<1>7. ASSUME NEW t \in Names, Release(t) PROVE IInv'
  BY <1>7, ZenonT(40) DEF Release, Pushed, PushState, ApplyRouting, Routed, Wired, MicSynced,
       DuckUpdated, Sent, StateMsg
<1>8. ASSUME NEW t \in Names, ToggleLatch(t) PROVE IInv'
  BY <1>8, ZenonT(40) DEF ToggleLatch, Pushed, PushState, ApplyRouting, Routed, Wired,
       MicSynced, DuckUpdated, Sent, StateMsg
<1>9. ASSUME NEW c \in Chans, SetListen(c) PROVE IInv'
  BY <1>9, ZenonT(40) DEF SetListen, Pushed, PushState, ApplyRouting, Routed, Wired,
       MicSynced, DuckUpdated, Sent, StateMsg
<1> QED BY <1>1, <1>2, <1>3, <1>4, <1>5, <1>6, <1>7, <1>8, <1>9 DEF User

\* What happens to the client.
LEMMA OutsideInv == ASSUME IInv, Outside PROVE IInv'
<1> USE DEF IInv, Shapes, SessionInv, DuckInv, RetryInv, HotOnlyWhileKeyed, KeyedIsFed,
         IfbDucks, SaidInv, OneFeed, IfbTalks, InSession, TalkSet, client, sending, hearing
<1>1. CASE BootRefused BY <1>1, ZenonT(40) DEF BootRefused
<1>2. CASE SocketDrops
  BY <1>2, ZenonT(40) DEF SocketDrops, SocketCloses, TeardownSession, ClosedSfu, NoConn,
       NoPeer, Silent, Closed
<1>3. CASE NetLost BY <1>3, ZenonT(40) DEF NetLost, Closed
<1>4. CASE Kick BY <1>4, ZenonT(40) DEF Kick, Tell
<1>5. CASE MicRefused BY <1>5, ZenonT(40) DEF MicRefused
<1>6. CASE RoomRefused
  BY <1>6, ZenonT(40) DEF RoomRefused, Fatal, TeardownSession, ClosedSfu, NoConn, NoPeer, Silent,
       Closed
<1>7. CASE RoomStalls BY <1>7, ZenonT(40) DEF RoomStalls
<1>8. CASE RoomGone BY <1>8, ZenonT(40) DEF RoomGone, CloseWs, Closed
<1>9. CASE OtherComes BY <1>9, ZenonT(40) DEF OtherComes, Other, Tell
<1>10. CASE OtherSpeaks BY <1>10, ZenonT(40) DEF OtherSpeaks, Other, Tell
<1>11. CASE OtherLeaves BY <1>11, ZenonT(40) DEF OtherLeaves, Tell
<1>12. CASE LinkBreaks BY <1>12, ZenonT(40) DEF LinkBreaks, Other, Tell
<1>13. CASE FeedFails BY <1>13, ZenonT(40) DEF FeedFails, Feed, FailedProg, ClosedProg
<1>14. ASSUME NEW r \in Rights, Edit(r) PROVE IInv'
  BY <1>14, ZenonT(40) DEF Edit, Tell
<1> QED
  BY <1>1, <1>2, <1>3, <1>4, <1>5, <1>6, <1>7, <1>8, <1>9, <1>10, <1>11, <1>12, <1>13, <1>14 DEF Outside

\* The client starts with nothing under way.
LEMMA InitInv == ASSUME Init PROVE IInv
<1>1. PICK h \in BOOLEAN :
        mesh = [roster |-> "no", talks |-> FALSE, said |-> FALSE, blank |-> FALSE,
                pc |-> "none", first |-> FALSE, on |-> FALSE, here |-> h, speaks |-> FALSE, far |-> "none"]
  BY DEF Init
<1>2. Shapes BY <1>1, ZenonT(40) DEF Init, Shapes, Closed, ClosedSfu, NoConn
<1>3. SessionInv /\ DuckInv /\ RetryInv
  BY <1>1, ZenonT(40) DEF Init, SessionInv, DuckInv, RetryInv, IfbTalks, Closed, NoConn
<1>4. HotOnlyWhileKeyed /\ KeyedIsFed /\ IfbDucks /\ SaidInv /\ OneFeed
  BY <1>1, ZenonT(40) DEF Init, HotOnlyWhileKeyed, KeyedIsFed, IfbDucks, SaidInv, OneFeed, InSession,
    TalkSet, ClosedSfu
<1> QED BY <1>2, <1>3, <1>4 DEF IInv

\* Every step, or none, preserves the invariant.
LEMMA NextInv == ASSUME IInv, [Next]_vars PROVE IInv'
<1>1. ASSUME Next PROVE IInv'
  <2>1. CASE Booted
    BY <2>1, ZenonT(40) DEF Booted, Closed, IInv, Shapes, SessionInv, DuckInv, RetryInv,
      HotOnlyWhileKeyed, KeyedIsFed, IfbDucks, SaidInv, OneFeed, IfbTalks, InSession, TalkSet,
      client, sending, hearing
  <2>2. CASE System
    BY <2>1, <2>2, SocketInv, RoomInv, SyncingInv, MusicalInv, LinkingInv, FeedingInv, MicrophoneInv
      DEF System
  <2> QED BY <1>1, <2>2, UserInv, OutsideInv DEF Next
<1>2. CASE UNCHANGED vars
  BY <1>2, ZenonT(40) DEF vars, IInv, Shapes, SessionInv, DuckInv, RetryInv, HotOnlyWhileKeyed,
    KeyedIsFed, IfbDucks, SaidInv, OneFeed, IfbTalks, InSession, TalkSet, sending, hearing
<1> QED BY <1>1, <1>2

LEMMA EngineInv == Spec => []IInv
BY InitInv, NextInv, PTL DEF Spec

-----------------------------------------------------------------------------
\* Whatever happens to keys, rights, rooms and tracks, and at whatever await of the client:
\* no track and no mesh link carries the microphone while its key is up (comms.ts
\* applyRouting, 1078; syncSfuTracks, 1007).
THEOREM HeardOnlyWhileKeyed == Spec => []HotOnlyWhileKeyed
<1>1. IInv => HotOnlyWhileKeyed BY DEF IInv
<1> QED BY EngineInv, <1>1, PTL

\* In any session a lit talk key has the microphone open or asked for, unless it was
\* refused: neither the delayed release nor a resumed session takes it away (comms.ts
\* syncMic, 361; openMic, 377).
THEOREM KeyedHasMicrophone == Spec => []KeyedIsFed
<1>1. IInv => KeyedIsFed BY DEF IInv
<1> QED BY EngineInv, <1>1, PTL

\* Whoever the server says talks on the IFB has the programme ducked, but for an entry that
\* a renewed offer made blank: no release that was started before him is left to bring it
\* back (comms.ts updateDuck, 1503; onSignal, 769).
THEOREM IfbIsNeverDrowned == Spec => []IfbCutsThrough
<1>1. IInv => IfbCutsThrough BY DEF IInv, IfbDucks, SaidInv, IfbTalks, IfbCutsThrough
<1> QED BY EngineInv, <1>1, PTL

\* The programme feed never has a connection and a retry at once, and neither after the
\* user has left (comms.ts closeProgPc, 1468; stopProgram, 1481).
THEOREM FeedIsSingle == Spec => []OneFeed
<1>1. IInv => OneFeed BY DEF IInv
<1> QED BY EngineInv, <1>1, PTL

-----------------------------------------------------------------------------
(* What is sent over the socket. *)

IsNet(w) == w = [ws |-> w.ws, up |-> w.up, down |-> w.down]

LEMMA SentFacts ==
  ASSUME NEW w, NEW m, IsNet(w)
  PROVE  /\ IsNet(Sent(w, m)) /\ Sent(w, m).ws = w.ws /\ Sent(w, m).down = w.down
         /\ Sent(w, m).up = IF w.ws = "open" THEN Append(w.up, m) ELSE w.up
BY Zenon DEF Sent, IsNet

LEMMA SignalFacts ==
  ASSUME NEW w, NEW m, IsNet(w)
  PROVE  /\ IsNet(Signal(w, m)) /\ Signal(w, m).ws = w.ws /\ Signal(w, m).down = w.down
         /\ Signal(w, m).up \in {w.up, Append(w.up, m)}
<1>1. Signal(w, m) = w \/ Signal(w, m) = Sent(w, m) BY Zenon DEF Signal
<1> QED BY <1>1, SentFacts

LEMMA TellFacts ==
  ASSUME NEW w, NEW m, IsNet(w)
  PROVE  /\ IsNet(Tell(w, m)) /\ Tell(w, m).ws = w.ws /\ Tell(w, m).up = w.up
         /\ Tell(w, m).down = IF w.ws = "open" THEN Append(w.down, m) ELSE w.down
BY Zenon DEF Tell, IsNet

LEMMA ReadFacts ==
  ASSUME NEW w, IsNet(w)
  PROVE  IsNet(Read(w)) /\ Read(w).ws = w.ws /\ Read(w).up = Tail(w.up) /\ Read(w).down = w.down
<1> DEFINE t == Tail(w.up)
<1>1. Read(w) = [w EXCEPT !.up = t] BY DEF Read
<1>2. ASSUME NEW u, NEW v, v = [w EXCEPT !.up = u]
      PROVE  IsNet(v) /\ v.up = u /\ v.ws = w.ws /\ v.down = w.down
  BY <1>2, Zenon DEF IsNet
<1> QED BY <1>1, <1>2

LEMMA GotFacts ==
  ASSUME NEW w, IsNet(w)
  PROVE  IsNet(Got(w)) /\ Got(w).ws = w.ws /\ Got(w).up = w.up /\ Got(w).down = Tail(w.down)
<1> DEFINE t == Tail(w.down)
<1>1. Got(w) = [w EXCEPT !.down = t] BY DEF Got
<1>2. ASSUME NEW u, NEW v, v = [w EXCEPT !.down = u]
      PROVE  IsNet(v) /\ v.down = u /\ v.ws = w.ws /\ v.up = w.up
  BY <1>2, Zenon DEF IsNet
<1> QED BY <1>1, <1>2

LEMMA ClosedFacts ==
  ASSUME NEW s
  PROVE  /\ IsNet(Closed(s)) /\ Closed(s).ws = s /\ Closed(s).up = <<>> /\ Closed(s).down = <<>>
BY Zenon DEF Closed, IsNet

\* What only speaks or only hears leaves the socket as it is.
LEMMA SocketStays ==
  ASSUME NEW w, IsNet(w),
         \/ net' \in {w, Got(w), Read(w)}
         \/ \E m : net' \in {Sent(w, m), Tell(w, m), Signal(w, m), Signal(Got(w), m),
                             Sent(Got(w), m), Tell(Read(w), m)}
         \/ \E m, q : net' = Sent(Sent(w, m), q)
  PROVE  net'.ws = w.ws
<1>1. CASE net' \in {w, Got(w), Read(w)} BY <1>1, ReadFacts, GotFacts
<1>2. ASSUME NEW m, net' \in {Sent(w, m), Tell(w, m), Signal(w, m)} PROVE net'.ws = w.ws
  BY <1>2, SentFacts, TellFacts, SignalFacts
<1>3. ASSUME NEW m, net' = Signal(Got(w), m) \/ net' = Sent(Got(w), m) PROVE net'.ws = w.ws
  <2>1. IsNet(Got(w)) /\ Got(w).ws = w.ws BY GotFacts
  <2> QED BY <1>3, <2>1, SentFacts, SignalFacts
<1>4. ASSUME NEW m, net' = Tell(Read(w), m) PROVE net'.ws = w.ws
  <2>1. IsNet(Read(w)) /\ Read(w).ws = w.ws BY ReadFacts
  <2> QED BY <1>4, <2>1, TellFacts
<1>5. ASSUME NEW m, NEW q, net' = Sent(Sent(w, m), q) PROVE net'.ws = w.ws
  <2>1. IsNet(Sent(w, m)) /\ Sent(w, m).ws = w.ws BY SentFacts
  <2> QED BY <1>5, <2>1, SentFacts
<1> QED BY <1>1, <1>2, <1>3, <1>4, <1>5

-----------------------------------------------------------------------------
(* The tracks that are published. *)

\* The channels the account may talk on, and direct.
Due == {"direct"} \cup keys.channels.talk

SyncShape ==
  /\ sync = [busy |-> sync.busy, live |-> sync.live, want |-> sync.want, drop |-> sync.drop,
             cur |-> sync.cur, waiting |-> sync.waiting]
  /\ sync.waiting \in Nat
  /\ sync.live => sync.busy
  /\ sync.cur # {} => sync.busy

\* There is a room only in a session with a media server, and only over a socket; one that
\* is gone takes the socket along.
RoomsInv ==
  /\ media # "sfu" => sfu.room = "none" /\ conn.at = "none"
  /\ conn.at = "room" => sfu.room = "connecting"
  /\ sfu.room # "none" => net.ws \in {"open", "lost", "closing"}
  /\ sfu.room = "gone" => net.ws = "closing"

\* A call of syncSfuTracks() that is under way in this room has read the rights as they
\* are, or another one waits; what it still has to do makes up the difference between the
\* tracks there are and those there should be.  One of an earlier room finds nothing.
TracksInv ==
  ~sfu.hurt /\ sfu.room # "gone" =>
    /\ ~sync.busy => sfu.tracks = sfu.gains
    /\ sync.live => /\ sfu.tracks = sfu.gains \ sync.cur
                    /\ sync.cur \subseteq sfu.gains \cap sync.want
                    /\ sync.drop = sfu.gains \ sync.want
    /\ sync.busy /\ ~sync.live => sfu.gains = {} /\ sfu.tracks = {}
    /\ ~sync.live => sfu.hot = sfu.gains \cap TalkSet(keys)
    /\ sfu.room \in {"up", "stalled"} /\ sync.waiting = 0 =>
         IF sync.busy THEN sync.live /\ sync.want = Due ELSE sfu.gains = Due

SyncInv == SyncShape /\ RoomsInv /\ TracksInv

\* Nothing happens to room, rights and keys.
LEMMA SyncIdle ==
  ASSUME IInv, SyncInv, UNCHANGED <<media, sync, sfu, keys>>,
         conn'.at \in {conn.at, "none", "music"}, media # "sfu" => conn'.at = conn.at,
         \/ net'.ws = net.ws
         \/ sfu.room = "none"
         \/ sfu.room # "gone" /\ net'.ws \in {"open", "lost", "closing"}
         \/ net'.ws = "closing"
  PROVE  SyncInv'
<1>1. SyncShape' BY DEF SyncInv, SyncShape
<1>2. RoomsInv' BY DEF SyncInv, RoomsInv
<1>3. TracksInv' BY DEF SyncInv, TracksInv, Due, TalkSet
<1> QED BY <1>1, <1>2, <1>3 DEF SyncInv

\* The keys change, and the routing with them.
LEMMA SyncRouted ==
  ASSUME IInv, SyncInv, NEW k, NEW e, ApplyRouting(k, sfu, e), k.channels = keys.channels,
         UNCHANGED <<media, sync, conn>>, net'.ws = net.ws
  PROVE  SyncInv'
<1>1. /\ keys' = k /\ sfu'.room = sfu.room /\ sfu'.gains = sfu.gains /\ sfu'.tracks = sfu.tracks
      /\ sfu'.hurt = sfu.hurt /\ sfu'.hot = sfu.gains \cap TalkSet(k)
  BY Zenon DEF ApplyRouting, Routed, IInv, Shapes
<1>2. SyncShape' BY DEF SyncInv, SyncShape
<1>3. RoomsInv' BY <1>1 DEF SyncInv, RoomsInv
<1>4. Due' = Due BY <1>1 DEF Due
<1>5. TracksInv' BY <1>1, <1>4, Zenon DEF SyncInv, TracksInv
<1> QED BY <1>2, <1>3, <1>5 DEF SyncInv

\* The session ends.
LEMMA SyncDown ==
  ASSUME IInv, SyncInv, UNCHANGED media, TeardownSession
  PROVE  SyncInv'
<1>1. /\ sfu'.room = "none" /\ sfu'.gains = {} /\ sfu'.tracks = {} /\ sfu'.hot = {}
      /\ conn'.at = "none"
  BY Zenon DEF TeardownSession, ClosedSfu, NoConn
<1>2. /\ sync' = [busy |-> sync.busy, live |-> FALSE, want |-> sync.want, drop |-> sync.drop,
                  cur |-> sync.cur, waiting |-> sync.waiting]
  BY Zenon DEF TeardownSession, DeadSync, SyncInv, SyncShape
<1>3. /\ sync'.busy = sync.busy /\ sync'.live = FALSE /\ sync'.cur = sync.cur
      /\ sync'.waiting = sync.waiting
  BY <1>2, Zenon
<1>4. SyncShape' BY <1>2, <1>3, Zenon DEF SyncInv, SyncShape
<1>5. RoomsInv' BY <1>1 DEF RoomsInv
<1>6. TracksInv'
  <2>1. {} = {} \cap TalkSet(keys)' OBVIOUS
  <2> QED BY <1>1, <1>3, <2>1, Zenon DEF TracksInv
<1> QED BY <1>4, <1>5, <1>6 DEF SyncInv

LEMMA SyncStarts == ASSUME IInv, SyncInv, SyncStart PROVE SyncInv'
<1>1. UNCHANGED <<media, keys, net>> /\ ~sync.busy /\ sync.waiting > 0 /\ sync.waiting \in Nat
  BY DEF SyncStart, client, SyncInv, SyncShape
<1>2. CASE sfu.room = "up"
  <2>1. /\ sync' = [busy |-> TRUE, live |-> TRUE, want |-> Due, drop |-> sfu.gains \ Due,
                    cur |-> {}, waiting |-> sync.waiting - 1]
        /\ UNCHANGED <<sfu, conn>>
    BY <1>2, Zenon DEF SyncStart, Due
  <2>2. /\ sync'.busy = TRUE /\ sync'.live = TRUE /\ sync'.want = Due /\ sync'.drop = sfu.gains \ Due
        /\ sync'.cur = {} /\ sync'.waiting = sync.waiting - 1
    BY <2>1, Zenon
  <2>3. SyncShape' BY <1>1, <2>1, <2>2 DEF SyncInv, SyncShape
  <2>4. RoomsInv' BY <1>1, <2>1 DEF SyncInv, RoomsInv
  <2>5. TracksInv' BY <1>1, <2>1, <2>2 DEF SyncInv, TracksInv, Due
  <2> QED BY <2>3, <2>4, <2>5 DEF SyncInv
<1>3. CASE sfu.room # "up"
  <2>1. /\ sync' = [busy |-> sync.busy, live |-> sync.live, want |-> sync.want, drop |-> sync.drop,
                    cur |-> sync.cur, waiting |-> sync.waiting - 1]
        /\ sfu' = [sfu EXCEPT !.hurt = @ \/ sfu.room = "stalled"]
        /\ conn'.at = conn.at
    BY <1>3, Zenon DEF SyncStart, Awaited, IInv, Shapes, SyncInv, SyncShape
  <2>2. /\ sync'.busy = sync.busy /\ sync'.live = sync.live /\ sync'.want = sync.want
        /\ sync'.drop = sync.drop /\ sync'.cur = sync.cur /\ sync'.waiting = sync.waiting - 1
    BY <2>1, Zenon
  <2>3. /\ sfu'.room = sfu.room /\ sfu'.gains = sfu.gains /\ sfu'.tracks = sfu.tracks
        /\ sfu'.hot = sfu.hot
        /\ ~sfu'.hurt => ~sfu.hurt /\ sfu.room # "stalled"
    BY <2>1, Zenon DEF IInv, Shapes
  <2>4. SyncShape' BY <1>1, <2>1, <2>2 DEF SyncInv, SyncShape
  <2>5. RoomsInv' BY <1>1, <2>1, <2>3 DEF SyncInv, RoomsInv
  <2>6. TracksInv' BY <1>1, <1>3, <2>2, <2>3, Zenon DEF SyncInv, TracksInv
  <2> QED BY <2>4, <2>5, <2>6 DEF SyncInv
<1> QED BY <1>2, <1>3

LEMMA SyncUnpublishes == ASSUME IInv, SyncInv, NEW x \in Names, SyncUnpublished(x) PROVE SyncInv'
<1>1. /\ UNCHANGED <<media, net, conn, keys>> /\ sync.busy /\ x \in sync.drop
      /\ sync' = [busy |-> sync.busy, live |-> sync.live, want |-> sync.want,
                  drop |-> sync.drop \ {x}, cur |-> sync.cur, waiting |-> sync.waiting]
  BY Zenon DEF SyncUnpublished, client, SyncInv, SyncShape
<1>2. /\ sync'.busy = sync.busy /\ sync'.live = sync.live /\ sync'.want = sync.want
      /\ sync'.drop = sync.drop \ {x} /\ sync'.cur = sync.cur /\ sync'.waiting = sync.waiting
  BY <1>1, Zenon
<1>3. /\ sfu'.room = sfu.room /\ sfu'.hurt = sfu.hurt
      /\ sfu'.gains = sfu.gains \ {x} /\ sfu'.hot = sfu.hot \ {x}
      /\ sfu'.tracks = IF sync.live THEN sfu.tracks \ {x} ELSE sfu.tracks
  BY Zenon DEF SyncUnpublished, IInv, Shapes
<1>4. SyncShape' BY <1>1, <1>2, Zenon DEF SyncInv, SyncShape
<1>5. RoomsInv' BY <1>1, <1>3, Zenon DEF SyncInv, RoomsInv
<1>6. TracksInv' BY <1>1, <1>2, <1>3 DEF SyncInv, TracksInv, Due
<1> QED BY <1>4, <1>5, <1>6 DEF SyncInv

LEMMA SyncAddsOne == ASSUME IInv, SyncInv, NEW x \in Names, SyncAdds(x) PROVE SyncInv'
<1>1. /\ UNCHANGED <<media, net, conn, keys>> /\ sync.busy
      /\ sync.drop = {} /\ sync.cur = {} /\ x \in sync.want \ sfu.gains
      /\ sync' = [busy |-> sync.busy, live |-> sync.live, want |-> sync.want,
                  drop |-> sync.drop, cur |-> {x}, waiting |-> sync.waiting]
  BY Zenon DEF SyncAdds, client, SyncInv, SyncShape
<1>2. /\ sync'.busy = sync.busy /\ sync'.live = sync.live /\ sync'.want = sync.want
      /\ sync'.drop = sync.drop /\ sync'.cur = {x} /\ sync'.waiting = sync.waiting
  BY <1>1, Zenon
<1>3. /\ sfu'.room = sfu.room /\ sfu'.gains = sfu.gains \cup {x} /\ sfu'.hot = sfu.hot
      /\ sfu'.tracks = sfu.tracks
      /\ ~sfu'.hurt => ~sfu.hurt /\ sync.live
  BY Zenon DEF SyncAdds, IInv, Shapes
<1>4. SyncShape' BY <1>1, <1>2, Zenon DEF SyncInv, SyncShape
<1>5. RoomsInv' BY <1>1, <1>3, Zenon DEF SyncInv, RoomsInv
<1>6. TracksInv' BY <1>1, <1>2, <1>3 DEF SyncInv, TracksInv, Due
<1> QED BY <1>4, <1>5, <1>6 DEF SyncInv

LEMMA SyncPublishes == ASSUME IInv, SyncInv, SyncPublished PROVE SyncInv'
<1>1. /\ UNCHANGED <<media, net, conn, keys>> /\ sync.cur # {} /\ sync.live
      /\ sync' = [busy |-> sync.busy, live |-> sync.live, want |-> sync.want,
                  drop |-> sync.drop, cur |-> {}, waiting |-> sync.waiting]
  BY Zenon DEF SyncPublished, client, SyncInv, SyncShape
<1>2. /\ sync'.busy = sync.busy /\ sync'.live = sync.live /\ sync'.want = sync.want
      /\ sync'.drop = sync.drop /\ sync'.cur = {} /\ sync'.waiting = sync.waiting
  BY <1>1, Zenon
<1>3. /\ sfu'.room = sfu.room /\ sfu'.gains = sfu.gains /\ sfu'.hot = sfu.hot
      /\ sfu'.tracks = sfu.tracks \cup sync.cur /\ sfu'.hurt = sfu.hurt
  BY Zenon DEF SyncPublished, IInv, Shapes
<1>4. SyncShape' BY <1>1, <1>2, Zenon DEF SyncInv, SyncShape
<1>5. RoomsInv' BY <1>1, <1>3, Zenon DEF SyncInv, RoomsInv
<1>6. TracksInv' BY <1>1, <1>2, <1>3 DEF SyncInv, SyncShape, TracksInv, Due
<1> QED BY <1>4, <1>5, <1>6 DEF SyncInv

LEMMA NoSyncFields ==
  ASSUME sync' = [NoSync EXCEPT !.waiting = sync.waiting], sync.waiting \in Nat
  PROVE  /\ SyncShape' /\ sync'.waiting = sync.waiting
         /\ sync'.busy = FALSE /\ sync'.live = FALSE
BY Zenon DEF NoSync, SyncShape

LEMMA SyncGivesUp == ASSUME IInv, SyncInv, SyncFails PROVE SyncInv'
<1>1. /\ UNCHANGED <<media, keys, net>> /\ sync.busy /\ conn'.at = conn.at
  BY Zenon DEF SyncFails, Awaited, client, IInv, Shapes, SyncInv, SyncShape
<1>2. SyncShape' /\ sync'.waiting = sync.waiting /\ sync'.busy = FALSE /\ sync'.live = FALSE
  BY NoSyncFields DEF SyncFails, SyncInv, SyncShape
<1>3. /\ sfu'.room = sfu.room /\ sfu'.gains = sfu.gains /\ sfu'.hot = sfu.hot
      /\ sfu'.tracks = sfu.tracks
      /\ ~sfu'.hurt => ~sfu.hurt /\ ~sync.live
  BY Zenon DEF SyncFails, IInv, Shapes
<1>4. RoomsInv' BY <1>1, <1>3, Zenon DEF SyncInv, RoomsInv
<1>5. TracksInv' BY <1>1, <1>2, <1>3, Zenon DEF SyncInv, TracksInv
<1> QED BY <1>2, <1>4, <1>5 DEF SyncInv

LEMMA SyncIsDone == ASSUME IInv, SyncInv, SyncEnds PROVE SyncInv'
<1>1. /\ UNCHANGED <<media, net>> /\ keys' = keys /\ sync.busy /\ conn'.at = conn.at
      /\ sync.drop = {} /\ sync.cur = {} /\ sync.want \subseteq sfu.gains
  BY Zenon DEF SyncEnds, ApplyRouting, Awaited, IInv, Shapes
<1>2. SyncShape' /\ sync'.waiting = sync.waiting /\ sync'.busy = FALSE /\ sync'.live = FALSE
  BY NoSyncFields DEF SyncEnds, SyncInv, SyncShape
<1>3. /\ sfu'.room = sfu.room /\ sfu'.gains = sfu.gains /\ sfu'.tracks = sfu.tracks
      /\ sfu'.hurt = sfu.hurt
      /\ sfu'.hot = IF sync.live THEN sfu.gains \cap TalkSet(keys) ELSE sfu.hot
  <2>1. CASE sync.live BY <2>1, Zenon DEF SyncEnds, ApplyRouting, Routed, IInv, Shapes
  <2>2. CASE ~sync.live BY <2>2, Zenon DEF SyncEnds
  <2> QED BY <2>1, <2>2
<1>4. RoomsInv' BY <1>1, <1>3, Zenon DEF SyncInv, RoomsInv
<1>5. TracksInv' BY <1>1, <1>2, <1>3 DEF SyncInv, TracksInv, Due
<1> QED BY <1>2, <1>4, <1>5 DEF SyncInv

\* The room connects, and the tracks are synced for the first time.
LEMMA SyncConnects == ASSUME IInv, SyncInv, RoomConnected PROVE SyncInv'
<1>1. /\ UNCHANGED <<media, net, keys>> /\ conn.at = "room" /\ conn'.at = "sync"
      /\ sync' = [busy |-> sync.busy, live |-> sync.live, want |-> sync.want, drop |-> sync.drop,
                  cur |-> sync.cur, waiting |-> sync.waiting + 1]
  BY Zenon DEF RoomConnected, client, SyncInv, SyncShape
<1>2. /\ sync'.busy = sync.busy /\ sync'.live = sync.live /\ sync'.want = sync.want
      /\ sync'.drop = sync.drop /\ sync'.cur = sync.cur /\ sync'.waiting = sync.waiting + 1
  BY <1>1, Zenon
<1>3. /\ sfu'.room = "up" /\ sfu'.gains = sfu.gains /\ sfu'.tracks = sfu.tracks
      /\ sfu'.hot = sfu.hot /\ sfu'.hurt = sfu.hurt
  BY Zenon DEF RoomConnected, IInv, Shapes
<1>4. sync.waiting \in Nat BY DEF SyncInv, SyncShape
<1>5. sync.waiting + 1 \in Nat /\ sync.waiting + 1 # 0 BY <1>4
<1>6. SyncShape' BY <1>1, <1>2, <1>5, Zenon DEF SyncInv, SyncShape
<1>7. RoomsInv'
  <2>1. media = "sfu" /\ sfu.room = "connecting" BY <1>1 DEF SyncInv, RoomsInv
  <2> QED BY <1>1, <1>3, <2>1 DEF SyncInv, RoomsInv
<1>8. TracksInv'
  <2>1. sfu.room = "connecting" BY <1>1 DEF SyncInv, RoomsInv
  <2> QED BY <1>1, <1>2, <1>3, <1>5, <2>1, Zenon DEF SyncInv, TracksInv
<1> QED BY <1>6, <1>7, <1>8 DEF SyncInv

\* The room stalls, is back, or is gone.
LEMMA SyncRoomShakes ==
  ASSUME IInv, SyncInv, RoomStalls \/ RoomBack \/ RoomGone
  PROVE  SyncInv'
<1>1. /\ UNCHANGED <<media, sync, conn, keys>> /\ sfu.room \in {"up", "stalled"}
      /\ sfu'.gains = sfu.gains /\ sfu'.hot = sfu.hot /\ sfu'.hurt = sfu.hurt
      /\ \/ sfu'.room \in {"up", "stalled"} /\ sfu'.tracks = sfu.tracks /\ UNCHANGED net
         \/ sfu'.room = "gone" /\ net' = CloseWs(net)
  <2>1. CASE RoomStalls BY <2>1, Zenon DEF RoomStalls, client, IInv, Shapes
  <2>2. CASE RoomBack BY <2>2, Zenon DEF RoomBack, client, IInv, Shapes
  <2>3. CASE RoomGone BY <2>3, Zenon DEF RoomGone, IInv, Shapes
  <2> QED BY <2>1, <2>2, <2>3
<1>3. SyncShape' BY <1>1 DEF SyncInv, SyncShape
<1>4. RoomsInv'
  <2>1. sfu.room # "none" /\ net.ws \in {"open", "lost", "closing"} /\ media = "sfu"
        /\ conn.at # "room"
    BY <1>1 DEF SyncInv, RoomsInv
  <2>2. CASE sfu'.room \in {"up", "stalled"} /\ UNCHANGED net
    BY <1>1, <2>1, <2>2 DEF RoomsInv
  <2>3. CASE sfu'.room = "gone" /\ net' = CloseWs(net)
    <3>1. net'.ws = "closing" BY <2>1, <2>3, ClosedFacts DEF CloseWs
    <3> QED BY <1>1, <2>1, <2>3, <3>1 DEF RoomsInv
  <2> QED BY <1>1, <2>2, <2>3
<1>5. TracksInv'
  <2>1. Due' = Due BY <1>1 DEF Due
  <2> QED BY <1>1, <2>1, Zenon DEF SyncInv, TracksInv
<1> QED BY <1>3, <1>4, <1>5 DEF SyncInv

\* A welcome: the room is joined again.
LEMMA SyncWelcomed ==
  ASSUME IInv, SyncInv, UNCHANGED media, NEW m, Welcome(m), net.ws = "open"
  PROVE  SyncInv'
<1> DEFINE s == [sfu EXCEPT !.room = IF media = "sfu" THEN "connecting" ELSE @]
<1>0. net'.ws = "open"
  <2>1. \E q : net' = Sent(Got(net), q) BY DEF Welcome
  <2> QED BY <2>1, SocketStays DEF IInv, Shapes, IsNet
<1>1. /\ sync' = sync /\ sfu' = Routed(s, keys')
      /\ conn' = IF media = "sfu" THEN [at |-> "room", wait |-> 0] ELSE conn
  BY Zenon DEF Welcome, ApplyRouting
<1>2. /\ sfu'.room = IF media = "sfu" THEN "connecting" ELSE sfu.room
      /\ sfu'.gains = sfu.gains /\ sfu'.tracks = sfu.tracks /\ sfu'.hurt = sfu.hurt
      /\ sfu'.hot = sfu.gains \cap TalkSet(keys')
  <2>1. s = [room |-> IF media = "sfu" THEN "connecting" ELSE sfu.room, gains |-> sfu.gains,
             hot |-> sfu.hot, tracks |-> sfu.tracks, hurt |-> sfu.hurt]
    <3>1. CASE media = "sfu"
      <4>1. s = [sfu EXCEPT !.room = "connecting"] BY <3>1
      <4> HIDE DEF s
      <4> QED BY <3>1, <4>1, Zenon DEF IInv, Shapes
    <3>2. CASE media # "sfu" BY <3>2, Zenon DEF IInv, Shapes
    <3> QED BY <3>1, <3>2
  <2> HIDE DEF s
  <2>2. sfu' = [room |-> IF media = "sfu" THEN "connecting" ELSE sfu.room, gains |-> sfu.gains,
             hot |-> sfu.gains \cap TalkSet(keys'), tracks |-> sfu.tracks, hurt |-> sfu.hurt]
    BY <1>1, <2>1, Zenon DEF Routed
  <2> QED BY <2>2, Zenon
<1>3. SyncShape' BY <1>1 DEF SyncInv, SyncShape
<1>4. RoomsInv' BY <1>0, <1>1, <1>2 DEF SyncInv, RoomsInv
<1>5. TracksInv'
  <2>1. sfu'.room \notin {"up", "stalled"} BY <1>2 DEF SyncInv, RoomsInv
  <2>2. sfu.room # "gone" BY DEF SyncInv, RoomsInv
  <2>3. TalkSet(keys)' = TalkSet(keys') OBVIOUS
  <2> QED BY <1>1, <1>2, <2>1, <2>2, <2>3, Zenon DEF SyncInv, TracksInv
<1> QED BY <1>3, <1>4, <1>5 DEF SyncInv

\* Other rights: the tracks are to be synced with them.
LEMMA SyncAdopted ==
  ASSUME IInv, SyncInv, UNCHANGED media, NEW m, Adopt(m), net.ws = "open"
  PROVE  SyncInv'
<1>0. net'.ws = "open" BY SocketStays DEF Adopt, IInv, Shapes, IsNet
<1>1. /\ conn' = conn /\ sfu' = Routed(sfu, keys')
      /\ sync' = IF media = "sfu" THEN [sync EXCEPT !.waiting = @ + 1] ELSE sync
  BY Zenon DEF Adopt, ApplyRouting
<1>2. /\ sfu'.room = sfu.room /\ sfu'.gains = sfu.gains /\ sfu'.tracks = sfu.tracks
      /\ sfu'.hurt = sfu.hurt /\ sfu'.hot = sfu.gains \cap TalkSet(keys')
  BY <1>1, Zenon DEF Routed, IInv, Shapes
<1>3. TalkSet(keys)' = TalkSet(keys') OBVIOUS
<1>4. RoomsInv' BY <1>0, <1>1, <1>2 DEF SyncInv, RoomsInv
<1>5. CASE media = "sfu"
  <2>1. sync' = [busy |-> sync.busy, live |-> sync.live, want |-> sync.want, drop |-> sync.drop,
                 cur |-> sync.cur, waiting |-> sync.waiting + 1]
    BY <1>1, <1>5, Zenon DEF SyncInv, SyncShape
  <2>2. /\ sync'.busy = sync.busy /\ sync'.live = sync.live /\ sync'.want = sync.want
        /\ sync'.drop = sync.drop /\ sync'.cur = sync.cur /\ sync'.waiting = sync.waiting + 1
    BY <2>1, Zenon
  <2>3. sync.waiting \in Nat BY DEF SyncInv, SyncShape
  <2>4. sync.waiting + 1 \in Nat /\ sync.waiting + 1 # 0 BY <2>3
  <2>5. SyncShape' BY <2>1, <2>2, <2>4, Zenon DEF SyncInv, SyncShape
  <2>6. TracksInv' BY <1>2, <1>3, <2>2, <2>4, Zenon DEF SyncInv, TracksInv
  <2> QED BY <1>4, <2>5, <2>6 DEF SyncInv
<1>6. CASE media # "sfu"
  <2>1. sfu.room = "none" /\ sync' = sync BY <1>1, <1>6 DEF SyncInv, RoomsInv
  <2>2. SyncShape' BY <2>1 DEF SyncInv, SyncShape
  <2>3. TracksInv' BY <1>2, <1>3, <2>1, Zenon DEF SyncInv, TracksInv
  <2> QED BY <1>4, <2>2, <2>3 DEF SyncInv
<1> QED BY <1>5, <1>6

\* onMessage().
LEMMA SyncHear == ASSUME IInv, SyncInv, Hear PROVE SyncInv'
<1> DEFINE m == Head(net.down)
<1>0. net.ws = "open" /\ UNCHANGED media /\ IsNet(net) BY DEF Hear, IInv, Shapes, IsNet
<1>1. CASE Welcome(m) BY <1>0, <1>1, SyncWelcomed
<1>2. CASE Adopt(m) BY <1>0, <1>2, SyncAdopted
<1>3. CASE Fatal BY <1>0, <1>3, SyncDown DEF Fatal
<1>4. CASE PeerJoins \/ PeerLeaves \/ GotAnswer
  <2>1. UNCHANGED <<keys, sfu, sync, conn>> /\ net' = Got(net)
    BY <1>4 DEF PeerJoins, PeerLeaves, GotAnswer, sending
  <2>2. net'.ws = net.ws BY <1>0, <2>1, SocketStays
  <2> QED BY <1>0, <2>1, <2>2, SyncIdle
<1>5. CASE PeerState(m)
  <2>1. net'.ws = net.ws BY <1>0, <1>5, SocketStays DEF PeerState
  <2> QED BY <1>0, <1>5, <2>1, SyncRouted DEF PeerState
<1>6. CASE GotOffer
  <2>1. net'.ws = net.ws
    <3>1. \E q : net' = Signal(Got(net), q) BY <1>6 DEF GotOffer
    <3> QED BY <1>0, <3>1, SocketStays
  <2> QED BY <1>0, <1>6, <2>1, SyncRouted DEF GotOffer
<1> QED BY <1>1, <1>2, <1>3, <1>4, <1>5, <1>6 DEF Hear

\* The socket, its retry and the server at its other end.
LEMMA SyncSocket == ASSUME IInv, SyncInv, Socket PROVE SyncInv'
<1>0. IsNet(net) BY DEF IInv, Shapes, IsNet
<1>1. CASE Hear BY <1>1, SyncHear
<1>2. CASE SocketClosed BY <1>2, SyncDown DEF SocketClosed, SocketCloses
<1>3. CASE Opened \/ Retry \/ PongTimeout
  <2>1. UNCHANGED <<media, sync, sfu, keys, conn>>
    BY <1>3 DEF Opened, Retry, PongTimeout, sending
  <2>2. \/ net' = net
        \/ net.ws \in {"none", "opening"}
        \/ net'.ws = "closing"
    <3>1. CASE Opened BY <3>1 DEF Opened
    <3>2. CASE Retry BY <3>2 DEF Retry, IInv, SessionInv
    <3>3. CASE PongTimeout BY <3>3, ClosedFacts DEF PongTimeout
    <3> QED BY <1>3, <3>1, <3>2, <3>3
  <2>3. net.ws \in {"none", "opening"} => sfu.room = "none" BY DEF SyncInv, RoomsInv
  <2> QED BY <2>1, <2>2, <2>3, SyncIdle
<1>4. CASE ServerHears \/ TokenReady
  <2>1. UNCHANGED <<media, sync, sfu, keys, conn>>
    BY <1>4 DEF ServerHears, TokenReady, sending
  <2>2. net' = Read(net) \/ \E q : net' \in {Tell(net, q), Tell(Read(net), q)}
    <3>1. CASE TokenReady BY <3>1 DEF TokenReady
    <3>2. CASE ServerHears
      BY <3>2, Zenon DEF ServerHears, HearJoin, HearState, HearMusic, HearOffer, HearAnswer
    <3> QED BY <1>4, <3>1, <3>2
  <2>3. net'.ws = net.ws BY <1>0, <2>2, SocketStays
  <2> QED BY <2>1, <2>3, SyncIdle
<1> QED BY <1>1, <1>2, <1>3, <1>4 DEF Socket

\* The room of the media server.
LEMMA SyncRoom == ASSUME IInv, SyncInv, Room PROVE SyncInv'
<1>0. IsNet(net) BY DEF IInv, Shapes, IsNet
<1>1. CASE ConnSynced
  <2>1. UNCHANGED <<media, sync, sfu, keys>> /\ media = "sfu"
    BY <1>1 DEF ConnSynced, SyncInv, RoomsInv
  <2>2. conn'.at \in {"none", "music"}
    <3>1. conn' = NoConn \/ \E a \in {"none", "music"} : conn' = [conn EXCEPT !.at = a]
      BY <1>1 DEF ConnSynced
    <3>2. NoConn.at = "none" BY DEF NoConn
    <3>3. ASSUME NEW a, conn' = [conn EXCEPT !.at = a] PROVE conn'.at = a
      BY <3>3, Zenon DEF IInv, Shapes
    <3> QED BY <3>1, <3>2, <3>3
  <2>3. net' = net \/ \E q : net' = Sent(net, q)
    BY <1>1, Zenon DEF ConnSynced, Announced
  <2>4. net'.ws = net.ws BY <1>0, <2>3, SocketStays
  <2> QED BY <2>1, <2>2, <2>4, SyncIdle
<1>2. CASE StallTimeout
  <2>1. UNCHANGED <<media, sync, sfu, keys, conn>> /\ net'.ws = "closing"
    BY <1>2, ClosedFacts DEF StallTimeout, CloseWs, sending
  <2> QED BY <2>1, SyncIdle
<1> QED BY <1>1, <1>2, SyncConnects, SyncRoomShakes DEF Room

LEMMA SyncSyncing == ASSUME IInv, SyncInv, Syncing PROVE SyncInv'
BY SyncStarts, SyncUnpublishes, SyncAddsOne, SyncPublishes, SyncGivesUp, SyncIsDone DEF Syncing

\* Music, which only speaks to the server.
LEMMA SyncMusical ==
  ASSUME IInv, SyncInv, Musical \/ StartMusic \/ StopMusic
  PROVE  SyncInv'
<1>0. IsNet(net) BY DEF IInv, Shapes, IsNet
<1>1. /\ UNCHANGED <<media, sync, sfu, keys>>
      /\ conn' \in {conn, NoConn}
  BY DEF Musical, StartMusic, StopMusic, CaptureReady, CaptureRefused, MusicPublished, MusicFails,
     client, hearing
<1>2. \/ net' = net
      \/ \E q : net' = Sent(net, q)
      \/ \E q, r : net' = Sent(Sent(net, q), r)
  <2>1. CASE CaptureReady BY <2>1, Zenon DEF CaptureReady, Announced
  <2>2. CASE CaptureRefused \/ StartMusic BY <2>2 DEF CaptureRefused, StartMusic, client
  <2>3. CASE StopMusic BY <2>3 DEF StopMusic
  <2>4. ASSUME NEW j \in Jobs, MusicPublished(j) PROVE \E q : net' = Sent(net, q)
    BY <2>4 DEF MusicPublished
  <2>5. ASSUME NEW j \in Jobs, MusicFails(j)
        PROVE  (\E q : net' = Sent(net, q)) \/ (\E q, r : net' = Sent(Sent(net, q), r))
    BY <2>5, Zenon DEF MusicFails
  <2> QED BY <2>1, <2>2, <2>3, <2>4, <2>5 DEF Musical
<1>3. net'.ws = net.ws BY <1>0, <1>2, SocketStays
<1>4. conn'.at \in {conn.at, "none"} BY <1>1 DEF NoConn
<1>5. media # "sfu" => conn'.at = conn.at BY <1>4 DEF SyncInv, RoomsInv
<1> QED BY <1>1, <1>3, <1>4, <1>5, SyncIdle

\* The mesh link, the programme feed and the microphone.
LEMMA SyncAside ==
  ASSUME IInv, SyncInv, 
         \/ Linking \/ Feeding \/ Microphone \/ MicRefused \/ BootRefused \/ OtherComes
         \/ OtherSpeaks \/ OtherLeaves \/ LinkBreaks \/ FeedFails \/ Kick
         \/ \E r \in Rights : Edit(r)
  PROVE  SyncInv'
<1>0. IsNet(net) BY DEF IInv, Shapes, IsNet
<1>1. /\ UNCHANGED <<media, sync, sfu, keys, conn>> /\ net'.ws = net.ws
  <2>1. CASE Linking
    BY <1>0, <2>1, SignalFacts, TellFacts
      DEF Linking, MakeOffer, PcFails, OtherOffers, FarFails, Other, client, sending
  <2>2. CASE Feeding \/ FeedFails
    BY <2>2 DEF Feeding, FeedFails, Gathered, WhepAnswers, FeedRetries, OldGathered, OldAnswered,
      DuckReleased, Feed, client, sending
  <2>3. CASE Microphone \/ MicRefused \/ BootRefused
    BY <2>3 DEF Microphone, MicOpened, MicLingered, MicRefused, BootRefused, sending
  <2>4. CASE OtherComes \/ OtherSpeaks \/ LinkBreaks
    BY <1>0, <2>4, TellFacts DEF OtherComes, OtherSpeaks, LinkBreaks, Other, sending
  <2>5. CASE OtherLeaves
    <3>1. PICK u, w : /\ w = [net EXCEPT !.up = u]
                      /\ net' = w \/ \E q : net' = Tell(w, q)
      BY <2>5, Zenon DEF OtherLeaves
    <3>2. IsNet(w) /\ w.ws = net.ws BY <1>0, <3>1, Zenon DEF IsNet
    <3>3. ASSUME NEW v, IsNet(v), v.ws = net.ws, net' = v \/ \E q : net' = Tell(v, q)
          PROVE  net'.ws = net.ws
      BY <3>3, TellFacts
    <3>4. net'.ws = net.ws BY <3>1, <3>2, <3>3
    <3> QED BY <2>5, <3>4 DEF OtherLeaves, sending
  <2>6. CASE Kick BY <1>0, <2>6, TellFacts DEF Kick, sending
  <2>7. ASSUME NEW r \in Rights, Edit(r)
        PROVE  UNCHANGED <<media, sync, sfu, keys, conn>> /\ net'.ws = net.ws
    <3>1. \E q : net' = Tell(net, q) BY <2>7 DEF Edit
    <3> QED BY <1>0, <2>7, <3>1, TellFacts DEF Edit, sending
  <2> QED BY <2>1, <2>2, <2>3, <2>4, <2>5, <2>6, <2>7
<1> QED BY <1>1, SyncIdle

\* The talk keys.
LEMMA SyncKeys == ASSUME IInv, SyncInv, NEW k, Pushed(k), k.channels = keys.channels PROVE SyncInv'
<1>1. net'.ws = net.ws BY SocketStays DEF Pushed, PushState, IInv, Shapes, IsNet
<1> QED BY <1>1, SyncRouted DEF Pushed, PushState

LEMMA SyncUser == ASSUME IInv, SyncInv, User PROVE SyncInv'
<1>1. CASE Join \/ Leave BY <1>1, SyncDown DEF Join, Leave, Left
<1>2. CASE StartMusic \/ StopMusic BY <1>2, SyncMusical
<1>3. CASE ReleaseAll
  <2>1. [keys EXCEPT !.held = {}].channels = keys.channels BY Zenon DEF IInv, Shapes
  <2> QED BY <1>3, <2>1, SyncKeys DEF ReleaseAll
<1>4. ASSUME NEW t \in Names, Press(t) \/ Release(t) \/ ToggleLatch(t) PROVE SyncInv'
  <2>1. ASSUME NEW s PROVE /\ [keys EXCEPT !.held = s].channels = keys.channels
                           /\ [keys EXCEPT !.latched = s].channels = keys.channels
    BY Zenon DEF IInv, Shapes
  <2>2. \E s : \E k \in {[keys EXCEPT !.held = s], [keys EXCEPT !.latched = s]} : Pushed(k)
    BY <1>4, Zenon DEF Press, Release, ToggleLatch
  <2> QED BY <2>1, <2>2, SyncKeys
<1>5. ASSUME NEW c \in Chans, SetListen(c) PROVE SyncInv'
  <2>1. ASSUME NEW s PROVE [keys EXCEPT !.listen = s].channels = keys.channels
    BY Zenon DEF IInv, Shapes
  <2> QED BY <1>5, <2>1, SyncKeys DEF SetListen
<1> QED BY <1>1, <1>2, <1>3, <1>4, <1>5 DEF User

LEMMA SyncOutside == ASSUME IInv, SyncInv, Outside PROVE SyncInv'
<1>1. CASE SocketDrops BY <1>1, SyncDown DEF SocketDrops, SocketCloses
<1>2. CASE RoomRefused BY <1>2, SyncDown DEF RoomRefused, Fatal
<1>3. CASE NetLost
  <2>1. UNCHANGED <<media, sync, sfu, keys, conn>> /\ net'.ws = "lost" /\ net.ws = "open"
    BY <1>3, ClosedFacts DEF NetLost, sending
  <2>2. sfu.room # "gone" BY <2>1 DEF SyncInv, RoomsInv
  <2> QED BY <2>1, <2>2, SyncIdle
<1> QED BY <1>1, <1>2, <1>3, SyncRoomShakes, SyncAside DEF Outside

LEMMA SyncInit == Init => SyncInv
<1> SUFFICES ASSUME Init PROVE SyncInv OBVIOUS
<1>1. SyncShape BY DEF Init, SyncShape, NoSync
<1>2. RoomsInv BY DEF Init, RoomsInv, ClosedSfu, NoConn
<1>3. TracksInv BY DEF Init, TracksInv, ClosedSfu, NoSync
<1> QED BY <1>1, <1>2, <1>3 DEF SyncInv

LEMMA SyncNext == ASSUME IInv, SyncInv, [Next]_vars PROVE SyncInv'
<1>1. CASE Booted
  <2>1. UNCHANGED <<media, sync, sfu, keys, conn>> /\ net.ws = "none"
    BY <1>1 DEF Booted, sending, IInv, SessionInv
  <2>2. sfu.room = "none" BY <2>1 DEF SyncInv, RoomsInv
  <2> QED BY <2>1, <2>2, SyncIdle
<1>2. CASE System /\ ~Booted
  BY <1>2, SyncSocket, SyncRoom, SyncSyncing, SyncMusical, SyncAside DEF System
<1>3. CASE UNCHANGED vars BY <1>3, SyncIdle DEF vars
<1> QED BY <1>1, <1>2, <1>3, SyncUser, SyncOutside DEF Next

LEMMA TracksFollow == Spec => []SyncInv
BY EngineInv, SyncInit, SyncNext, PTL DEF Spec

\* Once the room is joined and no call of syncSfuTracks() is left, exactly the channels the
\* account may talk on, and direct, are published, and those that are keyed are on:
\* whatever rights, keys, rooms and sessions did while the calls were waiting for their
\* turn or for the media server (comms.ts syncSfuTracks, 1007), in a session where no
\* publish failed.
THEOREM TracksAreAsAllowed == Spec => []PublishedAsAllowed
<1>1. SyncInv => PublishedAsAllowed
  BY DEF SyncInv, SyncShape, TracksInv, PublishedAsAllowed, Synced, Due
<1> QED BY TracksFollow, <1>1, PTL

-----------------------------------------------------------------------------
(* Music that is on. *)

IsSeq(s) == \E S : s \in Seq(S)

\* The joins among messages on their way to the server, and whether it will know of the
\* music once it has heard them all.
JoinsOf(up) == {i \in DOMAIN up : up[i].type = "join"}
Knows(up, known) ==
  \/ \E i \in DOMAIN up : /\ up[i] = MusicMsg(TRUE)
                          /\ \A j \in DOMAIN up : j > i => up[j].type # "music"
  \/ known /\ \A j \in DOMAIN up : up[j].type # "music"

PeerShape ==
  srv = [phase |-> srv.phase, talk |-> srv.talk, listen |-> srv.listen, music |-> srv.music,
         rights |-> srv.rights, told |-> srv.told, lapsed |-> srv.lapsed]
TxShape ==
  music = [tx |-> music.tx, pending |-> music.pending, leaked |-> music.leaked, pub |-> music.pub,
           track |-> music.track, jobs |-> music.jobs, hurt |-> music.hurt]

\* A join is the first thing said over a socket, before there is a room, and before the
\* server has anything to answer.
Greeting ==
  /\ JoinsOf(net.up) \subseteq {1}
  /\ sfu.room # "none" \/ srv.phase # "out" \/ net.down # <<>> => JoinsOf(net.up) = {}

Unknown == net.ws \in {"none", "opening"} => srv.phase = "out"
Entitled == ~mesh.here /\ (srv.lapsed \/ srv.rights.music)

\* Music that is on in a room whose tracks were synced is published, and the server knows of
\* it or will by what is on its way.
Sounding == /\ music.tx /\ music.jobs = {} /\ ~music.hurt
            /\ sfu.room \in {"up", "stalled"} /\ conn.at # "sync"
SoundInv ==
  Sounding =>
    /\ music.track
    /\ net.ws = "open" /\ srv.phase # "out" /\ ~srv.lapsed => Knows(net.up, srv.music)

MusicInv ==
  media = "sfu" => /\ PeerShape /\ TxShape /\ IsSeq(net.up)
                   /\ Greeting /\ Unknown /\ Entitled /\ SoundInv

\* What is said changes neither who joins nor, unless it is about music, what is known.
LEMMA AppendSeq ==
  ASSUME NEW s, NEW m, IsSeq(s)
  PROVE  /\ IsSeq(Append(s, m)) /\ Len(s) \in Nat /\ DOMAIN s = 1..Len(s)
         /\ Len(Append(s, m)) = Len(s) + 1 /\ DOMAIN Append(s, m) = 1..(Len(s) + 1)
         /\ \A i \in 1..Len(s) : Append(s, m)[i] = s[i]
         /\ Append(s, m)[Len(s) + 1] = m
<1>1. PICK S : s \in Seq(S) BY DEF IsSeq
<1> DEFINE T == S \cup {m}
<1>2. s \in Seq(T) BY <1>1, SeqDef
<1>3. Append(s, m) \in Seq(T) BY <1>2
<1>4. IsSeq(Append(s, m)) BY <1>3 DEF IsSeq
<1> QED BY <1>1, <1>4

LEMMA AppendJoins ==
  ASSUME NEW s, NEW m, IsSeq(s), m.type # "join"
  PROVE  JoinsOf(Append(s, m)) = JoinsOf(s)
BY AppendSeq DEF JoinsOf

LEMMA AppendKnows ==
  ASSUME NEW s, NEW m, NEW k, IsSeq(s), m.type # "music", Knows(s, k)
  PROVE  Knows(Append(s, m), k)
<1> DEFINE u == Append(s, m)
<1>1. /\ \A j \in DOMAIN u : (j \in DOMAIN s /\ u[j] = s[j]) \/ u[j] = m
      /\ \A j \in DOMAIN s : j \in DOMAIN u /\ u[j] = s[j]
  BY AppendSeq
<1> HIDE DEF u
<1>2. ASSUME k, \A j \in DOMAIN s : s[j].type # "music" PROVE Knows(u, k)
  BY <1>1, <1>2, Zenon DEF Knows
<1>3. ASSUME NEW i \in DOMAIN s, s[i] = MusicMsg(TRUE),
             \A j \in DOMAIN s : j > i => s[j].type # "music"
      PROVE  Knows(u, k)
  <2>1. i \in DOMAIN u /\ u[i] = MusicMsg(TRUE) BY <1>1, <1>3
  <2>2. ASSUME NEW j \in DOMAIN u, j > i PROVE u[j].type # "music"
    BY <1>1, <1>3, <2>2
  <2> QED BY <2>1, <2>2, Zenon DEF Knows
<1> QED BY <1>2, <1>3 DEF Knows, u

LEMMA AppendTold == ASSUME NEW s, NEW k, IsSeq(s) PROVE Knows(Append(s, MusicMsg(TRUE)), k)
<1>1. ASSUME NEW m, m = MusicMsg(TRUE) PROVE Knows(Append(s, m), k)
  <2>1. Len(s) + 1 \in DOMAIN Append(s, m) /\ Append(s, m)[Len(s) + 1] = m
    BY AppendSeq
  <2>2. \A j \in DOMAIN Append(s, m) : ~(j > Len(s) + 1) BY AppendSeq
  <2> QED BY <1>1, <2>1, <2>2, Zenon DEF Knows
<1> QED BY <1>1

LEMMA TailSeq ==
  ASSUME NEW s, IsSeq(s), s # <<>>
  PROVE  /\ IsSeq(Tail(s)) /\ Len(s) \in Nat \ {0} /\ DOMAIN s = 1..Len(s)
         /\ DOMAIN Tail(s) = 1..(Len(s) - 1)
         /\ \A i \in 1..(Len(s) - 1) : Tail(s)[i] = s[i + 1]
         /\ Head(s) = s[1]
<1>1. PICK S : s \in Seq(S) BY DEF IsSeq
<1>2. Tail(s) \in Seq(S) BY <1>1
<1>3. IsSeq(Tail(s)) BY <1>2 DEF IsSeq
<1> QED BY <1>1, <1>3

LEMMA TailJoins ==
  ASSUME NEW s, IsSeq(s), s # <<>>, JoinsOf(s) \subseteq {1}
  PROVE  JoinsOf(Tail(s)) = {}
<1>1. ASSUME NEW i \in DOMAIN Tail(s), Tail(s)[i].type = "join" PROVE FALSE
  <2>1. i \in 1..(Len(s) - 1) /\ i + 1 \in DOMAIN s /\ i + 1 # 1 /\ Tail(s)[i] = s[i + 1]
    BY TailSeq
  <2> QED BY <1>1, <2>1 DEF JoinsOf
<1> QED BY <1>1 DEF JoinsOf

LEMMA TailKnows ==
  ASSUME NEW s, NEW k, NEW l, IsSeq(s), s # <<>>, Knows(s, k),
         Head(s).type # "music" => l = k, Head(s).type = "music" => l = Head(s).on
  PROVE  Knows(Tail(s), l)
<1>0. \A j \in DOMAIN Tail(s) : j + 1 \in DOMAIN s /\ j + 1 > 1 /\ Tail(s)[j] = s[j + 1]
  BY TailSeq
<1>1. CASE k /\ \A j \in DOMAIN s : s[j].type # "music"
  <2>1. 1 \in DOMAIN s /\ Head(s) = s[1] BY TailSeq
  <2>2. l = k BY <1>1, <2>1
  <2>3. \A j \in DOMAIN Tail(s) : Tail(s)[j].type # "music" BY <1>0, <1>1
  <2> QED BY <1>1, <2>2, <2>3 DEF Knows
<1>2. ASSUME NEW i \in DOMAIN s, s[i] = MusicMsg(TRUE),
             \A j \in DOMAIN s : j > i => s[j].type # "music"
      PROVE  Knows(Tail(s), l)
  <2>1. CASE i = 1
    <3>1. Head(s).type = "music" /\ Head(s).on = TRUE BY <1>2, <2>1, TailSeq DEF MusicMsg
    <3>2. \A j \in DOMAIN Tail(s) : Tail(s)[j].type # "music" BY <1>0, <1>2, <2>1
    <3> QED BY <3>1, <3>2 DEF Knows
  <2>2. CASE i # 1
    <3>0. i - 1 \in 1..(Len(s) - 1) /\ (i - 1) + 1 = i BY <2>2, TailSeq
    <3>1. i - 1 \in DOMAIN Tail(s) /\ Tail(s)[i - 1] = MusicMsg(TRUE) BY <1>2, <3>0, TailSeq
    <3>2. \A j \in DOMAIN Tail(s) : j > i - 1 => Tail(s)[j].type # "music"
      BY <1>0, <1>2, TailSeq
    <3> QED BY <3>1, <3>2 DEF Knows
  <2> QED BY <2>1, <2>2
<1> QED BY <1>1, <1>2 DEF Knows

LEMMA EmptyFacts ==
  /\ IsSeq(<<>>) /\ JoinsOf(<<>>) = {}
  /\ \A k : Knows(<<>>, k) => k
<1>1. <<>> \in Seq({}) OBVIOUS
<1> QED BY <1>1 DEF IsSeq, JoinsOf, Knows

\* A message that is no join, said over the socket that is there.
LEMMA SpeechFacts ==
  ASSUME NEW w, NEW m, NEW v, IsNet(w), IsSeq(w.up), m.type # "join",
         v = Sent(w, m) \/ v = Signal(w, m)
  PROVE  /\ IsNet(v) /\ IsSeq(v.up) /\ JoinsOf(v.up) = JoinsOf(w.up)
         /\ v.ws = w.ws /\ v.down = w.down
<1>1. v.up \in {w.up, Append(w.up, m)} /\ IsNet(v) /\ v.ws = w.ws /\ v.down = w.down
  <2>1. CASE v = Sent(w, m) BY <2>1, SentFacts, Zenon
  <2>2. CASE v = Signal(w, m) BY <2>2, SignalFacts, Zenon
  <2> QED BY <2>1, <2>2
<1>2. CASE v.up = w.up BY <1>1, <1>2
<1>3. CASE v.up = Append(w.up, m) BY <1>1, <1>3, AppendSeq, AppendJoins
<1> QED BY <1>1, <1>2, <1>3

LEMMA SpeechKnows ==
  ASSUME NEW w, NEW m, NEW v, NEW k, IsNet(w), IsSeq(w.up), m.type # "music",
         v = Sent(w, m) \/ v = Signal(w, m), Knows(w.up, k)
  PROVE  Knows(v.up, k)
<1>1. v.up \in {w.up, Append(w.up, m)}
  <2>1. CASE v = Sent(w, m) BY <2>1, SentFacts, Zenon
  <2>2. CASE v = Signal(w, m) BY <2>2, SignalFacts, Zenon
  <2> QED BY <2>1, <2>2
<1> QED BY <1>1, AppendKnows

\* Over a socket that stays something is said or heard, and the server's end stays as it is.
LEMMA MusicSaid ==
  ASSUME IInv, SyncInv, MusicInv, media = "sfu", UNCHANGED <<media, srv>>, TxShape',
         mesh'.here = mesh.here,
         IsSeq(net'.up), JoinsOf(net'.up) = JoinsOf(net.up), net'.ws = net.ws,
         net'.down = net.down \/ net.down # <<>> \/ srv.phase # "out",
         sfu'.room = sfu.room \/ sfu.room # "none" \/ net.down # <<>>,
         \/ ~Sounding'
         \/ /\ Sounding /\ music'.track = music.track
            /\ Knows(net.up, srv.music) => Knows(net'.up, srv.music)
         \/ music'.track /\ (net.ws = "open" => Knows(net'.up, srv.music))
  PROVE  MusicInv'
<1>1. PeerShape' /\ IsSeq(net.up)' BY DEF MusicInv, PeerShape
<1>2. Greeting'
  <2>1. JoinsOf(net.up)' = JoinsOf(net.up) BY DEF JoinsOf
  <2> QED BY <2>1, Zenon DEF MusicInv, Greeting
<1>3. Unknown' /\ Entitled' BY Zenon DEF MusicInv, Unknown, Entitled
<1>4. SoundInv'
  <2>1. Knows(net.up, srv.music)' <=> Knows(net'.up, srv.music) BY DEF Knows
  <2> QED BY <2>1, Zenon DEF MusicInv, SoundInv
<1> QED BY <1>1, <1>2, <1>3, <1>4 DEF MusicInv

\* The socket is no longer open: nothing is on its way.
LEMMA MusicClosed ==
  ASSUME IInv, SyncInv, MusicInv, media = "sfu", media' = media, TxShape', PeerShape',
         mesh'.here = mesh.here, srv'.lapsed = srv.lapsed, srv'.rights = srv.rights,
         NEW s, s # "open", net' = Closed(s), s \in {"none", "opening"} => srv'.phase = "out",
         ~Sounding' \/ (Sounding /\ music'.track = music.track)
  PROVE  MusicInv'
<1>1. net'.ws = s /\ net'.up = <<>> BY ClosedFacts
<1>2. IsSeq(net.up)' /\ JoinsOf(net.up)' = {}
  <2>1. IsSeq(net'.up) /\ JoinsOf(net'.up) = {} BY <1>1, EmptyFacts
  <2> QED BY <2>1 DEF IsSeq, JoinsOf
<1>3. Greeting' BY <1>2, Zenon DEF Greeting
<1>4. Unknown' /\ Entitled' BY <1>1, Zenon DEF MusicInv, Unknown, Entitled
<1>5. SoundInv' BY <1>1, Zenon DEF MusicInv, SoundInv
<1> QED BY <1>2, <1>3, <1>4, <1>5 DEF MusicInv

\* Nothing that matters to music changes.
LEMMA MusicIdle ==
  ASSUME IInv, SyncInv, MusicInv, media = "sfu", UNCHANGED <<media, net, srv, music>>,
         mesh'.here = mesh.here, sfu'.room = sfu.room,
         conn'.at = conn.at \/ conn'.at = "sync"
  PROVE  MusicInv'
<1>1. Sounding' => Sounding BY Zenon DEF Sounding
<1>2. IsSeq(net'.up) /\ TxShape' BY DEF MusicInv, TxShape
<1> QED BY <1>1, <1>2, MusicSaid

\* The session ends at both ends.
LEMMA MusicDown ==
  ASSUME IInv, SyncInv, MusicInv, media = "sfu", media' = media, TeardownSession,
         srv' = Forgotten, net' = Closed("none"), 
         music' = DeadMusic \/ music' = StoppedMusic(DeadMusic)
  PROVE  MusicInv'
<1>1. mesh'.here = mesh.here BY Zenon DEF TeardownSession, NoPeer, Silent, IInv, Shapes
<1>2. PeerShape' /\ srv'.lapsed = srv.lapsed /\ srv'.rights = srv.rights /\ srv'.phase = "out"
  BY Zenon DEF Forgotten, MusicInv, PeerShape
<1>3. TxShape'
  <2>1. DeadMusic = [tx |-> DeadMusic.tx, pending |-> DeadMusic.pending, leaked |-> DeadMusic.leaked,
                     pub |-> DeadMusic.pub, track |-> DeadMusic.track, jobs |-> DeadMusic.jobs,
                     hurt |-> DeadMusic.hurt]
    <3>1. ASSUME NEW x, NEW js, 
                 x = [music EXCEPT !.pub = FALSE, !.track = FALSE, !.hurt = FALSE, !.jobs = js]
          PROVE  x = [tx |-> x.tx, pending |-> x.pending, leaked |-> x.leaked, pub |-> x.pub,
                      track |-> x.track, jobs |-> x.jobs, hurt |-> x.hurt]
      BY <3>1, Zenon DEF MusicInv, TxShape
    <3> QED BY <3>1 DEF DeadMusic
  <2>2. CASE music' = DeadMusic BY <2>1, <2>2 DEF TxShape
  <2>3. CASE music' = StoppedMusic(DeadMusic) BY <2>1, <2>3, Zenon DEF StoppedMusic, TxShape
  <2> QED BY <2>2, <2>3
<1>4. ~Sounding' BY DEF TeardownSession, ClosedSfu, Sounding
<1> QED BY <1>1, <1>2, <1>3, <1>4, MusicClosed

LEMMA SaidApart ==
  ASSUME NEW w, NEW m, IsNet(w), IsSeq(w.up), m.type \notin {"join", "music"},
         net' = Sent(w, m) \/ net' = Signal(w, m)
  PROVE  /\ IsSeq(net'.up) /\ JoinsOf(net'.up) = JoinsOf(w.up) /\ net'.ws = w.ws
         /\ net'.down = w.down
         /\ Knows(w.up, srv.music) => Knows(net'.up, srv.music)
<1>1. m.type # "join" /\ m.type # "music" OBVIOUS
<1>2. /\ IsSeq(net'.up) /\ JoinsOf(net'.up) = JoinsOf(w.up) /\ net'.ws = w.ws
      /\ net'.down = w.down
  BY <1>1, SpeechFacts
<1>3. Knows(w.up, srv.music) => Knows(net'.up, srv.music) BY <1>1, SpeechKnows
<1> QED BY <1>2, <1>3

\* Something else is said, or something heard, and room and music stay.
LEMMA MusicApart ==
  ASSUME IInv, SyncInv, MusicInv, media = "sfu", UNCHANGED <<media, srv, music>>,
         mesh'.here = mesh.here, sfu'.room = sfu.room, conn'.at = conn.at,
         NEW w, w = net \/ (w = Got(net) /\ net.down # <<>>),
         NEW m, m.type \notin {"join", "music"},
         \/ net' = w \/ net' = Sent(w, m) \/ net' = Signal(w, m)
         \/ net' = Tell(w, m) /\ srv.phase # "out"
  PROVE  MusicInv'
<1>0. IsNet(net) /\ IsSeq(net.up) /\ TxShape' BY DEF IInv, Shapes, IsNet, MusicInv, TxShape
<1>1. /\ IsNet(w) /\ IsSeq(w.up) /\ w.up = net.up /\ w.ws = net.ws
      /\ w.down = net.down \/ net.down # <<>>
  BY <1>0, GotFacts
<1>2. /\ IsSeq(net'.up) /\ JoinsOf(net'.up) = JoinsOf(net.up) /\ net'.ws = net.ws
      /\ Knows(net.up, srv.music) => Knows(net'.up, srv.music)
      /\ net'.down = w.down \/ srv.phase # "out"
  <2>1. CASE net' = w BY <1>1, <2>1
  <2>2. CASE net' = Sent(w, m) \/ net' = Signal(w, m)
    <3>1. /\ IsSeq(net'.up) /\ JoinsOf(net'.up) = JoinsOf(w.up) /\ net'.ws = w.ws
          /\ net'.down = w.down
          /\ Knows(w.up, srv.music) => Knows(net'.up, srv.music)
      BY <1>1, <2>2, SaidApart
    <3> QED BY <1>1, <3>1
  <2>3. CASE net' = Tell(w, m) /\ srv.phase # "out"
    <3>1. net'.up = w.up /\ net'.ws = w.ws BY <1>1, <2>3, TellFacts, Zenon
    <3> QED BY <1>1, <2>3, <3>1
  <2> QED BY <2>1, <2>2, <2>3
<1>3. Sounding' => Sounding BY Zenon DEF Sounding
<1> QED BY <1>0, <1>1, <1>2, <1>3, MusicSaid

\* onMessage().
LEMMA MusicHear == ASSUME IInv, SyncInv, MusicInv, media = "sfu", Hear PROVE MusicInv'
<1> DEFINE m == Head(net.down)
<1>0. net.ws = "open" /\ net.down # <<>> /\ UNCHANGED media BY DEF Hear
<1>1. CASE Welcome(m)
  <2>1. PICK k : /\ ApplyRouting(k, [sfu EXCEPT !.room = "connecting"], mesh)
                 /\ net' = Sent(Got(net), StateMsg(k)) /\ UNCHANGED <<srv, music>>
    BY <1>1 DEF Welcome
  <2>2. sfu'.room = "connecting" /\ mesh'.here = mesh.here
    BY <2>1, Zenon DEF ApplyRouting, Routed, Wired, IInv, Shapes
  <2>3. ~Sounding' BY <2>2 DEF Sounding
  <2>4. IsNet(Got(net)) /\ Got(net).up = net.up /\ Got(net).ws = net.ws /\ IsSeq(net.up)
    BY GotFacts DEF IInv, Shapes, IsNet, MusicInv
  <2>5. StateMsg(k).type # "join" BY DEF StateMsg
  <2>6. IsSeq(net'.up) /\ JoinsOf(net'.up) = JoinsOf(net.up) /\ net'.ws = net.ws
    BY <2>1, <2>4, <2>5, SpeechFacts
  <2>7. TxShape' BY <2>1 DEF MusicInv, TxShape
  <2> QED BY <1>0, <2>1, <2>2, <2>3, <2>6, <2>7, MusicSaid
<1>2. CASE Adopt(m)
  <2>1. /\ net' = Got(net) /\ UNCHANGED <<srv, conn>>
        /\ music' = music \/ music' = StoppedMusic(music)
    BY <1>2 DEF Adopt
  <2>2. sfu'.room = sfu.room /\ mesh'.here = mesh.here
    BY <1>2, Zenon DEF Adopt, ApplyRouting, Routed, Wired, IInv, Shapes
  <2>3. CASE music' = music
    <3>1. [type |-> "none"].type \notin {"join", "music"} OBVIOUS
    <3> QED BY <1>0, <2>1, <2>2, <2>3, <3>1, MusicApart
  <2>4. CASE music' = StoppedMusic(music)
    <3>1. TxShape' /\ ~music'.tx BY <2>4, Zenon DEF StoppedMusic, MusicInv, TxShape
    <3>2. net'.up = net.up /\ net'.ws = net.ws BY <2>1, GotFacts DEF IInv, Shapes, IsNet
    <3>3. ~Sounding' /\ IsSeq(net.up) BY <3>1 DEF Sounding, MusicInv
    <3> QED BY <1>0, <2>1, <2>2, <3>1, <3>2, <3>3, MusicSaid
  <2> QED BY <2>1, <2>3, <2>4
<1>3. CASE Fatal BY <1>0, <1>3, MusicDown DEF Fatal
<1>4. CASE PeerJoins \/ PeerLeaves \/ GotAnswer \/ PeerState(m)
  <2>1. UNCHANGED <<srv, music>> /\ net' = Got(net)
    BY <1>4 DEF PeerJoins, PeerLeaves, GotAnswer, PeerState, sending
  <2>2. mesh'.here = mesh.here /\ sfu'.room = sfu.room /\ conn'.at = conn.at
    <3>1. CASE PeerJoins BY <3>1, Zenon DEF PeerJoins, Silent, sending, IInv, Shapes
    <3>2. CASE PeerLeaves BY <3>2, Zenon DEF PeerLeaves, Silent, sending, IInv, Shapes
    <3>3. CASE GotAnswer BY <3>3, Zenon DEF GotAnswer, sending, IInv, Shapes
    <3>4. CASE PeerState(m)
      BY <3>4, Zenon DEF PeerState, ApplyRouting, Routed, Wired, IInv, Shapes
    <3> QED BY <1>4, <3>1, <3>2, <3>3, <3>4
  <2>3. [type |-> "none"].type \notin {"join", "music"} OBVIOUS
  <2> QED BY <1>0, <2>1, <2>2, <2>3, MusicApart
<1>5. CASE GotOffer
  <2>1. UNCHANGED <<srv, music, conn>> /\ net' = Signal(Got(net), [type |-> "answer"])
    BY <1>5 DEF GotOffer
  <2>2. mesh'.here = mesh.here /\ sfu'.room = sfu.room
    BY <1>5, Zenon DEF GotOffer, ApplyRouting, Routed, Wired, IInv, Shapes
  <2>3. [type |-> "answer"].type \notin {"join", "music"} OBVIOUS
  <2> QED BY <1>0, <2>1, <2>2, <2>3, MusicApart
<1> QED BY <1>1, <1>2, <1>3, <1>4, <1>5 DEF Hear

\* What the server hears: a join, the keys, music, a signal.
LEMMA MusicHeard == ASSUME IInv, SyncInv, MusicInv, media = "sfu", ServerHears PROVE MusicInv'
<1> DEFINE m == Head(net.up)
<1>0. /\ net.ws = "open" /\ net.up # <<>> /\ UNCHANGED <<media, sfu, conn, music>>
      /\ IsNet(net) /\ IsSeq(net.up) /\ TxShape'
  BY DEF ServerHears, sending, IInv, Shapes, IsNet, MusicInv, TxShape
<1>1. /\ PeerShape' /\ Entitled' /\ mesh'.here = mesh.here
      /\ m.type # "join" => srv'.lapsed = srv.lapsed
  <2>0. PeerShape /\ Entitled BY DEF MusicInv
  <2>1. CASE UNCHANGED <<srv, mesh>> BY <2>0, <2>1 DEF PeerShape, Entitled
  <2>2. CASE HearJoin /\ m.type = "join"
    <3>1. PICK p, t, l, d : srv' = [srv EXCEPT !.phase = p, !.told = t, !.listen = l, !.lapsed = d]
                            /\ d = ~srv.rights.music
      BY <2>2, Zenon DEF HearJoin
    <3>2. PeerShape' /\ srv'.lapsed = ~srv.rights.music /\ srv'.rights = srv.rights
      BY <2>0, <3>1, Zenon DEF PeerShape
    <3>3. UNCHANGED mesh BY <2>2 DEF HearJoin
    <3> QED BY <2>0, <2>2, <3>2, <3>3 DEF Entitled
  <2>3. CASE HearState(m)
    <3>1. PeerShape' /\ srv'.lapsed = srv.lapsed /\ srv'.rights = srv.rights /\ UNCHANGED mesh
      BY <2>0, <2>3, Zenon DEF HearState, PeerShape
    <3> QED BY <2>0, <3>1 DEF Entitled
  <2>4. CASE HearMusic(m)
    <3>1. PeerShape' /\ srv'.lapsed = srv.lapsed /\ srv'.rights = srv.rights /\ UNCHANGED mesh
      BY <2>0, <2>4, Zenon DEF HearMusic, PeerShape
    <3> QED BY <2>0, <3>1 DEF Entitled
  <2>5. CASE HearOffer
    <3>1. UNCHANGED srv /\ mesh'.here = mesh.here BY <2>5, Zenon DEF HearOffer, IInv, Shapes
    <3> QED BY <2>0, <3>1 DEF PeerShape, Entitled
  <2>6. CASE HearAnswer
    <3>1. UNCHANGED srv /\ mesh'.here = mesh.here BY <2>6, Zenon DEF HearAnswer, IInv, Shapes
    <3> QED BY <2>0, <3>1 DEF PeerShape, Entitled
  <2> QED BY <2>1, <2>2, <2>3, <2>4, <2>5, <2>6 DEF ServerHears
<1>2. net'.up = Tail(net.up) /\ net'.ws = net.ws
  <2>1. net' = Read(net) \/ \E q : net' = Tell(Read(net), q)
    BY Zenon DEF ServerHears, HearJoin, HearState, HearMusic, HearOffer, HearAnswer
  <2>2. IsNet(Read(net)) /\ Read(net).up = Tail(net.up) /\ Read(net).ws = net.ws
    BY <1>0, ReadFacts
  <2> QED BY <2>1, <2>2, TellFacts
<1>3. IsSeq(net.up)' /\ JoinsOf(net.up)' = {}
  <2>1. IsSeq(net'.up) /\ JoinsOf(net'.up) = {}
    BY <1>0, <1>2, TailSeq, TailJoins DEF MusicInv, Greeting
  <2> QED BY <2>1 DEF IsSeq, JoinsOf
<1>4. Greeting' BY <1>3, Zenon DEF Greeting
<1>5. Unknown' /\ Entitled' BY <1>0, <1>1, <1>2, Zenon DEF MusicInv, Unknown
<1>6. SoundInv'
  <2> SUFFICES ASSUME Sounding PROVE SoundInv'
    BY <1>0, Zenon DEF SoundInv, Sounding
  <2>1. music'.track BY <1>0 DEF MusicInv, SoundInv
  <2>2. JoinsOf(net.up) = {} BY DEF MusicInv, Greeting, Sounding
  <2>3. m.type # "join" BY <1>0, <2>2, TailSeq DEF JoinsOf
  <2>4. CASE srv.phase = "out"
    <3>1. srv' = srv BY <2>3, <2>4 DEF ServerHears
    <3> QED BY <2>1, <2>4, <3>1, Zenon DEF SoundInv
  <2>5. CASE srv.phase # "out" /\ ~srv.lapsed
    <3>1. /\ m.type # "music" => srv'.music = srv.music
          /\ m.type = "music" => srv'.music = m.on
      <4>1. CASE HearState(m) /\ m.type = "state"
        BY <4>1, Zenon DEF HearState, MusicInv, PeerShape
      <4>2. CASE HearMusic(m) /\ m.type = "music"
        <5>1. srv.rights.music BY <2>5 DEF MusicInv, Entitled
        <5>2. srv' = [srv EXCEPT !.music = m.on] BY <4>2, <5>1 DEF HearMusic
        <5> QED BY <4>2, <5>2, Zenon DEF MusicInv, PeerShape
      <4>3. CASE UNCHANGED srv /\ m.type # "music" BY <4>3
      <4> QED BY <2>3, <2>5, <4>1, <4>2, <4>3 DEF ServerHears, HearOffer, HearAnswer
    <3>2. Knows(net.up, srv.music) BY <1>0, <2>5, Zenon DEF MusicInv, SoundInv
    <3>3. Knows(net'.up, srv'.music) BY <1>0, <1>2, <3>1, <3>2, TailKnows
    <3>4. Knows(net.up, srv.music)' BY <3>3 DEF Knows
    <3> QED BY <2>1, <3>4, Zenon DEF SoundInv
  <2>6. CASE srv.lapsed BY <1>1, <2>1, <2>3, <2>6, Zenon DEF SoundInv
  <2> QED BY <2>4, <2>5, <2>6
<1> QED BY <1>0, <1>1, <1>3, <1>4, <1>5, <1>6 DEF MusicInv

\* The server tells its client something while the session is there.
LEMMA MusicServed ==
  ASSUME IInv, SyncInv, MusicInv, media = "sfu", UNCHANGED <<media, sfu, conn, music>>,
         mesh'.here = mesh.here, PeerShape', srv.phase # "out",
         NEW m, net' = Tell(net, m),
         srv'.lapsed \/ srv'.rights.music,
         srv'.phase = "out" \/ srv'.lapsed \/ (~srv.lapsed /\ (srv.music => srv'.music))
  PROVE  MusicInv'
<1>1. net'.up = net.up /\ net'.ws = net.ws /\ IsSeq(net.up) /\ TxShape'
  BY TellFacts DEF IInv, Shapes, IsNet, MusicInv, TxShape
<1>2. IsSeq(net.up)' /\ JoinsOf(net.up)' = {}
  <2>1. JoinsOf(net'.up) = {} BY <1>1 DEF MusicInv, Greeting
  <2> QED BY <1>1, <2>1 DEF IsSeq, JoinsOf
<1>3. Greeting' BY <1>2, Zenon DEF Greeting
<1>4. Unknown' /\ Entitled' BY <1>1, Zenon DEF MusicInv, Unknown, Entitled
<1>5. SoundInv'
  <2>1. Sounding' => Sounding BY Zenon DEF Sounding
  <2>2. (srv.music => srv'.music) => (Knows(net.up, srv.music) => Knows(net.up, srv.music)')
    <3>1. Knows(net.up, srv.music)' <=> Knows(net.up, srv'.music) BY <1>1 DEF Knows
    <3>2. ASSUME NEW u, NEW a, NEW b, a => b, Knows(u, a) PROVE Knows(u, b)
      BY <3>2, Zenon DEF Knows
    <3> QED BY <3>1, <3>2
  <2> QED BY <1>1, <2>1, <2>2, Zenon DEF MusicInv, SoundInv
<1> QED BY <1>1, <1>2, <1>3, <1>4, <1>5 DEF MusicInv

LEMMA SaidUp ==
  ASSUME IsNet(net), IsSeq(net.up), net' = Sent(net, MusicMsg(TRUE))
  PROVE  /\ IsSeq(net'.up) /\ JoinsOf(net'.up) = JoinsOf(net.up) /\ net'.ws = net.ws
         /\ net'.down = net.down
         /\ net.ws = "open" => Knows(net'.up, srv.music)
<1>1. MusicMsg(TRUE).type # "join" BY DEF MusicMsg
<1>2. /\ IsSeq(net'.up) /\ JoinsOf(net'.up) = JoinsOf(net.up) /\ net'.ws = net.ws
      /\ net'.down = net.down
  <2>1. PICK m : m = MusicMsg(TRUE) OBVIOUS
  <2>2. m.type # "join" /\ net' = Sent(net, m) BY <1>1, <2>1
  <2>3. IsSeq(net'.up) BY <2>2, SpeechFacts, Zenon
  <2>4. JoinsOf(net'.up) = JoinsOf(net.up)
    <3>1. JoinsOf(Sent(net, m).up) = JoinsOf(net.up) BY <2>2, SpeechFacts
    <3> QED BY <2>2, <3>1
  <2>5. net'.ws = net.ws /\ net'.down = net.down BY <2>2, SentFacts, Zenon
  <2> QED BY <2>3, <2>4, <2>5
<1>3. ASSUME net.ws = "open" PROVE Knows(net'.up, srv.music)
  <2>1. net'.up = Append(net.up, MusicMsg(TRUE)) BY <1>3, SentFacts, Zenon
  <2> QED BY <2>1, AppendTold
<1> QED BY <1>2, <1>3

\* Only music is spoken of, and it is not up yet, or no longer.
LEMMA MusicSpoken ==
  ASSUME IInv, SyncInv, MusicInv, media = "sfu", UNCHANGED <<media, srv, sfu, mesh>>, TxShape',
         ~Sounding',
         NEW a, NEW b, NEW w, w = Sent(net, MusicMsg(a)),
         net' \in {net, w, Sent(w, MusicMsg(b))}
  PROVE  MusicInv'
<1>0. IsNet(net) /\ IsSeq(net.up) BY DEF IInv, Shapes, IsNet, MusicInv
<1>1. MusicMsg(a).type # "join" /\ MusicMsg(b).type # "join" BY DEF MusicMsg
<1>2. /\ IsNet(w) /\ IsSeq(w.up) /\ JoinsOf(w.up) = JoinsOf(net.up) /\ w.ws = net.ws
      /\ w.down = net.down
  BY <1>0, <1>1, SpeechFacts
<1> DEFINE v == Sent(w, MusicMsg(b))
<1>3. /\ IsSeq(v.up) /\ JoinsOf(v.up) = JoinsOf(w.up) /\ v.ws = w.ws /\ v.down = w.down
  BY <1>1, <1>2, SpeechFacts
<1>4. net' \in {net, w, v} OBVIOUS
<1> HIDE DEF v
<1>5. /\ IsSeq(net'.up) /\ JoinsOf(net'.up) = JoinsOf(net.up) /\ net'.ws = net.ws
      /\ net'.down = net.down
  BY <1>0, <1>2, <1>3, <1>4
<1> QED BY <1>5, MusicSaid

\* publishMusic() up to its first await leaves music that is not up.
LEMMA PublishedLater ==
  ASSUME MusicInv, media = "sfu", NEW y, NEW from, NEW x, x = PublishMusic(y, from), music' = x,
         y = [tx |-> y.tx, pending |-> y.pending, leaked |-> y.leaked, pub |-> y.pub,
              track |-> y.track, jobs |-> y.jobs, hurt |-> y.hurt],
         UNCHANGED sfu
  PROVE  TxShape' /\ ~Sounding'
<1>1. CASE sfu.room = "up"
  <2>1. x = [y EXCEPT !.jobs = @ \cup {[live |-> TRUE, from |-> from]}, !.hurt = FALSE]
    BY <1>1 DEF PublishMusic
  <2>2. TxShape' /\ music'.jobs = y.jobs \cup {[live |-> TRUE, from |-> from]}
    BY <2>1, Zenon DEF TxShape
  <2> QED BY <2>2 DEF Sounding
<1>2. CASE sfu.room # "up"
  <2>1. x = [y EXCEPT !.hurt = sfu.room = "stalled"] BY <1>2 DEF PublishMusic
  <2>2. TxShape' /\ (sfu.room = "stalled" => music'.hurt)
    BY <2>1, Zenon DEF TxShape
  <2> QED BY <1>2, <2>2 DEF Sounding
<1> QED BY <1>1, <1>2

\* Music under way.
LEMMA MusicMusical ==
  ASSUME IInv, SyncInv, MusicInv, media = "sfu", Musical \/ StartMusic \/ StopMusic
  PROVE  MusicInv'
<1>0. IsNet(net) /\ IsSeq(net.up) /\ TxShape BY DEF IInv, Shapes, IsNet, MusicInv
<1>1. CASE CaptureReady
  <2> DEFINE y == [music EXCEPT !.pending = @ - 1, !.leaked = @ \/ music.tx, !.tx = TRUE]
            x == PublishMusic(y, "start")
  <2>1. /\ music' = x /\ net' = Announced(x, net) /\ UNCHANGED <<media, srv, sfu, mesh>>
    BY <1>1 DEF CaptureReady, hearing
  <2>2. y = [tx |-> y.tx, pending |-> y.pending, leaked |-> y.leaked, pub |-> y.pub,
             track |-> y.track, jobs |-> y.jobs, hurt |-> y.hurt]
    <3>1. ASSUME NEW p, NEW l, NEW v, v = [music EXCEPT !.pending = p, !.leaked = l, !.tx = TRUE]
          PROVE  v = [tx |-> v.tx, pending |-> v.pending, leaked |-> v.leaked, pub |-> v.pub,
                      track |-> v.track, jobs |-> v.jobs, hurt |-> v.hurt]
      BY <1>0, <3>1, Zenon DEF TxShape
    <3> QED BY <3>1
  <2>3. net' \in {net, Sent(net, MusicMsg(TRUE))} BY <2>1 DEF Announced
  <2> HIDE DEF y
  <2>4. TxShape' /\ ~Sounding' BY <2>1, <2>2, PublishedLater
  <2> QED BY <2>1, <2>3, <2>4, MusicSpoken
<1>2. CASE CaptureRefused
  <2>1. /\ UNCHANGED <<media, net, srv, sfu, conn, mesh>>
        /\ TxShape' /\ music'.tx = music.tx /\ music'.jobs = music.jobs /\ music'.hurt = music.hurt
        /\ music'.track = music.track
    BY <1>0, <1>2, Zenon DEF CaptureRefused, client, hearing, TxShape
  <2>2. Sounding' => Sounding BY <2>1, Zenon DEF Sounding
  <2> QED BY <1>0, <2>1, <2>2, MusicSaid
<1>3. ASSUME NEW j \in Jobs, MusicPublished(j) PROVE MusicInv'
  <2>1. /\ UNCHANGED <<media, srv, sfu, mesh>> /\ net' = Sent(net, MusicMsg(TRUE))
        /\ TxShape' /\ music'.track = TRUE
    BY <1>0, <1>3, Zenon DEF MusicPublished, hearing, TxShape
  <2>2. /\ IsSeq(net'.up) /\ JoinsOf(net'.up) = JoinsOf(net.up) /\ net'.ws = net.ws
        /\ net'.down = net.down
        /\ net.ws = "open" => Knows(net'.up, srv.music)
    BY <1>0, <2>1, SaidUp
  <2> QED BY <2>1, <2>2, MusicSaid
<1>4. ASSUME NEW j \in Jobs, MusicFails(j) PROVE MusicInv'
  <2>1. /\ UNCHANGED <<media, srv, sfu, mesh>>
        /\ music' = [StoppedMusic(music) EXCEPT !.jobs = @ \ {j}]
        /\ net' = Sent(IF music.tx THEN Sent(net, MusicMsg(FALSE)) ELSE net, MusicMsg(TRUE))
    BY <1>4 DEF MusicFails, hearing
  <2>2. TxShape' /\ ~music'.tx
    BY <1>0, <2>1, Zenon DEF StoppedMusic, TxShape
  <2>3. ~Sounding' BY <2>2 DEF Sounding
  <2>4. CASE music.tx
    <3>1. net' = Sent(Sent(net, MusicMsg(FALSE)), MusicMsg(TRUE)) BY <2>1, <2>4
    <3>2. ASSUME NEW a, NEW b, NEW w, w = Sent(net, MusicMsg(a)), net' = Sent(w, MusicMsg(b))
          PROVE  MusicInv'
      BY <2>1, <2>2, <2>3, <3>2, MusicSpoken
    <3> QED BY <3>1, <3>2
  <2>5. CASE ~music.tx
    <3>1. net' = Sent(net, MusicMsg(TRUE)) BY <2>1, <2>5
    <3> QED BY <2>1, <2>2, <2>3, <3>1, MusicSpoken
  <2> QED BY <2>4, <2>5
<1>5. CASE StopMusic
  <2>1. /\ UNCHANGED <<media, srv, sfu, mesh>> /\ net' = Sent(net, MusicMsg(FALSE))
    BY <1>5 DEF StopMusic, hearing
  <2>2. TxShape' /\ ~music'.tx BY <1>0, <1>5, Zenon DEF StopMusic, StoppedMusic, TxShape
  <2>3. ~Sounding' BY <2>2 DEF Sounding
  <2> QED BY <2>1, <2>2, <2>3, MusicSpoken
<1>6. CASE StartMusic
  <2>0. PeerShape /\ Greeting /\ Unknown /\ Entitled BY DEF MusicInv
  <2>1. UNCHANGED <<media, net, sfu, mesh>> /\ srv' = [srv EXCEPT !.lapsed = ~srv.rights.music]
    BY <1>6 DEF StartMusic, client, hearing
  <2>2. PICK d : srv' = [srv EXCEPT !.lapsed = d] /\ d = ~srv.rights.music BY <2>1
  <2>3. /\ PeerShape' /\ srv'.phase = srv.phase /\ srv'.rights = srv.rights
        /\ srv'.lapsed = ~srv.rights.music
    BY <2>0, <2>2, Zenon DEF PeerShape
  <2>4. TxShape' /\ ~music'.tx BY <1>0, <1>6, Zenon DEF StartMusic, StoppedMusic, TxShape
  <2>5. SoundInv' BY <2>4 DEF SoundInv, Sounding
  <2>6. IsSeq(net.up)' BY <1>0, <2>1 DEF IsSeq
  <2>7. Greeting' /\ Unknown' /\ Entitled'
    <3>1. JoinsOf(net.up)' = JoinsOf(net.up) BY <2>1 DEF JoinsOf
    <3>2. Greeting' BY <2>0, <2>1, <2>3, <3>1, Zenon DEF Greeting
    <3>3. Unknown' /\ Entitled' BY <2>0, <2>1, <2>3 DEF Unknown, Entitled
    <3> QED BY <3>2, <3>3
  <2> QED BY <2>3, <2>4, <2>5, <2>6, <2>7 DEF MusicInv
<1> QED BY <1>1, <1>2, <1>3, <1>4, <1>5, <1>6 DEF Musical

\* The room of the media server.
LEMMA MusicRoom ==
  ASSUME IInv, SyncInv, MusicInv, media = "sfu", Room \/ RoomStalls \/ RoomGone
  PROVE  MusicInv'
<1>0. IsNet(net) /\ IsSeq(net.up) /\ TxShape BY DEF IInv, Shapes, IsNet, MusicInv
<1>1. CASE RoomConnected
  <2>1. /\ UNCHANGED <<media, net, srv, music, mesh>> /\ conn.at = "room" /\ conn'.at = "sync"
    BY <1>1, Zenon DEF RoomConnected, client, hearing
  <2>2. sfu.room # "none" /\ ~Sounding' /\ TxShape'
    BY <1>0, <2>1 DEF SyncInv, RoomsInv, Sounding, TxShape
  <2> QED BY <1>0, <2>1, <2>2, MusicSaid
<1>2. CASE ConnSynced /\ music.tx
  <2> DEFINE y == [music EXCEPT !.pub = FALSE]
            x == PublishMusic(y, "conn")
  <2>1. /\ music' = x /\ net' = Announced(x, net) /\ UNCHANGED <<media, srv, sfu, mesh>>
    BY <1>2 DEF ConnSynced, hearing
  <2>2. y = [tx |-> y.tx, pending |-> y.pending, leaked |-> y.leaked, pub |-> y.pub,
             track |-> y.track, jobs |-> y.jobs, hurt |-> y.hurt]
    <3>1. ASSUME NEW v, v = [music EXCEPT !.pub = FALSE]
          PROVE  v = [tx |-> v.tx, pending |-> v.pending, leaked |-> v.leaked, pub |-> v.pub,
                      track |-> v.track, jobs |-> v.jobs, hurt |-> v.hurt]
      BY <1>0, <3>1, Zenon DEF TxShape
    <3> QED BY <3>1
  <2>3. net' \in {net, Sent(net, MusicMsg(TRUE))} BY <2>1 DEF Announced
  <2> HIDE DEF y
  <2>4. TxShape' /\ ~Sounding' BY <2>1, <2>2, PublishedLater
  <2> QED BY <2>1, <2>3, <2>4, MusicSpoken
<1>3. CASE ConnSynced /\ ~music.tx
  <2>1. UNCHANGED <<media, srv, sfu, mesh, music, net>> BY <1>3 DEF ConnSynced, hearing
  <2>2. TxShape' /\ ~Sounding' BY <1>0, <1>3, <2>1 DEF TxShape, Sounding
  <2> QED BY <2>1, <2>2, MusicSpoken
<1>4. CASE RoomBack \/ RoomStalls
  <2>1. UNCHANGED <<media, net, srv, music, mesh, conn>> /\ sfu.room \in {"up", "stalled"}
    BY <1>4 DEF RoomBack, RoomStalls, client, hearing
  <2>2. sfu.room # "none" /\ (Sounding' => Sounding) /\ TxShape'
    BY <1>0, <2>1, Zenon DEF Sounding, TxShape
  <2> QED BY <1>0, <2>1, <2>2, MusicSaid
<1>5. CASE RoomGone
  <2>1. /\ UNCHANGED <<media, srv, mesh, conn>> /\ net' = CloseWs(net)
        /\ sfu'.room = "gone" /\ TxShape' /\ sfu.room # "none"
    BY <1>0, <1>5, Zenon DEF RoomGone, hearing, TxShape, IInv, Shapes
  <2>2. ~Sounding' BY <2>1 DEF Sounding
  <2>3. PeerShape' BY <2>1 DEF MusicInv, PeerShape
  <2>4. CASE net' = Closed("closing") BY <2>1, <2>2, <2>3, <2>4, MusicClosed
  <2>5. CASE net' = net BY <1>0, <2>1, <2>2, <2>5, MusicSaid
  <2> QED BY <2>1, <2>4, <2>5 DEF CloseWs
<1>6. CASE StallTimeout
  <2>1. UNCHANGED <<media, srv, mesh, conn, sfu, music>> /\ net' = Closed("closing")
    BY <1>6 DEF StallTimeout, CloseWs, sending, hearing
  <2>2. PeerShape' /\ TxShape' /\ (Sounding' => Sounding)
    BY <1>0, <2>1, Zenon DEF MusicInv, PeerShape, TxShape, Sounding
  <2> QED BY <2>1, <2>2, MusicClosed
<1> QED BY <1>1, <1>2, <1>3, <1>4, <1>5, <1>6 DEF Room

\* The socket, its retry and the server at its other end.
LEMMA MusicSocket ==
  ASSUME IInv, SyncInv, MusicInv, media = "sfu", Socket \/ Booted
  PROVE  MusicInv'
<1>0. TxShape /\ PeerShape /\ Unknown BY DEF MusicInv
<1>1. CASE SocketClosed BY <1>1, MusicDown DEF SocketClosed, SocketCloses
<1>2. CASE Opened
  <2>1. /\ UNCHANGED <<media, srv, mesh, sfu, conn, music>> /\ net.ws = "opening"
        /\ net' = [ws |-> "open", up |-> <<[type |-> "join"]>>, down |-> <<>>]
    BY <1>2 DEF Opened, sending, hearing
  <2>2. sfu.room = "none" /\ srv.phase = "out"
    BY <1>0, <2>1 DEF Unknown, SyncInv, RoomsInv
  <2>3. /\ net'.ws = "open" /\ net'.up = <<[type |-> "join"]>> /\ net'.down = <<>> BY <2>1
  <2>4. IsSeq(net.up)' /\ JoinsOf(net.up)' \subseteq {1}
    <3>1. <<[type |-> "join"]>> \in Seq({[type |-> "join"]}) OBVIOUS
    <3>2. IsSeq(net'.up) BY <2>3, <3>1 DEF IsSeq
    <3>3. DOMAIN net'.up = {1} BY <2>3
    <3> QED BY <3>2, <3>3 DEF IsSeq, JoinsOf
  <2>5. Greeting' BY <2>1, <2>2, <2>3, <2>4, Zenon DEF Greeting
  <2>6. TxShape' /\ PeerShape' /\ Unknown' /\ Entitled' /\ SoundInv'
    <3>1. TxShape' /\ PeerShape' BY <1>0, <2>1 DEF TxShape, PeerShape
    <3>2. Unknown' /\ Entitled' BY <2>1, <2>2, Zenon DEF MusicInv, Unknown, Entitled
    <3>3. ~Sounding' BY <2>1, <2>2 DEF Sounding
    <3> QED BY <3>1, <3>2, <3>3 DEF SoundInv
  <2> QED BY <2>4, <2>5, <2>6 DEF MusicInv
<1>3. CASE Retry \/ Booted \/ PongTimeout
  <2>1. /\ UNCHANGED <<media, srv, mesh, sfu, conn, music>>
        /\ TxShape' /\ PeerShape' /\ (Sounding' => Sounding)
    <3>1. UNCHANGED <<media, srv, mesh, sfu, conn, music>>
      BY <1>3 DEF Retry, Booted, PongTimeout, sending, hearing
    <3> QED BY <1>0, <3>1, Zenon DEF TxShape, PeerShape, Sounding
  <2>2. CASE net' = net BY <2>1, <2>2, MusicIdle
  <2>3. CASE net' = Closed("closing") BY <2>1, <2>3, MusicClosed
  <2>4. CASE net' = Closed("opening") /\ net.ws = "none"
    <3>1. srv'.phase = "out" BY <1>0, <2>1, <2>4 DEF Unknown
    <3> QED BY <2>1, <2>4, <3>1, MusicClosed
  <2>5. net' = net \/ net' = Closed("closing") \/ (net' = Closed("opening") /\ net.ws = "none")
    BY <1>3 DEF Retry, Booted, PongTimeout, IInv, SessionInv
  <2> QED BY <2>2, <2>3, <2>4, <2>5
<1>4. CASE TokenReady
  <2>1. /\ UNCHANGED <<media, sfu, conn, music, mesh>> /\ srv.phase = "token"
        /\ srv' = [srv EXCEPT !.phase = "in", !.told = NoRights]
    BY <1>4 DEF TokenReady, sending, hearing
  <2>2. PeerShape' /\ srv'.lapsed = srv.lapsed /\ srv'.rights = srv.rights /\ srv'.music = srv.music
    BY <1>0, <2>1, Zenon DEF PeerShape
  <2>3. PICK m : net' = Tell(net, m) BY <1>4 DEF TokenReady
  <2>4. srv'.lapsed \/ srv'.rights.music BY <2>2 DEF MusicInv, Entitled
  <2> QED BY <2>1, <2>2, <2>3, <2>4, MusicServed
<1> QED BY <1>1, <1>2, <1>3, <1>4, MusicHear, MusicHeard DEF Socket

\* syncSfuTracks() does not touch music.
LEMMA MusicSyncing == ASSUME IInv, SyncInv, MusicInv, media = "sfu", Syncing PROVE MusicInv'
<1>1. CASE SyncStart
  <2>1. UNCHANGED <<media, net, srv, music, mesh>> BY <1>1 DEF SyncStart, client, hearing
  <2>2. sfu'.room = sfu.room /\ conn'.at = conn.at
    BY <1>1, Zenon DEF SyncStart, Awaited, IInv, Shapes
  <2> QED BY <2>1, <2>2, MusicIdle
<1>2. CASE SyncPublished
  <2>1. UNCHANGED <<media, net, srv, music, mesh, conn>> BY <1>2 DEF SyncPublished, client, hearing
  <2>2. sfu'.room = sfu.room BY <1>2, Zenon DEF SyncPublished, IInv, Shapes
  <2> QED BY <2>1, <2>2, MusicIdle
<1>3. CASE SyncFails
  <2>1. UNCHANGED <<media, net, srv, music, mesh>> BY <1>3 DEF SyncFails, client, hearing
  <2>2. sfu'.room = sfu.room /\ conn'.at = conn.at
    BY <1>3, Zenon DEF SyncFails, Awaited, IInv, Shapes
  <2> QED BY <2>1, <2>2, MusicIdle
<1>4. CASE SyncEnds
  <2>1. UNCHANGED <<media, net, srv, music>> /\ conn'.at = conn.at
    BY <1>4, Zenon DEF SyncEnds, Awaited, IInv, Shapes
  <2>2. sfu'.room = sfu.room /\ mesh'.here = mesh.here
    BY <1>4, Zenon DEF SyncEnds, ApplyRouting, Routed, Wired, IInv, Shapes
  <2> QED BY <2>1, <2>2, MusicIdle
<1>5. ASSUME NEW x \in Names, SyncUnpublished(x) \/ SyncAdds(x) PROVE MusicInv'
  <2>1. UNCHANGED <<media, net, srv, music, mesh, conn>>
    BY <1>5 DEF SyncUnpublished, SyncAdds, client, hearing
  <2>2. sfu'.room = sfu.room BY <1>5, Zenon DEF SyncUnpublished, SyncAdds, IInv, Shapes
  <2> QED BY <2>1, <2>2, MusicIdle
<1> QED BY <1>1, <1>2, <1>3, <1>4, <1>5 DEF Syncing

\* What is about the other participant, the programme or the microphone.
LEMMA MusicAside ==
  ASSUME IInv, SyncInv, MusicInv, media = "sfu", 
         \/ Linking \/ Feeding \/ Microphone \/ MicRefused \/ BootRefused \/ OtherComes
         \/ OtherSpeaks \/ OtherLeaves \/ LinkBreaks \/ FeedFails
  PROVE  MusicInv'
<1>0. UNCHANGED <<media, srv, sfu, conn, music>> /\ ~mesh.here
  <2>1. CASE Linking
    BY <2>1 DEF Linking, MakeOffer, PcFails, OtherOffers, FarFails, Other, client, sending,
       MusicInv, Entitled
  <2>2. CASE Feeding \/ FeedFails
    BY <2>2 DEF Feeding, FeedFails, Gathered, WhepAnswers, FeedRetries, OldGathered, OldAnswered,
       DuckReleased, Feed, client, sending, MusicInv, Entitled
  <2>3. CASE Microphone \/ MicRefused \/ BootRefused
    BY <2>3 DEF Microphone, MicOpened, MicLingered, MicRefused, BootRefused, sending,
       MusicInv, Entitled
  <2>4. CASE OtherComes \/ OtherSpeaks \/ OtherLeaves \/ LinkBreaks
    BY <2>4 DEF OtherComes, OtherSpeaks, OtherLeaves, LinkBreaks, Other, sending,
       MusicInv, Entitled
  <2> QED BY <2>1, <2>2, <2>3, <2>4
<1>1. CASE MakeOffer
  <2>1. mesh'.here = mesh.here BY <1>1, Zenon DEF MakeOffer, IInv, Shapes
  <2>2. [type |-> "offer"].type \notin {"join", "music"} OBVIOUS
  <2>3. net' = Signal(net, [type |-> "offer"]) BY <1>1 DEF MakeOffer
  <2> QED BY <1>0, <2>1, <2>2, <2>3, MusicApart
<1>2. CASE PcFails
  <2>1. UNCHANGED net BY <1>2 DEF PcFails, client
  <2>2. mesh'.here = mesh.here BY <1>2, Zenon DEF PcFails, Wired, IInv, Shapes
  <2> QED BY <1>0, <2>1, <2>2, MusicIdle
<1>3. CASE OtherOffers \/ FarFails \/ LinkBreaks
  <2>1. mesh'.here = mesh.here
    <3>1. CASE OtherOffers BY <3>1, Zenon DEF OtherOffers, Other, IInv, Shapes
    <3>2. CASE FarFails BY <3>2, Zenon DEF FarFails, Other, IInv, Shapes
    <3>3. CASE LinkBreaks BY <3>3, Zenon DEF LinkBreaks, Other, IInv, Shapes
    <3> QED BY <1>3, <3>1, <3>2, <3>3
  <2>2. CASE UNCHANGED net BY <1>0, <2>1, <2>2, MusicIdle
  <2>3. CASE srv.phase = "in" /\ net' = Tell(net, [type |-> "offer"])
    <3>1. [type |-> "offer"].type \notin {"join", "music"} OBVIOUS
    <3> QED BY <1>0, <2>1, <2>3, <3>1, MusicApart
  <2>4. UNCHANGED net \/ (srv.phase = "in" /\ net' = Tell(net, [type |-> "offer"]))
    BY <1>3 DEF OtherOffers, FarFails, LinkBreaks, Other
  <2> QED BY <2>2, <2>3, <2>4
<1>4. CASE OtherComes \/ OtherSpeaks \/ OtherLeaves
  BY <1>0, <1>4 DEF OtherComes, OtherSpeaks, OtherLeaves
<1>5. CASE Feeding \/ FeedFails \/ Microphone \/ MicRefused \/ BootRefused
  <2>1. UNCHANGED <<net, mesh>>
    BY <1>5 DEF Feeding, FeedFails, Gathered, WhepAnswers, FeedRetries, OldGathered, OldAnswered,
       DuckReleased, Feed, client, Microphone, MicOpened, MicLingered, MicRefused, BootRefused,
       hearing
  <2> QED BY <1>0, <2>1, MusicIdle
<1> QED BY <1>1, <1>2, <1>3, <1>4, <1>5 DEF Linking

\* What the user does.
LEMMA MusicUser == ASSUME IInv, SyncInv, MusicInv, media = "sfu", User PROVE MusicInv'
<1>1. CASE Join \/ Leave BY <1>1, MusicDown DEF Join, Leave, Left
<1>2. ASSUME NEW k, Pushed(k) PROVE MusicInv'
  <2>1. UNCHANGED <<media, srv, conn, music>> /\ net' = Sent(net, StateMsg(k))
    BY <1>2 DEF Pushed, PushState
  <2>2. sfu'.room = sfu.room /\ mesh'.here = mesh.here
    BY <1>2, Zenon DEF Pushed, PushState, ApplyRouting, Routed, Wired, IInv, Shapes
  <2>3. StateMsg(k).type \notin {"join", "music"} BY DEF StateMsg
  <2> QED BY <2>1, <2>2, <2>3, MusicApart
<1>3. CASE ReleaseAll BY <1>2, <1>3 DEF ReleaseAll
<1>4. ASSUME NEW t \in Names, Press(t) \/ Release(t) \/ ToggleLatch(t) PROVE MusicInv'
  <2>1. \E k : Pushed(k) BY <1>4, Zenon DEF Press, Release, ToggleLatch
  <2> QED BY <1>2, <2>1
<1>5. ASSUME NEW c \in Chans, SetListen(c) PROVE MusicInv'
  <2>1. \E k : Pushed(k) BY <1>5, Zenon DEF SetListen
  <2> QED BY <1>2, <2>1
<1> QED BY <1>1, <1>3, <1>4, <1>5, MusicMusical DEF User

\* What happens to the client.
LEMMA MusicOutside == ASSUME IInv, SyncInv, MusicInv, media = "sfu", Outside PROVE MusicInv'
<1>0. TxShape /\ PeerShape BY DEF MusicInv
<1>1. CASE SocketDrops BY <1>1, MusicDown DEF SocketDrops, SocketCloses
<1>2. CASE RoomRefused BY <1>2, MusicDown DEF RoomRefused, Fatal
<1>3. CASE NetLost
  <2>1. /\ UNCHANGED <<media, mesh, sfu, conn, music>> /\ net' = Closed("lost")
        /\ srv' = Forgotten
    BY <1>3 DEF NetLost, sending, hearing
  <2>2. PeerShape' /\ srv'.lapsed = srv.lapsed /\ srv'.rights = srv.rights
    BY <1>0, <2>1, Zenon DEF Forgotten, PeerShape
  <2>3. TxShape' /\ (Sounding' => Sounding)
    BY <1>0, <2>1, Zenon DEF TxShape, Sounding
  <2> QED BY <2>1, <2>2, <2>3, MusicClosed
<1>4. CASE Kick
  <2>1. /\ UNCHANGED <<media, mesh, sfu, conn, music>> /\ net' = Tell(net, [type |-> "error"])
        /\ srv' = Forgotten /\ srv.phase = "in"
    BY <1>4 DEF Kick, sending, hearing
  <2>2. PeerShape' /\ srv'.lapsed = srv.lapsed /\ srv'.rights = srv.rights /\ srv'.phase = "out"
    BY <1>0, <2>1, Zenon DEF Forgotten, PeerShape
  <2>3. srv'.lapsed \/ srv'.rights.music BY <2>2 DEF MusicInv, Entitled
  <2> QED BY <2>1, <2>2, <2>3, MusicServed
<1>5. ASSUME NEW r \in Rights, Edit(r) PROVE MusicInv'
  <2>1. UNCHANGED <<media, mesh, sfu, conn, music>> /\ srv.phase # "out"
    BY <1>5 DEF Edit, sending, hearing
  <2>2. PICK l, h, t : /\ srv' = [srv EXCEPT !.rights = r, !.lapsed = l, !.music = h, !.talk = t]
                       /\ l = (srv.lapsed \/ ~r.music) /\ h = (srv.music /\ r.music)
    BY <1>5, Zenon DEF Edit
  <2>4. PeerShape' /\ srv'.rights = r /\ srv'.lapsed = l /\ srv'.music = h
    BY <1>0, <2>2, Zenon DEF PeerShape
  <2>5. /\ srv'.lapsed \/ srv'.rights.music
        /\ srv'.lapsed \/ (~srv.lapsed /\ (srv.music => srv'.music))
    BY <2>2, <2>4, Zenon
  <2>3. PICK m : net' = Tell(net, m) BY <1>5 DEF Edit
  <2> QED BY <2>1, <2>3, <2>4, <2>5, MusicServed
<1> QED BY <1>1, <1>2, <1>3, <1>4, <1>5, MusicRoom, MusicAside DEF Outside

\* The kind of media is never changed.
LEMMA MediaStays == ASSUME [Next]_vars PROVE media' = media
<1>1. CASE Socket
  BY <1>1 DEF Socket, Opened, SocketClosed, SocketCloses, PongTimeout, Retry, ServerHears,
     TokenReady, Hear
<1>2. CASE Room BY <1>2 DEF Room, RoomConnected, ConnSynced, RoomBack, StallTimeout
<1>3. CASE Syncing
  BY <1>3 DEF Syncing, SyncStart, SyncPublished, SyncFails, SyncEnds, SyncUnpublished, SyncAdds
<1>4. CASE Musical BY <1>4 DEF Musical, CaptureReady, CaptureRefused, MusicPublished, MusicFails
<1>5. CASE Linking BY <1>5 DEF Linking, MakeOffer, PcFails, OtherOffers, FarFails, Other
<1>6. CASE Feeding
  BY <1>6 DEF Feeding, Gathered, WhepAnswers, FeedRetries, OldGathered, OldAnswered, DuckReleased,
     Feed
<1>7. CASE Microphone \/ Booted BY <1>7 DEF Microphone, MicOpened, MicLingered, Booted
<1>8. CASE User
  BY <1>8 DEF User, Join, Leave, StartMusic, StopMusic, ReleaseAll, Press, Release, ToggleLatch,
     SetListen, Pushed
<1>9. CASE Outside
  BY <1>9 DEF Outside, BootRefused, SocketDrops, SocketCloses, NetLost, Kick, MicRefused, RoomRefused,
     RoomStalls, RoomGone, OtherComes, OtherSpeaks, OtherLeaves, LinkBreaks, Other, FeedFails, Feed,
     Edit
<1>10. CASE UNCHANGED vars BY <1>10 DEF vars
<1> QED BY <1>1, <1>2, <1>3, <1>4, <1>5, <1>6, <1>7, <1>8, <1>9, <1>10 DEF Next, System

LEMMA MusicInit == ASSUME Init PROVE MusicInv
<1> SUFFICES ASSUME media = "sfu" PROVE MusicInv BY DEF MusicInv
<1>1. ~mesh.here
  <2>1. PICK h \in BOOLEAN : (h => media = "mesh") /\
          mesh = [roster |-> "no", talks |-> FALSE, said |-> FALSE, blank |-> FALSE,
                  pc |-> "none", first |-> FALSE, on |-> FALSE, here |-> h, speaks |-> FALSE, far |-> "none"]
    BY DEF Init
  <2> QED BY <2>1, Zenon
<1>2. PeerShape /\ srv.phase = "out" /\ srv.rights.music
  <2>1. PICK t, b : /\ b = TRUE
                    /\ srv = [phase |-> "out", talk |-> {}, listen |-> {}, music |-> FALSE,
                           told |-> NoRights, rights |-> [talk |-> t, music |-> b], lapsed |-> FALSE]
    BY DEF Init
  <2> QED BY <2>1, Zenon DEF PeerShape
<1>3. TxShape /\ ~music.tx BY Zenon DEF Init, TxShape
<1>4. net.up = <<>> /\ net.ws = "none" BY ClosedFacts DEF Init
<1>5. IsSeq(net.up) /\ JoinsOf(net.up) = {} BY <1>4, EmptyFacts
<1> QED BY <1>1, <1>2, <1>3, <1>5 DEF MusicInv, Greeting, Unknown, Entitled, SoundInv, Sounding

LEMMA MusicNext == ASSUME IInv, SyncInv, MusicInv, [Next]_vars PROVE MusicInv'
<1>1. CASE media # "sfu" BY <1>1, MediaStays DEF MusicInv
<1>2. CASE media = "sfu" /\ UNCHANGED vars BY <1>2, MusicIdle DEF vars
<1>3. CASE media = "sfu" /\ System
  BY <1>3, MusicSocket, MusicRoom, MusicSyncing, MusicMusical, MusicAside DEF System
<1> QED BY <1>1, <1>2, <1>3, MusicUser, MusicOutside DEF Next

LEMMA MusicFollows == Spec => []MusicInv
BY EngineInv, TracksFollow, MusicInit, MusicNext, PTL DEF Spec

\* Music that is on in a room whose tracks are synced is published there, and once the
\* server has heard all that was said, it is announced too: however its start, its
\* publishing, the rooms, the sessions and the edits of the account followed each other
\* (comms.ts connectSfu, 985; publishMusic; startMusic).  Two states are excepted, named in
\* the property: the account was without the right to send music since START or since the
\* session began, or the last publish found the room stalled and did nothing.
THEOREM MusicComesBack == Spec => []MusicIsRestored
<1>1. SyncInv /\ MusicInv => MusicIsRestored
  <2> SUFFICES ASSUME SyncInv, MusicInv, Synced, ~srv.lapsed, ~music.hurt, music.tx,
                      music.jobs = {}, net.ws = "open", srv.phase = "in", net.up = <<>>
               PROVE  music.track /\ srv.music
    BY DEF MusicIsRestored, MusicAtRest
  <2>1. media = "sfu" /\ Sounding BY DEF SyncInv, RoomsInv, Synced, Sounding
  <2>2. music.track /\ Knows(net.up, srv.music) BY <2>1, Zenon DEF MusicInv, SoundInv
  <2> QED BY <2>2, EmptyFacts
<1> QED BY TracksFollow, MusicFollows, <1>1, PTL
=============================================================================
