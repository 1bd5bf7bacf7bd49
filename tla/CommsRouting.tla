---------------------------- MODULE CommsRouting ----------------------------
(***************************************************************************)
(* Who hears whom in the comms server (src/comms/server/server.js) when    *)
(* media goes through the SFU (LiveKit).  The server keeps, per connected  *)
(* peer, its rights, what it listens to and whom it calls; a serial chain  *)
(* of reconcile passes per listener turns that into updateSubscriptions    *)
(* calls to LiveKit, each of which is awaited and may fail.                *)
(*                                                                         *)
(* One action per message handler, timer callback, awaited answer and      *)
(* microtask.  Node.js runs a pass that is ready (a microtask) before any  *)
(* further message or timer: Settled is the guard of everything else.      *)
(* LiveKit and the clients' media side are external: modelled from the way *)
(* the server and comms.ts use them.                                       *)
(***************************************************************************)
EXTENDS Naturals

CONSTANTS Conns,      \* connection ids; a reconnecting client gets a new one
          Chans,      \* channel ids of the directory
          Sids,       \* LiveKit track ids: a new one for every publication
          Owner,      \* Owner[s]: the connection that publishes s, or Player
          TrackKind,  \* TrackKind[s]: "direct", "ch" or "music" (its name's prefix)
          TrackChan,  \* TrackChan[s]: the channel in the track's name
          Player,     \* the server player as a publisher
          Gateways,   \* connections of gateway apps: nobody can call them directly
          InitRights, \* the directory before the first edit: [Conns -> [Chans -> rights]]
          InitKind,   \* and the kind of every channel
          Grants,     \* the sets of rights an edit may give
          ChanKinds,  \* the kinds an edit may give a channel
          FaultKinds, \* which disturbances may happen: subset of Disturbances
          MaxFaults,  \* bound: nothing is disturbed any more once one happened this often
          MaxOps,     \* bound: user operations and directory edits
          MaxQueue,   \* bound: reconcile passes waiting for one listener
          ListCalls   \* bound: the listTracks calls of one publisher in flight at once

Rights == {"talk", "listen", "music"}
Kinds == {"talk", "music", "withMusic"}
\* A call to LiveKit fails without effect or after it took effect, a track list
\* cannot be read, LiveKit loses a subscription.
Disturbances == {"call", "reply", "list", "lost"}

ASSUME RoutingAssumption ==
  /\ Player \notin Conns
  /\ Owner \in [Sids -> Conns \cup {Player}]
  /\ TrackKind \in [Sids -> {"direct", "ch", "music"}]
  /\ TrackChan \in [Sids -> Chans]
  /\ \A s \in Sids : Owner[s] = Player => TrackKind[s] = "music"
  /\ Gateways \subseteq Conns
  /\ InitRights \in [Conns -> [Chans -> SUBSET Rights]]
  /\ InitKind \in [Chans -> Kinds]
  /\ Grants \subseteq SUBSET Rights
  /\ ChanKinds \subseteq Kinds
  /\ FaultKinds \subseteq Disturbances
  /\ {MaxFaults, MaxOps, MaxQueue} \subseteq Nat

VARIABLES
  peers,      \* the `peers` map: ids of the connected peers
  gone,       \* connections that were closed (ids are never used again)
  perms,      \* perms[p][c]: what p may do on c (directory.effective)
  kind,       \* kind[c]: talk channel, music-only channel, or talk with music
  direct,     \* direct[p]: the `u:<id>` entries of p.talk
  listen,     \* p.listen
  musicOn,    \* p.musicOn
  tracks,     \* the sids of p.tracks, as last read back from LiveKit
  subs,       \* p.subs: what the server believes p is subscribed to
  queue,      \* reconcile passes of p's chain not yet started
  pass,       \* the pass of p's chain that awaits LiveKit
  lists,      \* lists[p][k]: listTracks call k for p, if in flight
  onAir,      \* tracks of the server player that are playing
  healTick,   \* healTick % 3
  inRoom,     \* LiveKit: participants connected to the room
  published,  \* LiveKit: tracks published now
  used,       \* LiveKit: track ids ever given out
  actual,     \* LiveKit: actual[p], the tracks p is subscribed to
  announce,   \* clients with a `tracks` message to send or in transit
  lost,       \* history: tracks that went out of p.tracks while still published
  ops,        \* operations and edits so far
  faults      \* disturbances so far, by kind

server == <<peers, gone, perms, kind, direct, listen, musicOn, lost>>
chain  == <<tracks, subs, queue, pass, lists, onAir, healTick>>
media  == <<inRoom, published, used, actual, announce>>
vars   == <<server, chain, media, ops, faults>>

Pass == [phase : {"idle", "add", "drop"}, want : SUBSET Sids, add : SUBSET Sids,
         drop : SUBSET Sids, applied : BOOLEAN]
ListCall == [phase : {"free", "sent", "answered"}, sids : SUBSET Sids]
Idle == [phase |-> "idle", want |-> {}, add |-> {}, drop |-> {}, applied |-> FALSE]
NoCall == [phase |-> "free", sids |-> {}]

TypeOK ==
  /\ peers \subseteq Conns /\ gone \subseteq Conns /\ peers \cap gone = {}
  /\ perms \in [Conns -> [Chans -> SUBSET Rights]]
  /\ kind \in [Chans -> Kinds]
  /\ direct \in [Conns -> SUBSET Conns]
  /\ listen \in [Conns -> SUBSET Chans]
  /\ musicOn \in [Conns -> SUBSET Chans]
  /\ tracks \in [Conns -> SUBSET Sids]
  /\ subs \in [Conns -> SUBSET Sids]
  /\ queue \in [Conns -> Nat]
  /\ pass \in [Conns -> Pass]
  /\ lists \in [Conns -> [ListCalls -> ListCall]]
  /\ onAir \subseteq Sids
  /\ healTick \in 0..2
  /\ inRoom \subseteq Conns
  /\ published \subseteq Sids
  /\ used \subseteq Sids
  /\ actual \in [Conns -> SUBSET Sids]
  /\ announce \subseteq Conns
  /\ lost \subseteq Sids
  /\ ops \in Nat
  /\ faults \in [Disturbances -> Nat]

-----------------------------------------------------------------------------
(* Rights and routing, as functions of the server's state.                 *)

HasMusic(k, c) == k[c] \in {"music", "withMusic"}

\* On a music-only channel Talk keeps meaning "may send"; on a channel with
\* music, starting it is a permission of its own.
MayStartMusic(r, k, c) ==
  \/ k[c] = "music" /\ r[c] \cap {"music", "talk"} # {}
  \/ k[c] = "withMusic" /\ "music" \in r[c]

\* What a client is sent about its channels (visibleChannels, chansJson).
Visible(r) == {c \in Chans : r[c] # {}}
View(r, k) == [c \in Visible(r) |->
                <<k[c], "talk" \in r[c], "listen" \in r[c], MayStartMusic(r, k, c)>>]

Hears(L, c) == "listen" \in perms[L][c] /\ c \in listen[L]

\* May listener L receive track s of the connected peer P?
Entitled(L, P, s) ==
  LET c == TrackChan[s] IN
  CASE TrackKind[s] = "direct" -> L \in direct[P]
    [] TrackKind[s] = "music"  -> /\ c \in musicOn[P]
                                  /\ MayStartMusic(perms[P], kind, c)
                                  /\ Hears(L, c)
    [] TrackKind[s] = "ch"     -> "talk" \in perms[P][c] /\ Hears(L, c)

wantedSids(L) ==
  {s \in Sids : \/ \E P \in peers \ {L} : s \in tracks[P] /\ Entitled(L, P, s)
                \/ s \in onAir /\ Hears(L, TrackChan[s])}

\* The sids the server knows to exist (`live` in reconcile).
Live == {s \in Sids : s \in onAir \/ \E P \in peers : s \in tracks[P]}

-----------------------------------------------------------------------------
Init ==
  /\ peers = {} /\ gone = {}
  /\ perms = InitRights /\ kind = InitKind
  /\ direct = [p \in Conns |-> {}] /\ listen = [p \in Conns |-> {}]
  /\ musicOn = [p \in Conns |-> {}]
  /\ tracks = [p \in Conns |-> {}] /\ subs = [p \in Conns |-> {}]
  /\ queue = [p \in Conns |-> 0] /\ pass = [p \in Conns |-> Idle]
  /\ lists = [p \in Conns |-> [k \in ListCalls |-> NoCall]]
  /\ onAir = {} /\ healTick = 0
  /\ inRoom = {} /\ published = {} /\ used = {}
  /\ actual = [p \in Conns |-> {}] /\ announce = {} /\ lost = {}
  /\ ops = 0 /\ faults = [k \in Disturbances |-> 0]

\* No pass is ready to start: the microtask queue is empty.
Ready(L) == queue[L] > 0 /\ pass[L].phase = "idle"
Settled == \A L \in Conns : ~Ready(L)

\* reconcile(L) for every L of S: one more pass on L's chain.
Room(S) == \A L \in S : queue[L] < MaxQueue
Enqueue(S) == queue' = [L \in Conns |-> IF L \in S THEN queue[L] + 1 ELSE queue[L]]

UserOp == Settled /\ ops < MaxOps /\ ops' = ops + 1

-----------------------------------------------------------------------------
(* Connections.                                                            *)

\* join(): the new peer listens to all it may hear.  Nothing is reconciled
\* before it announces its tracks.
Join(p) ==
  /\ Settled /\ p \notin peers \cup gone
  /\ peers' = peers \cup {p}
  /\ listen' = [listen EXCEPT ![p] = {c \in Chans : "listen" \in perms[p][c]}]
  /\ direct' = [direct EXCEPT ![p] = {}] /\ musicOn' = [musicOn EXCEPT ![p] = {}]
  /\ tracks' = [tracks EXCEPT ![p] = {}] /\ subs' = [subs EXCEPT ![p] = {}]
  /\ UNCHANGED <<gone, perms, kind, lost, queue, pass, lists, onAir, healTick, media,
                 ops, faults>>

\* ws 'close' (the client left, was kicked, or its network died).  What other
\* peers hold about p (calls to it, tracks of it in their subs) stays.
\* (Operators marked variant are for the mutants of PROJECT.json.)
Close(p) ==
  /\ UserOp /\ p \in peers
  /\ peers' = peers \ {p} /\ gone' = gone \cup {p}
  /\ UNCHANGED <<perms, kind, direct, listen, musicOn, lost, chain, media, faults>>

(* Messages from clients.                                                  *)

\* 'state': the client says what it listens to and whom it calls.  T holds
\* the direct calls of the list only (its channels do not affect routing).
\* reconcile(me), then once more with everybody if whom it calls has changed.
State(p, H, T) ==
  /\ UserOp /\ p \in peers
  /\ listen' = [listen EXCEPT ![p] = {c \in H : "listen" \in perms[p][c]}]
  /\ direct' = [direct EXCEPT ![p] = (T \cap peers) \ Gateways]
  /\ LET again == IF direct'[p] = direct[p] THEN {} ELSE peers
     IN /\ Room({p} \cup again)
        /\ queue' = [L \in Conns |-> queue[L] + (IF L = p THEN 1 ELSE 0)
                                             + (IF L \in again THEN 1 ELSE 0)]
  /\ UNCHANGED <<peers, gone, perms, kind, musicOn, lost, tracks, subs, pass, lists,
                 onAir, healTick, media, faults>>

\* 'music': a permitted sender switches its music on or off.
Music(p, c) ==
  /\ UserOp /\ p \in peers /\ MayStartMusic(perms[p], kind, c)
  /\ musicOn' = [musicOn EXCEPT ![p] = IF c \in @ THEN @ \ {c} ELSE @ \cup {c}]
  /\ Room(peers) /\ Enqueue(peers)
  /\ UNCHANGED <<peers, gone, perms, kind, direct, listen, lost, tracks, subs, pass,
                 lists, onAir, healTick, media, faults>>

\* 'tracks': only a trigger; the list itself is read back from LiveKit, by a call
\* of its own that nobody awaits, whatever other call for p is under way.
TracksMsg(p, k) ==
  /\ Settled /\ p \in peers \cap announce /\ lists[p][k].phase = "free"
  /\ announce' = announce \ {p}
  /\ lists' = [lists EXCEPT ![p][k] = [phase |-> "sent", sids |-> {}]]
  /\ UNCHANGED <<server, tracks, subs, queue, pass, onAir, healTick,
                 inRoom, published, used, actual, ops, faults>>

(* Directory edits: refreshAll() for rights r and channel kinds k.         *)

\* What stays switched on under rights r and kinds k, and what is added:
\* newly visible channels start switched on, like at join.
AddedListen(p, r) == {c \in Visible(r[p]) \ Visible(perms[p]) : "listen" \in r[p][c]}
ListensOn(p, r) ==      \* (variant: what was switched on stays on)
  listen[p] \cup AddedListen(p, r)
KeptListen(p, r) == {c \in listen[p] \cup AddedListen(p, r) : "listen" \in r[p][c]}
KeptMusic(p, r, k) ==
  {c \in musicOn[p] : HasMusic(k, c) /\ MayStartMusic(r[p], k, c)}

Refresh(r, k) ==
  LET changed == {p \in peers : View(r[p], k) # View(perms[p], kind)}
  IN /\ perms' = r /\ kind' = k
     /\ listen' = [p \in Conns |-> IF p \in changed THEN KeptListen(p, r) ELSE listen[p]]
     /\ direct' = [p \in Conns |-> IF p \in changed
          THEN direct[p] \cap peers ELSE direct[p]]
     /\ musicOn' = [p \in Conns |-> IF p \in changed THEN KeptMusic(p, r, k) ELSE musicOn[p]]
     /\ Room(peers) /\ Enqueue(peers)
     /\ UNCHANGED <<peers, gone, lost, tracks, subs, pass, lists, onAir, healTick,
                    media, faults>>

GrantEdit(p, c, g) == UserOp /\ Refresh([perms EXCEPT ![p][c] = g], kind)
KindEdit(c, k) == UserOp /\ k # kind[c] /\ Refresh(perms, [kind EXCEPT ![c] = k])

\* The server player's track appears or ends: onPlayerChange reconciles all.
PlayerStart(s) ==
  /\ UserOp /\ Owner[s] = Player /\ s \notin used
  /\ \A t \in onAir : TrackChan[t] # TrackChan[s]
  /\ onAir' = onAir \cup {s} /\ used' = used \cup {s}
  /\ published' = published \cup {s}
  /\ Room(peers) /\ Enqueue(peers)
  /\ UNCHANGED <<server, tracks, subs, pass, lists, healTick, inRoom, actual,
                 announce, faults>>

PlayerStop(s) ==
  /\ Settled /\ s \in onAir
  /\ onAir' = onAir \ {s} /\ published' = published \ {s}
  /\ actual' = [L \in Conns |-> actual[L] \ {s}]
  /\ Room(peers) /\ Enqueue(peers)
  /\ UNCHANGED <<server, tracks, subs, pass, lists, healTick, inRoom, used,
                 announce, ops, faults>>

-----------------------------------------------------------------------------
(* The reconcile chain.                                                    *)

\* The next pass of L's chain computes what L should get and what to change.
\* With nothing to change it ends at once.
StartPass(L) ==
  /\ Ready(L)
  /\ queue' = [queue EXCEPT ![L] = @ - 1]
  /\ LET want == wantedSids(L)
         add  == want \ subs[L]
         drop == (subs[L] \ want) \cap Live
     IN IF L \notin peers THEN UNCHANGED <<subs, pass>>
        ELSE IF add \cup drop = {}
             THEN subs' = [subs EXCEPT ![L] = want] /\ UNCHANGED pass
             ELSE /\ pass' = [pass EXCEPT ![L] =
                       [phase |-> IF add = {} THEN "drop" ELSE "add",
                        want |-> want, add |-> add, drop |-> drop, applied |-> FALSE]]
                  /\ UNCHANGED subs
  /\ UNCHANGED <<server, tracks, lists, onAir, healTick, media, ops, faults>>

\* LiveKit carries out the call that is in flight; for a participant that is
\* not in the room, or a track that is gone, nothing takes effect.
LiveKitApplies(L) ==
  /\ pass[L].phase # "idle" /\ ~pass[L].applied
  /\ pass' = [pass EXCEPT ![L].applied = TRUE]
  /\ actual' = [actual EXCEPT ![L] =
       IF L \notin inRoom THEN @
       ELSE IF pass[L].phase = "add" THEN @ \cup (pass[L].add \cap published)
       ELSE @ \ pass[L].drop]
  /\ UNCHANGED <<server, tracks, subs, queue, lists, onAir, healTick, inRoom,
                 published, used, announce, ops, faults>>

\* The awaited call succeeds: on to the drop call, or the pass is complete and
\* its result is what the server believes from now on.
CallReturnsLate(L) ==  \* (variant: `want` is read after the await)
  /\ Settled /\ pass[L].phase # "idle" /\ pass[L].applied
  /\ IF pass[L].phase = "add" /\ pass[L].drop # {}
     THEN /\ pass' = [pass EXCEPT ![L].phase = "drop", ![L].applied = FALSE]
          /\ UNCHANGED subs
     ELSE /\ pass' = [pass EXCEPT ![L] = Idle]
          /\ subs' = [subs EXCEPT ![L] = wantedSids(L)]
  /\ UNCHANGED <<server, tracks, queue, lists, onAir, healTick, media, ops, faults>>
CallReturns(L) ==
  /\ Settled /\ pass[L].phase # "idle" /\ pass[L].applied
  /\ IF pass[L].phase = "add" /\ pass[L].drop # {}
     THEN /\ pass' = [pass EXCEPT ![L].phase = "drop", ![L].applied = FALSE]
          /\ UNCHANGED subs
     ELSE /\ pass' = [pass EXCEPT ![L] = Idle]
          /\ subs' = [subs EXCEPT ![L] = pass[L].want]
  /\ UNCHANGED <<server, tracks, queue, lists, onAir, healTick, media, ops, faults>>

Fault(k) ==
  /\ k \in FaultKinds /\ \A j \in Disturbances : faults[j] < MaxFaults
  /\ faults' = [faults EXCEPT ![k] = @ + 1]

\* The awaited call throws, before or after LiveKit acted: subs keeps its value.
CallFails(L) ==
  /\ Settled /\ pass[L].phase # "idle"
  /\ Fault(IF pass[L].applied THEN "reply" ELSE "call")
  /\ pass' = [pass EXCEPT ![L] = Idle]
  /\ UNCHANGED <<server, tracks, subs, queue, lists, onAir, healTick, media, ops>>

\* LiveKit answers listTracks call k of p with what p publishes now.
LiveKitLists(p, k) ==
  /\ lists[p][k].phase = "sent"
  /\ lists' = [lists EXCEPT ![p][k] = [phase |-> "answered",
                 sids |-> {s \in published : Owner[s] = p}]]
  /\ UNCHANGED <<server, tracks, subs, queue, pass, onAir, healTick, media, ops, faults>>

\* The answer arrives (refreshTracks continues): the answers of two calls may
\* arrive in either order, so that an older list can take tracks that are still
\* published out of the server's sight.
ListReturns(p, k) ==
  /\ Settled /\ lists[p][k].phase = "answered"
  /\ lists' = [lists EXCEPT ![p][k] = NoCall]
  /\ tracks' = [tracks EXCEPT ![p] = lists[p][k].sids]
  /\ lost' = lost \cup ((tracks[p] \cap published) \ lists[p][k].sids)
  /\ subs' = [subs EXCEPT ![p] = {}]
  /\ Room(peers) /\ Enqueue(peers)
  /\ UNCHANGED <<peers, gone, perms, kind, direct, listen, musicOn, pass, onAir,
                 healTick, media, ops, faults>>

ListFails(p, k) ==
  /\ Settled /\ lists[p][k].phase # "free" /\ Fault("list")
  /\ lists' = [lists EXCEPT ![p][k] = NoCall]
  /\ UNCHANGED <<server, tracks, subs, queue, pass, onAir, healTick, media, ops>>

\* The heal timer: reconcile everybody; every third time from scratch.
HealTrusting ==  \* (variant: never from scratch)
  /\ Settled
  /\ healTick' = (healTick + 1) % 3
  /\ Room(peers) /\ Enqueue(peers)
  /\ UNCHANGED <<server, tracks, subs, pass, lists, onAir, media, ops, faults>>
Heal ==
  /\ Settled
  /\ healTick' = (healTick + 1) % 3
  /\ subs' = IF healTick' = 0
             THEN [p \in Conns |-> IF p \in peers THEN {} ELSE subs[p]] ELSE subs
  /\ Room(peers) /\ Enqueue(peers)
  /\ UNCHANGED <<server, tracks, pass, lists, onAir, media, ops, faults>>

-----------------------------------------------------------------------------
(* External: the clients' media side, and LiveKit on its own.              *)

EnterRoom(p) ==
  /\ p \in peers \ inRoom
  /\ inRoom' = inRoom \cup {p}
  /\ UNCHANGED <<server, chain, published, used, actual, announce, ops, faults>>

\* The client leaves the room once its socket is closed: its tracks end.
LeaveRoom(p) ==
  /\ p \in inRoom \cap gone
  /\ inRoom' = inRoom \ {p}
  /\ published' = {s \in published : Owner[s] # p}
  /\ actual' = [L \in Conns |-> IF L = p THEN {} ELSE {s \in actual[L] : Owner[s] # p}]
  /\ UNCHANGED <<server, chain, used, announce, ops, faults>>

\* The client publishes a track (one per name at a time), then says so.
Publish(p, s) ==
  /\ p \in inRoom \cap peers /\ Owner[s] = p /\ s \notin used
  /\ \A t \in published : ~ (/\ Owner[t] = p /\ TrackKind[t] = TrackKind[s]
                             /\ TrackKind[t] = "direct" \/ TrackChan[t] = TrackChan[s])
  /\ published' = published \cup {s} /\ used' = used \cup {s}
  /\ announce' = announce \cup {p}
  /\ UNCHANGED <<server, chain, inRoom, actual, ops, faults>>

Unpublish(p, s) ==
  /\ p \in inRoom /\ s \in published /\ Owner[s] = p
  /\ published' = published \ {s}
  /\ actual' = [L \in Conns |-> actual[L] \ {s}]
  /\ announce' = announce \cup {p}
  /\ UNCHANGED <<server, chain, inRoom, used, ops, faults>>

\* Every sync of the client's tracks ends with a `tracks` message (comms.ts:1039),
\* whether it published, retired or left alone.
Announce(p) ==
  /\ p \in inRoom \cap peers /\ p \notin announce
  /\ \E s \in Sids \ used : Owner[s] = p   \* (bound: before p has published all)
  /\ announce' = announce \cup {p}
  /\ UNCHANGED <<server, chain, inRoom, published, used, actual, ops, faults>>

\* LiveKit loses a subscription without telling anybody.
LiveKitLoses(L, s) ==
  /\ s \in actual[L] /\ Fault("lost")
  /\ actual' = [actual EXCEPT ![L] = @ \ {s}]
  /\ UNCHANGED <<server, chain, inRoom, published, used, announce, ops>>

-----------------------------------------------------------------------------
ServerStep(p) ==
  \/ Join(p) \/ Close(p)
  \/ \E H \in SUBSET Chans, T \in SUBSET (Conns \ {p}) : State(p, H, T)
  \/ \E c \in Chans : Music(p, c)
  \/ StartPass(p) \/ CallReturns(p) \/ CallFails(p)
  \/ \E k \in ListCalls : TracksMsg(p, k) \/ ListReturns(p, k) \/ ListFails(p, k)

Edit ==
  \/ \E p \in Conns, c \in Chans, g \in Grants : GrantEdit(p, c, g)
  \/ \E c \in Chans, k \in ChanKinds : KindEdit(c, k)
  \/ \E s \in Sids : PlayerStart(s) \/ PlayerStop(s)

Outside(p) ==
  \/ LiveKitApplies(p)
  \/ \E k \in ListCalls : LiveKitLists(p, k)
  \/ EnterRoom(p) \/ LeaveRoom(p) \/ Announce(p)
  \/ \E s \in Sids : Publish(p, s) \/ Unpublish(p, s) \/ LiveKitLoses(p, s)

Next == (\E p \in Conns : ServerStep(p) \/ Outside(p)) \/ Edit \/ Heal

Spec == Init /\ [][Next]_vars

(* Fairness: the event loop runs what is ready and hands every answer that *)
(* has arrived to its callback, the heal timer's callback comes up again   *)
(* and again (strong: microtasks and other answers only delay them), and   *)
(* LiveKit answers each subscription call in the end.  Stated for all      *)
(* chains together, which is less than the code gives.  Nothing makes      *)
(* users act, LiveKit fail, or clients enter and leave.                    *)
Fairness ==
  /\ SF_vars(Heal)
  /\ WF_vars(\E p \in Conns : StartPass(p))
  /\ SF_vars(\E p \in Conns : CallReturns(p))
  /\ WF_vars(\E p \in Conns : LiveKitApplies(p))

FairSpec == Spec /\ Fairness

\* Track lists are also read in the end: `tracks` messages arrive, and so do the
\* answers to listTracks.
ListFairness ==
  /\ WF_vars(\E p \in Conns, k \in ListCalls : LiveKitLists(p, k))
  /\ SF_vars(\E p \in Conns, k \in ListCalls : ListReturns(p, k))
  /\ SF_vars(\E p \in Conns, k \in ListCalls : TracksMsg(p, k))
ListFairSpec == FairSpec /\ ListFairness

-----------------------------------------------------------------------------
(* Properties.                                                             *)

Quiet(L) == queue[L] = 0 /\ pass[L].phase = "idle"
Failed(k) == faults[k] > 0
Listing(p) == \E k \in ListCalls : lists[p][k].phase # "free"
Publishes(p) == {s \in published : Owner[s] = p}

\* While no call to LiveKit has failed, a listener whose chain has run dry is
\* subscribed to nothing it may not receive: whatever was revoked while its
\* passes were waiting or under way has been dropped (comms/README.md:104,
\* "rights that were removed stop working at once"), in whatever order track lists
\* are answered.  All but one thing: a track that an older list, answered late, once
\* took out of the server's sight, as its pass then forgets who is subscribed.
RevokedIsDropped ==
  ~Failed("call") /\ ~Failed("reply") =>
    \A L \in peers : Quiet(L) => actual[L] \cap Live \subseteq wantedSids(L) \cup lost

\* The same without the exception: nothing reads a list again once a newer answer
\* has been overtaken by an older one.
RevokedIsDroppedAlways ==
  ~Failed("call") /\ ~Failed("reply") =>
    \A L \in peers : Quiet(L) => actual[L] \cap Live \subseteq wantedSids(L)

\* Nobody stays switched on where it lost the right: what a peer listens to and
\* the music it sends is covered by the directory after every edit, in whatever
\* order edits and client messages came (refreshAll's clamps).
SwitchedOnIsAllowed ==
  \A p \in peers : /\ \A c \in listen[p] : "listen" \in perms[p][c]
                   /\ \A c \in musicOn[p] : MayStartMusic(perms[p], kind, c)

\* Once users and LiveKit's faults quieten down, every connected listener does
\* receive every track it should: the heal timer repairs failed calls, lost
\* subscriptions and passes that ran before the listener was in the room.
Delivered ==
  <>[](\A L \in peers \cap inRoom : wantedSids(L) \cap published \subseteq actual[L])

\* Claim of server.js:229 ("retry anything a transient LiveKit error left
\* unsynced") for tracks that must go: in the end no listener keeps one that it
\* may not receive.  A drop call that failed is forgotten when the third heal
\* tick (or a `tracks` message of the listener) clears p.subs.
FailedDropIsRetried ==
  <>[](\A L \in peers : actual[L] \cap Live \subseteq wantedSids(L))

\* The same claim for track lists: in the end the server knows what each peer
\* publishes.  No timer repeats a listTracks call that failed.
FailedListIsRetried ==
  <>[](\A p \in peers \ announce : tracks[p] = Publishes(p))

\* server.js:492, "the real track list is read back from LiveKit": with no
\* `tracks` message or list call under way the server has the real list.
TrackListIsReal ==
  \A p \in peers : p \notin announce /\ ~Listing(p) /\ ~Failed("list")
                     => tracks[p] = Publishes(p)

\* server.js:220, after a peer has announced its tracks the server subscribes it
\* "from scratch": with its chain run dry and no fault so far, it receives all.
SubscribedFromScratch ==
  (\A k \in Disturbances : ~Failed(k)) => \A L \in peers \cap inRoom :
    tracks[L] # {} /\ Quiet(L) => wantedSids(L) \cap published \subseteq actual[L]
=============================================================================
