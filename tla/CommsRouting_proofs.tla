------------------------ MODULE CommsRouting_proofs -------------------------
(***************************************************************************)
(* Proofs about CommsRouting, for any number of connections, channels and  *)
(* tracks and any bounds:                                                  *)
(*   TypeCorrect           the type invariant;                             *)
(*   SwitchedOnAllowed     nobody stays switched on where it lost the right; *)
(*   RevokedGetsDropped    a chain that has run dry leaves nothing behind  *)
(*                         that its listener may not receive, however many *)
(*                         track lists are read at once (no failed call,   *)
(*                         no track that a late list took out of sight).   *)
(***************************************************************************)
EXTENDS CommsRouting, TLAPS

\* May L receive s, whoever publishes it?  wantedSids(L) is what is allowed and
\* known to exist.
Allowed(L, s) == IF Owner[s] = Player THEN Hears(L, TrackChan[s])
                 ELSE Owner[s] # L /\ Entitled(L, Owner[s], s)

\* Everything the server or LiveKit holds as subscribed, or about to be, for L.
Held(L) == actual[L] \cup subs[L] \cup pass[L].want \cup pass[L].add \cup pass[L].drop

\* What is published has a track id of its own, and LiveKit forwards nothing else.
MediaInv ==
  /\ published \subseteq used
  /\ inRoom \subseteq peers \cup gone
  /\ \A L \in Conns : actual[L] \subseteq published
  /\ \A L \in Conns : L \notin inRoom => actual[L] = {}
  /\ \A s \in onAir : Owner[s] = Player /\ s \in published
  /\ \A s \in published : Owner[s] = Player => s \in onAir

\* Track lists name tracks of their publisher that exist or existed.
TracksInv ==
  \A p \in Conns :
    /\ \A s \in tracks[p] : Owner[s] = p /\ s \in used
    /\ \A k \in ListCalls : \A s \in lists[p][k].sids : Owner[s] = p /\ s \in used

\* A connection that has not joined yet holds nothing.
NewInv ==
  \A p \in Conns : p \notin peers \cup gone =>
    /\ tracks[p] = {} /\ subs[p] = {} /\ pass[p] = Idle /\ queue[p] = 0
    /\ direct[p] = {} /\ musicOn[p] = {}
    /\ \A k \in ListCalls : lists[p][k] = NoCall

\* A track that is held for a listener and still published is one the server
\* knows about, unless its publisher is gone (it will not turn up later) or a late
\* list took it out of sight.
HeldInv ==
  \A L \in Conns : \A s \in Held(L) :
    /\ s \in used
    /\ s \in published => s \in Live \/ Owner[s] \in gone \/ s \in lost

\* The tracks the server knows and never lost sight of.
Known == Live \ lost

\* The state of a listener's chain says what LiveKit still has to be told: run
\* dry, nothing; ready to start, no more than subs and the next pass will cover;
\* in a pass, no more than the rest of the pass will drop.
RunDry(L) ==
  /\ actual[L] \cap Known \subseteq subs[L]
  /\ \A s \in subs[L] \cap Known : Allowed(L, s)
AboutToStart(L) == \A s \in actual[L] \cap Known : s \in subs[L] \/ Allowed(L, s)
UnderWay(L) ==
  /\ actual[L] \cap Known \subseteq pass[L].want \cup pass[L].drop
  /\ pass[L].add \subseteq pass[L].want
  /\ pass[L].phase = "drop" /\ pass[L].applied => actual[L] \cap Known \subseteq pass[L].want
  /\ queue[L] = 0 => \A s \in pass[L].want \cap Known : Allowed(L, s)
PassOK(L) ==
  /\ pass[L].phase = "idle" /\ queue[L] = 0 => RunDry(L)
  /\ pass[L].phase = "idle" /\ queue[L] > 0 => AboutToStart(L)
  /\ pass[L].phase # "idle" => UnderWay(L)
PassInv == \A L \in peers : PassOK(L)

NoFailedCall == ~Failed("call") /\ ~Failed("reply")

IInv == /\ TypeOK /\ MediaInv /\ TracksInv /\ NewInv /\ HeldInv
        /\ NoFailedCall => PassInv

-----------------------------------------------------------------------------
\* Updating one field of a pass gives a pass ...
LEMMA PassUpdate ==
  ASSUME NEW r \in Pass, NEW ph \in {"idle", "add", "drop"}, NEW ap \in BOOLEAN
  PROVE  /\ [r EXCEPT !.applied = ap] \in Pass
         /\ [r EXCEPT !.phase = ph, !.applied = ap] \in Pass
         /\ Idle \in Pass
BY DEF Pass, Idle

\* ... and leaves its other fields alone.
LEMMA PassFields ==
  ASSUME NEW r \in Pass, NEW q, q = [r EXCEPT !.phase = "drop", !.applied = FALSE]
  PROVE  /\ q.want = r.want /\ q.add = r.add /\ q.drop = r.drop
         /\ q.phase = "drop" /\ ~q.applied
BY DEF Pass

\* LiveKit's applying a call changes nothing else of its pass.
LEMMA AppliedFields ==
  ASSUME NEW r \in Pass, NEW q, q = [r EXCEPT !.applied = TRUE]
  PROVE  /\ q.want = r.want /\ q.add = r.add /\ q.drop = r.drop
         /\ q.phase = r.phase /\ q.applied
BY DEF Pass

\* What a call that returns does to its pass.
LEMMA ReturnCases ==
  ASSUME TypeOK, NEW p \in Conns, CallReturns(p)
  PROVE  \/ /\ pass[p].phase = "add" /\ pass[p].drop # {}
            /\ pass'[p] = [pass[p] EXCEPT !.phase = "drop", !.applied = FALSE]
            /\ subs'[p] = subs[p]
         \/ /\ pass[p].drop = {} \/ pass[p].phase = "drop"
            /\ pass'[p] = Idle /\ subs'[p] = pass[p].want
BY DEF TypeOK, CallReturns, Pass

\* A refresh keeps the types, whatever the new rights and kinds.
LEMMA RefreshType ==
  ASSUME TypeOK, ops' \in Nat,
         NEW r \in [Conns -> [Chans -> SUBSET Rights]], NEW k \in [Chans -> Kinds],
         Refresh(r, k)
  PROVE  TypeOK'
<1>1. listen' \in [Conns -> SUBSET Chans]
  BY DEF TypeOK, Refresh, KeptListen, KeptMusic, AddedListen, Visible
<1>2. direct' \in [Conns -> SUBSET Conns]
  BY DEF TypeOK, Refresh, KeptListen, KeptMusic, AddedListen
<1>3. musicOn' \in [Conns -> SUBSET Chans]
  BY DEF TypeOK, Refresh, KeptListen, KeptMusic, AddedListen
<1>4. queue' \in [Conns -> Nat]
  BY DEF TypeOK, Refresh, KeptListen, KeptMusic, AddedListen, Enqueue
<1> QED BY <1>1, <1>2, <1>3, <1>4 DEF TypeOK, Refresh, KeptListen, KeptMusic, AddedListen, media

\* Every step keeps the types.
LEMMA TypeStep == TypeOK /\ [Next]_vars => TypeOK'
<1> SUFFICES ASSUME TypeOK, [Next]_vars
             PROVE  TypeOK'
    OBVIOUS
<1> USE RoutingAssumption DEF TypeOK, Pass, ListCall, Idle, NoCall, server, chain, media, vars
<1>1. ASSUME NEW p \in Conns, Join(p) PROVE TypeOK'
    BY <1>1 DEF Join
<1>2. ASSUME NEW p \in Conns, Close(p) PROVE TypeOK'
    BY <1>2 DEF Close, UserOp
<1>3. ASSUME NEW p \in Conns, NEW H \in SUBSET Chans, NEW T \in SUBSET (Conns \ {p}), State(p, H, T)
      PROVE TypeOK'
    BY <1>3 DEF State, UserOp, Enqueue
<1>4. ASSUME NEW p \in Conns, NEW c \in Chans, Music(p, c) PROVE TypeOK'
    BY <1>4 DEF Music, UserOp, Enqueue
<1>5. ASSUME NEW p \in Conns, NEW k \in ListCalls, TracksMsg(p, k) PROVE TypeOK'
    BY <1>5 DEF TracksMsg
<1>6. ASSUME NEW p \in Conns, NEW c \in Chans, NEW g \in Grants, GrantEdit(p, c, g)
      PROVE TypeOK'
  <2>1. [perms EXCEPT ![p][c] = g] \in [Conns -> [Chans -> SUBSET Rights]]
    BY SMT DEF Rights
  <2>2. Refresh([perms EXCEPT ![p][c] = g], kind) /\ ops' \in Nat
    BY <1>6 DEF GrantEdit, UserOp
  <2> QED BY <2>1, <2>2, RefreshType
<1>7. ASSUME NEW c \in Chans, NEW k \in ChanKinds, KindEdit(c, k) PROVE TypeOK'
  <2>1. [kind EXCEPT ![c] = k] \in [Chans -> Kinds]
    OBVIOUS
  <2>2. Refresh(perms, [kind EXCEPT ![c] = k]) /\ ops' \in Nat
    BY <1>7 DEF KindEdit, UserOp
  <2> QED BY <2>1, <2>2, RefreshType
<1>8. ASSUME NEW s \in Sids, PlayerStart(s) PROVE TypeOK'
    BY <1>8 DEF PlayerStart, UserOp, Enqueue
<1>9. ASSUME NEW s \in Sids, PlayerStop(s) PROVE TypeOK'
    BY <1>9 DEF PlayerStop, UserOp, Enqueue
<1>10. ASSUME NEW p \in Conns, StartPass(p) PROVE TypeOK'
  <2>1. wantedSids(p) \in SUBSET Sids
    BY DEF wantedSids
  <2>2. pass' \in [Conns -> Pass] /\ subs' \in [Conns -> SUBSET Sids]
    <3> DEFINE want == wantedSids(p)  add == want \ subs[p]
               drop == (subs[p] \ want) \cap Live
               new == [phase |-> IF add = {} THEN "drop" ELSE "add", want |-> want,
                       add |-> add, drop |-> drop, applied |-> FALSE]
    <3>1. add \in SUBSET Sids /\ drop \in SUBSET Sids
      BY <2>1
    <3>2. new \in Pass
      BY <2>1, <3>1
    <3>3. pass \in [Conns -> Pass] /\ subs \in [Conns -> SUBSET Sids]
      OBVIOUS
    <3>4. \/ pass' = pass /\ subs' = subs
          \/ pass' = pass /\ subs' = [subs EXCEPT ![p] = want]
          \/ pass' = [pass EXCEPT ![p] = new] /\ subs' = subs
      BY <1>10 DEF StartPass
    <3> HIDE DEF new, want, add, drop, Pass, TypeOK
    <3>5. want \in SUBSET Sids
      BY <2>1 DEF want
    <3>6. CASE pass' = pass /\ subs' = subs
      BY <3>3, <3>6
    <3>7. CASE pass' = pass /\ subs' = [subs EXCEPT ![p] = want]
      <4>1. subs' \in [Conns -> SUBSET Sids]
        BY <3>3, <3>5, <3>7
      <4> QED BY <3>3, <3>7, <4>1
    <3>8. CASE pass' = [pass EXCEPT ![p] = new] /\ subs' = subs
      <4>1. pass' \in [Conns -> Pass]
        BY <3>2, <3>3, <3>8
      <4> QED BY <3>3, <3>8, <4>1
    <3> QED BY <3>4, <3>6, <3>7, <3>8
  <2>3. queue' \in [Conns -> Nat]
    BY <1>10 DEF StartPass, Ready
  <2> QED BY <1>10, <2>2, <2>3 DEF StartPass
<1>11. ASSUME NEW p \in Conns, CallReturns(p) PROVE TypeOK'
  <2>1. pass \in [Conns -> Pass] /\ subs \in [Conns -> SUBSET Sids] /\ pass[p].want \in SUBSET Sids
    OBVIOUS
  <2>2. \/ pass' = [pass EXCEPT ![p] = [pass[p] EXCEPT !.phase = "drop", !.applied = FALSE]] /\ subs' = subs
        \/ pass' = [pass EXCEPT ![p] = Idle] /\ subs' = [subs EXCEPT ![p] = pass[p].want]
    BY <1>11 DEF CallReturns
  <2>3. pass' \in [Conns -> Pass] /\ subs' \in [Conns -> SUBSET Sids]
    <3> HIDE DEF Pass, Idle, TypeOK
    <3>1. [pass[p] EXCEPT !.phase = "drop", !.applied = FALSE] \in Pass /\ Idle \in Pass
      BY <2>1, PassUpdate
    <3> DEFINE next == [pass[p] EXCEPT !.phase = "drop", !.applied = FALSE]
    <3>2. CASE pass' = [pass EXCEPT ![p] = next] /\ subs' = subs
      <4> HIDE DEF next
      <4> QED BY <2>1, <3>1, <3>2 DEF next
    <3>3. CASE pass' = [pass EXCEPT ![p] = Idle] /\ subs' = [subs EXCEPT ![p] = pass[p].want]
      BY <2>1, <3>1, <3>3
    <3> QED BY <2>2, <3>2, <3>3
  <2> QED BY <1>11, <2>3 DEF CallReturns
<1>12. ASSUME NEW p \in Conns, CallFails(p) PROVE TypeOK'
    BY <1>12 DEF CallFails, Fault
<1>13. ASSUME NEW p \in Conns, NEW k \in ListCalls, ListReturns(p, k) PROVE TypeOK'
    BY <1>13 DEF ListReturns, Enqueue
<1>14. ASSUME NEW p \in Conns, NEW k \in ListCalls, ListFails(p, k) PROVE TypeOK'
    BY <1>14 DEF ListFails, Fault
<1>15. ASSUME NEW p \in Conns, NEW k \in ListCalls, LiveKitLists(p, k) PROVE TypeOK'
    BY <1>15 DEF LiveKitLists
<1>16. ASSUME NEW p \in Conns, LiveKitApplies(p) PROVE TypeOK'
  <2>1. pass' \in [Conns -> Pass]
    <3> HIDE DEF Pass, Idle
    <3>1. [pass[p] EXCEPT !.applied = TRUE] \in Pass
      BY PassUpdate, pass[p] \in Pass
    <3>2. pass' = [pass EXCEPT ![p] = [pass[p] EXCEPT !.applied = TRUE]]
      BY <1>16 DEF LiveKitApplies
    <3> QED BY <3>1, <3>2
  <2>2. actual' \in [Conns -> SUBSET Sids]
    BY <1>16 DEF LiveKitApplies
  <2> QED BY <1>16, <2>1, <2>2 DEF LiveKitApplies
<1>17. ASSUME NEW p \in Conns, EnterRoom(p) PROVE TypeOK'
    BY <1>17 DEF EnterRoom
<1>18. ASSUME NEW p \in Conns, LeaveRoom(p) PROVE TypeOK'
    BY <1>18 DEF LeaveRoom
<1>19. ASSUME NEW p \in Conns, NEW s \in Sids, Publish(p, s) PROVE TypeOK'
    BY <1>19 DEF Publish
<1>20. ASSUME NEW p \in Conns, NEW s \in Sids, Unpublish(p, s) PROVE TypeOK'
    BY <1>20 DEF Unpublish
<1>21. ASSUME NEW p \in Conns, NEW s \in Sids, LiveKitLoses(p, s) PROVE TypeOK'
    BY <1>21 DEF LiveKitLoses, Fault
<1>22. ASSUME Heal PROVE TypeOK'
    BY <1>22 DEF Heal, Enqueue
<1>24. ASSUME NEW p \in Conns, Announce(p) PROVE TypeOK'
    BY <1>24 DEF Announce
<1>23. CASE UNCHANGED vars
    BY <1>23
<1> QED
    BY <1>1, <1>2, <1>3, <1>4, <1>5, <1>6, <1>7, <1>8, <1>9, <1>10, <1>11, <1>12, <1>13, <1>14, <1>15, <1>16, <1>17, <1>18, <1>19, <1>20, <1>21, <1>22, <1>23, <1>24
    DEF Next, ServerStep, Outside, Edit

\* Steps keep what LiveKit guarantees.
LEMMA MediaStep == TypeOK /\ MediaInv /\ [Next]_vars => MediaInv'
<1> SUFFICES ASSUME TypeOK, MediaInv, [Next]_vars
             PROVE  MediaInv'
    OBVIOUS
<1> USE RoutingAssumption DEF TypeOK, server, chain, media, vars, MediaInv
<1>1. ASSUME NEW p \in Conns, Join(p) PROVE MediaInv'
    BY <1>1 DEF Join
<1>2. ASSUME NEW p \in Conns, Close(p) PROVE MediaInv'
    BY <1>2 DEF Close, UserOp
<1>3. ASSUME NEW p \in Conns, NEW H \in SUBSET Chans, NEW T \in SUBSET (Conns \ {p}), State(p, H, T)
      PROVE MediaInv'
    BY <1>3 DEF State, UserOp, Enqueue
<1>4. ASSUME NEW p \in Conns, NEW c \in Chans, Music(p, c) PROVE MediaInv'
    BY <1>4 DEF Music, UserOp, Enqueue
<1>5. ASSUME NEW p \in Conns, NEW k \in ListCalls, TracksMsg(p, k) PROVE MediaInv'
    BY <1>5 DEF TracksMsg
<1>6. ASSUME NEW p \in Conns, NEW c \in Chans, NEW g \in Grants, GrantEdit(p, c, g)
      PROVE MediaInv'
    BY <1>6 DEF GrantEdit, Refresh, UserOp, Enqueue
<1>7. ASSUME NEW c \in Chans, NEW k \in ChanKinds, KindEdit(c, k) PROVE MediaInv'
    BY <1>7 DEF KindEdit, Refresh, UserOp, Enqueue
<1>8. ASSUME NEW s \in Sids, PlayerStart(s) PROVE MediaInv'
    BY <1>8 DEF PlayerStart, UserOp, Enqueue
<1>9. ASSUME NEW s \in Sids, PlayerStop(s) PROVE MediaInv'
    BY <1>9 DEF PlayerStop, UserOp, Enqueue
<1>10. ASSUME NEW p \in Conns, StartPass(p) PROVE MediaInv'
    BY <1>10 DEF StartPass, Ready
<1>11. ASSUME NEW p \in Conns, CallReturns(p) PROVE MediaInv'
    BY <1>11 DEF CallReturns
<1>12. ASSUME NEW p \in Conns, CallFails(p) PROVE MediaInv'
    BY <1>12 DEF CallFails, Fault
<1>13. ASSUME NEW p \in Conns, NEW k \in ListCalls, ListReturns(p, k) PROVE MediaInv'
    BY <1>13 DEF ListReturns, Enqueue
<1>14. ASSUME NEW p \in Conns, NEW k \in ListCalls, ListFails(p, k) PROVE MediaInv'
    BY <1>14 DEF ListFails, Fault
<1>15. ASSUME NEW p \in Conns, NEW k \in ListCalls, LiveKitLists(p, k) PROVE MediaInv'
    BY <1>15 DEF LiveKitLists
<1>16. ASSUME NEW p \in Conns, LiveKitApplies(p) PROVE MediaInv'
  <2>1. \A L \in Conns : /\ actual'[L] \subseteq actual[L] \cup published
                         /\ L \notin inRoom => actual'[L] = actual[L]
    <3> SUFFICES ASSUME NEW L \in Conns
                 PROVE  /\ actual'[L] \subseteq actual[L] \cup published
                        /\ L \notin inRoom => actual'[L] = actual[L]
      OBVIOUS
    <3>1. CASE L # p
      BY <1>16, <3>1 DEF LiveKitApplies
    <3>2. CASE L = p
      <4>1. CASE p \notin inRoom
        BY <1>16, <3>2, <4>1 DEF LiveKitApplies
      <4>2. CASE p \in inRoom /\ pass[p].phase = "add"
        BY <1>16, <3>2, <4>2 DEF LiveKitApplies
      <4>3. CASE p \in inRoom /\ pass[p].phase # "add"
        BY <1>16, <3>2, <4>3 DEF LiveKitApplies
      <4> QED BY <4>1, <4>2, <4>3
    <3> QED BY <3>1, <3>2
  <2>2. UNCHANGED <<peers, gone, inRoom, published, used, onAir>>
    BY <1>16 DEF LiveKitApplies
  <2> QED BY <2>1, <2>2
<1>17. ASSUME NEW p \in Conns, EnterRoom(p) PROVE MediaInv'
    BY <1>17 DEF EnterRoom
<1>18. ASSUME NEW p \in Conns, LeaveRoom(p) PROVE MediaInv'
    BY <1>18 DEF LeaveRoom
<1>19. ASSUME NEW p \in Conns, NEW s \in Sids, Publish(p, s) PROVE MediaInv'
    BY <1>19 DEF Publish
<1>20. ASSUME NEW p \in Conns, NEW s \in Sids, Unpublish(p, s) PROVE MediaInv'
    BY <1>20 DEF Unpublish
<1>21. ASSUME NEW p \in Conns, NEW s \in Sids, LiveKitLoses(p, s) PROVE MediaInv'
    BY <1>21 DEF LiveKitLoses, Fault
<1>22. ASSUME Heal PROVE MediaInv'
    BY <1>22 DEF Heal, Enqueue
<1>24. ASSUME NEW p \in Conns, Announce(p) PROVE MediaInv'
    BY <1>24 DEF Announce
<1>23. CASE UNCHANGED vars
    BY <1>23
<1> QED
    BY <1>1, <1>2, <1>3, <1>4, <1>5, <1>6, <1>7, <1>8, <1>9, <1>10, <1>11, <1>12, <1>13, <1>14, <1>15, <1>16, <1>17, <1>18, <1>19, <1>20, <1>21, <1>22, <1>23, <1>24
    DEF Next, ServerStep, Outside, Edit

\* Lists and snapshots of lists only name tracks of their publisher.
LEMMA TracksStep == TypeOK /\ MediaInv /\ TracksInv /\ [Next]_vars => TracksInv'
<1> SUFFICES ASSUME TypeOK, MediaInv, TracksInv, [Next]_vars
             PROVE  TracksInv'
    OBVIOUS
<1> USE RoutingAssumption DEF TypeOK, server, chain, media, vars, NoCall, TracksInv, MediaInv
<1>1. ASSUME NEW p \in Conns, Join(p) PROVE TracksInv'
    BY <1>1 DEF Join
<1>2. ASSUME NEW p \in Conns, Close(p) PROVE TracksInv'
    BY <1>2 DEF Close, UserOp
<1>3. ASSUME NEW p \in Conns, NEW H \in SUBSET Chans, NEW T \in SUBSET (Conns \ {p}), State(p, H, T)
      PROVE TracksInv'
    BY <1>3 DEF State, UserOp, Enqueue
<1>4. ASSUME NEW p \in Conns, NEW c \in Chans, Music(p, c) PROVE TracksInv'
    BY <1>4 DEF Music, UserOp, Enqueue
<1>5. ASSUME NEW p \in Conns, NEW k \in ListCalls, TracksMsg(p, k) PROVE TracksInv'
    BY <1>5 DEF TracksMsg
<1>6. ASSUME NEW p \in Conns, NEW c \in Chans, NEW g \in Grants, GrantEdit(p, c, g)
      PROVE TracksInv'
    BY <1>6 DEF GrantEdit, Refresh, UserOp, Enqueue
<1>7. ASSUME NEW c \in Chans, NEW k \in ChanKinds, KindEdit(c, k) PROVE TracksInv'
    BY <1>7 DEF KindEdit, Refresh, UserOp, Enqueue
<1>8. ASSUME NEW s \in Sids, PlayerStart(s) PROVE TracksInv'
    BY <1>8 DEF PlayerStart, UserOp, Enqueue
<1>9. ASSUME NEW s \in Sids, PlayerStop(s) PROVE TracksInv'
    BY <1>9 DEF PlayerStop, UserOp, Enqueue
<1>10. ASSUME NEW p \in Conns, StartPass(p) PROVE TracksInv'
    BY <1>10 DEF StartPass, Ready
<1>11. ASSUME NEW p \in Conns, CallReturns(p) PROVE TracksInv'
    BY <1>11 DEF CallReturns
<1>12. ASSUME NEW p \in Conns, CallFails(p) PROVE TracksInv'
    BY <1>12 DEF CallFails, Fault
<1>13. ASSUME NEW p \in Conns, NEW k \in ListCalls, ListReturns(p, k) PROVE TracksInv'
    BY <1>13 DEF ListReturns, Enqueue
<1>14. ASSUME NEW p \in Conns, NEW k \in ListCalls, ListFails(p, k) PROVE TracksInv'
    BY <1>14 DEF ListFails, Fault
<1>15. ASSUME NEW p \in Conns, NEW k \in ListCalls, LiveKitLists(p, k) PROVE TracksInv'
    BY <1>15 DEF LiveKitLists
<1>16. ASSUME NEW p \in Conns, LiveKitApplies(p) PROVE TracksInv'
    BY <1>16 DEF LiveKitApplies
<1>17. ASSUME NEW p \in Conns, EnterRoom(p) PROVE TracksInv'
    BY <1>17 DEF EnterRoom
<1>18. ASSUME NEW p \in Conns, LeaveRoom(p) PROVE TracksInv'
    BY <1>18 DEF LeaveRoom
<1>19. ASSUME NEW p \in Conns, NEW s \in Sids, Publish(p, s) PROVE TracksInv'
    BY <1>19 DEF Publish
<1>20. ASSUME NEW p \in Conns, NEW s \in Sids, Unpublish(p, s) PROVE TracksInv'
    BY <1>20 DEF Unpublish
<1>21. ASSUME NEW p \in Conns, NEW s \in Sids, LiveKitLoses(p, s) PROVE TracksInv'
    BY <1>21 DEF LiveKitLoses, Fault
<1>22. ASSUME Heal PROVE TracksInv'
    BY <1>22 DEF Heal, Enqueue
<1>24. ASSUME NEW p \in Conns, Announce(p) PROVE TracksInv'
    BY <1>24 DEF Announce
<1>23. CASE UNCHANGED vars
    BY <1>23
<1> QED
    BY <1>1, <1>2, <1>3, <1>4, <1>5, <1>6, <1>7, <1>8, <1>9, <1>10, <1>11, <1>12, <1>13, <1>14, <1>15, <1>16, <1>17, <1>18, <1>19, <1>20, <1>21, <1>22, <1>23, <1>24
    DEF Next, ServerStep, Outside, Edit

\* Nothing is stored about a connection before it joins.
LEMMA NewStep == TypeOK /\ MediaInv /\ NewInv /\ [Next]_vars => NewInv'
<1> SUFFICES ASSUME TypeOK, MediaInv, NewInv, [Next]_vars
             PROVE  NewInv'
    OBVIOUS
<1> USE RoutingAssumption DEF TypeOK, server, chain, media, vars, NewInv, MediaInv, Idle, NoCall
<1>1. ASSUME NEW p \in Conns, Join(p) PROVE NewInv'
    BY <1>1 DEF Join
<1>2. ASSUME NEW p \in Conns, Close(p) PROVE NewInv'
    BY <1>2 DEF Close, UserOp
<1>3. ASSUME NEW p \in Conns, NEW H \in SUBSET Chans, NEW T \in SUBSET (Conns \ {p}), State(p, H, T)
      PROVE NewInv'
    BY <1>3 DEF State, UserOp, Enqueue
<1>4. ASSUME NEW p \in Conns, NEW c \in Chans, Music(p, c) PROVE NewInv'
    BY <1>4 DEF Music, UserOp, Enqueue
<1>5. ASSUME NEW p \in Conns, NEW k \in ListCalls, TracksMsg(p, k) PROVE NewInv'
    BY <1>5 DEF TracksMsg
<1>6. ASSUME NEW p \in Conns, NEW c \in Chans, NEW g \in Grants, GrantEdit(p, c, g)
      PROVE NewInv'
    BY <1>6 DEF GrantEdit, Refresh, UserOp, Enqueue
<1>7. ASSUME NEW c \in Chans, NEW k \in ChanKinds, KindEdit(c, k) PROVE NewInv'
    BY <1>7 DEF KindEdit, Refresh, UserOp, Enqueue
<1>8. ASSUME NEW s \in Sids, PlayerStart(s) PROVE NewInv'
    BY <1>8 DEF PlayerStart, UserOp, Enqueue
<1>9. ASSUME NEW s \in Sids, PlayerStop(s) PROVE NewInv'
    BY <1>9 DEF PlayerStop, UserOp, Enqueue
<1>10. ASSUME NEW p \in Conns, StartPass(p) PROVE NewInv'
  <2>1. p \in peers \cup gone
    BY <1>10 DEF StartPass, Ready
  <2>2. \A q \in Conns \ {p} : pass'[q] = pass[q] /\ subs'[q] = subs[q] /\ queue'[q] = queue[q]
    BY <1>10 DEF StartPass
  <2>3. UNCHANGED <<peers, gone, tracks, lists, direct, musicOn>>
    BY <1>10 DEF StartPass
  <2> HIDE DEF TypeOK, Idle, NoCall, MediaInv
  <2> QED BY <2>1, <2>2, <2>3
<1>11. ASSUME NEW p \in Conns, CallReturns(p) PROVE NewInv'
  <2>1. p \in peers \cup gone
    BY <1>11 DEF CallReturns
  <2>2. \A q \in Conns \ {p} : pass'[q] = pass[q] /\ subs'[q] = subs[q] /\ queue'[q] = queue[q]
    BY <1>11 DEF CallReturns
  <2>3. UNCHANGED <<peers, gone, tracks, lists, direct, musicOn>>
    BY <1>11 DEF CallReturns
  <2> HIDE DEF TypeOK, Idle, NoCall, MediaInv
  <2> QED BY <2>1, <2>2, <2>3
<1>12. ASSUME NEW p \in Conns, CallFails(p) PROVE NewInv'
    BY ZenonT(60), <1>12 DEF CallFails, Fault
<1>13. ASSUME NEW p \in Conns, NEW k \in ListCalls, ListReturns(p, k) PROVE NewInv'
    BY <1>13 DEF ListReturns, Enqueue
<1>14. ASSUME NEW p \in Conns, NEW k \in ListCalls, ListFails(p, k) PROVE NewInv'
    BY <1>14 DEF ListFails, Fault
<1>15. ASSUME NEW p \in Conns, NEW k \in ListCalls, LiveKitLists(p, k) PROVE NewInv'
    BY <1>15 DEF LiveKitLists
<1>16. ASSUME NEW p \in Conns, LiveKitApplies(p) PROVE NewInv'
  <2>1. p \in peers \cup gone
    BY <1>16 DEF LiveKitApplies
  <2>2. \A q \in Conns \ {p} : pass'[q] = pass[q] /\ subs'[q] = subs[q] /\ queue'[q] = queue[q]
    BY <1>16 DEF LiveKitApplies
  <2>3. UNCHANGED <<peers, gone, tracks, lists, direct, musicOn>>
    BY <1>16 DEF LiveKitApplies
  <2> HIDE DEF TypeOK, Idle, NoCall, MediaInv
  <2> QED BY <2>1, <2>2, <2>3
<1>17. ASSUME NEW p \in Conns, EnterRoom(p) PROVE NewInv'
    BY <1>17 DEF EnterRoom
<1>18. ASSUME NEW p \in Conns, LeaveRoom(p) PROVE NewInv'
    BY <1>18 DEF LeaveRoom
<1>19. ASSUME NEW p \in Conns, NEW s \in Sids, Publish(p, s) PROVE NewInv'
    BY <1>19 DEF Publish
<1>20. ASSUME NEW p \in Conns, NEW s \in Sids, Unpublish(p, s) PROVE NewInv'
    BY <1>20 DEF Unpublish
<1>21. ASSUME NEW p \in Conns, NEW s \in Sids, LiveKitLoses(p, s) PROVE NewInv'
    BY <1>21 DEF LiveKitLoses, Fault
<1>22. ASSUME Heal PROVE NewInv'
    BY <1>22 DEF Heal, Enqueue
<1>24. ASSUME NEW p \in Conns, Announce(p) PROVE NewInv'
    BY <1>24 DEF Announce
<1>23. CASE UNCHANGED vars
    BY <1>23
<1> QED
    BY <1>1, <1>2, <1>3, <1>4, <1>5, <1>6, <1>7, <1>8, <1>9, <1>10, <1>11, <1>12, <1>13, <1>14, <1>15, <1>16, <1>17, <1>18, <1>19, <1>20, <1>21, <1>22, <1>23, <1>24
    DEF Next, ServerStep, Outside, Edit

\* A pass computes what is allowed among the tracks that exist.
LEMMA WantedIsAllowed ==
  ASSUME TypeOK, MediaInv, TracksInv, NEW L \in Conns
  PROVE  wantedSids(L) = {s \in Live : Allowed(L, s)}
BY RoutingAssumption DEF TypeOK, MediaInv, TracksInv, wantedSids, Live, Allowed

\* What is held for a listener stays known until it ends.
LEMMA HeldStep ==
  TypeOK /\ MediaInv /\ TracksInv /\ NewInv /\ HeldInv /\ [Next]_vars => HeldInv'
<1> SUFFICES ASSUME TypeOK, MediaInv, TracksInv, NewInv, HeldInv, [Next]_vars
             PROVE  HeldInv'
    OBVIOUS
<1> USE RoutingAssumption DEF TypeOK, server, chain, media, vars, HeldInv, Held, Live,
        TracksInv, MediaInv, Idle
<1>1. ASSUME NEW p \in Conns, Join(p) PROVE HeldInv'
    BY <1>1 DEF Join
<1>2. ASSUME NEW p \in Conns, Close(p) PROVE HeldInv'
    BY <1>2 DEF Close, UserOp
<1>3. ASSUME NEW p \in Conns, NEW H \in SUBSET Chans, NEW T \in SUBSET (Conns \ {p}), State(p, H, T)
      PROVE HeldInv'
    BY <1>3 DEF State, UserOp, Enqueue
<1>4. ASSUME NEW p \in Conns, NEW c \in Chans, Music(p, c) PROVE HeldInv'
    BY <1>4 DEF Music, UserOp, Enqueue
<1>5. ASSUME NEW p \in Conns, NEW k \in ListCalls, TracksMsg(p, k) PROVE HeldInv'
    BY <1>5 DEF TracksMsg
<1>6. ASSUME NEW p \in Conns, NEW c \in Chans, NEW g \in Grants, GrantEdit(p, c, g)
      PROVE HeldInv'
    BY <1>6 DEF GrantEdit, Refresh, UserOp, Enqueue
<1>7. ASSUME NEW c \in Chans, NEW k \in ChanKinds, KindEdit(c, k) PROVE HeldInv'
    BY <1>7 DEF KindEdit, Refresh, UserOp, Enqueue
<1>8. ASSUME NEW s \in Sids, PlayerStart(s) PROVE HeldInv'
    BY <1>8 DEF PlayerStart, UserOp, Enqueue
<1>9. ASSUME NEW s \in Sids, PlayerStop(s) PROVE HeldInv'
    BY <1>9 DEF PlayerStop, UserOp, Enqueue
<1>10. ASSUME NEW p \in Conns, StartPass(p) PROVE HeldInv'
  <2>1. \A L \in Conns : Held(L)' \subseteq Held(L) \cup Live
    <3>1. wantedSids(p) \subseteq Live
      BY WantedIsAllowed
    <3>2. /\ subs'[p] \subseteq subs[p] \cup Live
          /\ pass'[p].want \subseteq pass[p].want \cup Live
          /\ pass'[p].add \subseteq pass[p].add \cup Live
          /\ pass'[p].drop \subseteq pass[p].drop \cup Live
      <4> HIDE DEF Live, HeldInv, MediaInv, TracksInv
      <4> QED BY <1>10, <3>1 DEF StartPass
    <3>3. \A L \in Conns \ {p} : subs'[L] = subs[L] /\ pass'[L] = pass[L]
      BY <1>10 DEF StartPass
    <3>4. UNCHANGED actual
      BY <1>10 DEF StartPass
    <3> HIDE DEF Live, HeldInv, MediaInv, TracksInv, TypeOK
    <3> QED BY <3>2, <3>3, <3>4 DEF Held
  <2>2. UNCHANGED <<peers, gone, tracks, onAir, published, used, lost>>
    BY <1>10 DEF StartPass
  <2>3. UNCHANGED Live
    BY <2>2 DEF Live
  <2>4. Live \subseteq used
    BY DEF Live
  <2> QED BY <2>1, <2>2, <2>3, <2>4 DEF HeldInv
<1>11. ASSUME NEW p \in Conns, CallReturns(p) PROVE HeldInv'
  <2>1. \A L \in Conns : Held(L)' \subseteq Held(L)
    <3>2. /\ subs'[p] \subseteq subs[p] \cup pass[p].want
          /\ pass'[p].want \subseteq pass[p].want
          /\ pass'[p].add \subseteq pass[p].add
          /\ pass'[p].drop \subseteq pass[p].drop
      <4>1. pass[p] \in Pass
        OBVIOUS
      <4>2. CASE pass'[p] = [pass[p] EXCEPT !.phase = "drop", !.applied = FALSE] /\ subs'[p] = subs[p]
        <5> HIDE DEF TypeOK, Held, HeldInv, Live, MediaInv, TracksInv, Idle
        <5> QED BY ZenonT(60), <4>1, <4>2, PassFields
      <4>3. CASE pass'[p] = Idle /\ subs'[p] = pass[p].want
        BY <4>3
      <4> QED BY <1>11, <4>2, <4>3, ReturnCases
    <3>3. \A L \in Conns \ {p} : subs'[L] = subs[L] /\ pass'[L] = pass[L]
      BY <1>11 DEF CallReturns
    <3>4. UNCHANGED actual
      BY <1>11 DEF CallReturns
    <3> HIDE DEF Live, HeldInv, MediaInv, TracksInv, TypeOK
    <3> QED BY <3>2, <3>3, <3>4 DEF Held
  <2>2. UNCHANGED <<peers, gone, tracks, onAir, published, used, lost>>
    BY <1>11 DEF CallReturns
  <2>3. UNCHANGED Live
    BY <2>2 DEF Live
  <2>4. Live \subseteq used
    BY DEF Live
  <2> QED BY <2>1, <2>2, <2>3, <2>4 DEF HeldInv
<1>12. ASSUME NEW p \in Conns, CallFails(p) PROVE HeldInv'
    BY <1>12 DEF CallFails, Fault
<1>13. ASSUME NEW p \in Conns, NEW k \in ListCalls, ListReturns(p, k) PROVE HeldInv'
    BY <1>13 DEF ListReturns, Enqueue
<1>14. ASSUME NEW p \in Conns, NEW k \in ListCalls, ListFails(p, k) PROVE HeldInv'
    BY <1>14 DEF ListFails, Fault
<1>15. ASSUME NEW p \in Conns, NEW k \in ListCalls, LiveKitLists(p, k) PROVE HeldInv'
    BY <1>15 DEF LiveKitLists
<1>16. ASSUME NEW p \in Conns, LiveKitApplies(p) PROVE HeldInv'
    BY <1>16 DEF LiveKitApplies
<1>17. ASSUME NEW p \in Conns, EnterRoom(p) PROVE HeldInv'
    BY <1>17 DEF EnterRoom
<1>18. ASSUME NEW p \in Conns, LeaveRoom(p) PROVE HeldInv'
    BY <1>18 DEF LeaveRoom
<1>19. ASSUME NEW p \in Conns, NEW s \in Sids, Publish(p, s) PROVE HeldInv'
    BY <1>19 DEF Publish
<1>20. ASSUME NEW p \in Conns, NEW s \in Sids, Unpublish(p, s) PROVE HeldInv'
    BY <1>20 DEF Unpublish
<1>21. ASSUME NEW p \in Conns, NEW s \in Sids, LiveKitLoses(p, s) PROVE HeldInv'
    BY <1>21 DEF LiveKitLoses, Fault
<1>22. ASSUME Heal PROVE HeldInv'
    BY <1>22 DEF Heal, Enqueue
<1>24. ASSUME NEW p \in Conns, Announce(p) PROVE HeldInv'
    BY <1>24 DEF Announce
<1>23. CASE UNCHANGED vars
    BY <1>23
<1> QED
    BY <1>1, <1>2, <1>3, <1>4, <1>5, <1>6, <1>7, <1>8, <1>9, <1>10, <1>11, <1>12, <1>13, <1>14, <1>15, <1>16, <1>17, <1>18, <1>19, <1>20, <1>21, <1>22, <1>23, <1>24
    DEF Next, ServerStep, Outside, Edit

\* A step that leaves L's chain alone, takes nothing from what L may receive and
\* brings no new track keeps L's part of the invariant.
LEMMA Shrinks ==
  ASSUME NEW L \in Conns, PassOK(L),
         subs'[L] = subs[L], pass'[L] = pass[L], queue'[L] = queue[L],
         actual'[L] \subseteq actual[L], Known' \subseteq Known,
         \A s \in Sids : Allowed(L, s) => Allowed(L, s)', Known \subseteq Sids
  PROVE  PassOK(L)'
BY DEF PassOK, RunDry, AboutToStart, UnderWay

\* So does a step that queues a pass for L, whatever it does to the rights, if
\* it forgets what L is subscribed to only when it leaves the rights alone.
LEMMA Queued ==
  ASSUME TypeOK, NEW L \in Conns, PassOK(L), Settled,
         queue'[L] \in {queue[L] + 1, queue[L] + 2}, pass'[L] = pass[L],
         actual'[L] \cap Known' \subseteq actual[L] \cap Known, Known \subseteq Sids,
         \/ subs'[L] = subs[L]
         \/ \A s \in Sids : Allowed(L, s) => Allowed(L, s)'
  PROVE  PassOK(L)'
<1>1. queue[L] \in Nat /\ queue'[L] > 0
  BY DEF TypeOK
<1>2. CASE pass[L].phase = "idle"
  <2>1. RunDry(L)
    BY <1>1, <1>2 DEF PassOK, Settled, Ready
  <2>2. AboutToStart(L)'
    BY <2>1 DEF RunDry, AboutToStart
  <2> QED BY <1>1, <1>2, <2>2 DEF PassOK
<1>3. CASE pass[L].phase # "idle"
  BY <1>1, <1>3 DEF PassOK, UnderWay
<1> QED BY <1>2, <1>3

\* The chain's bookkeeping survives every step; only a failed call can break it.
LEMMA PassStep == TypeOK /\ MediaInv /\ TracksInv /\ NewInv /\ HeldInv /\ PassInv
                  /\ NoFailedCall' /\ [Next]_vars => PassInv'
<1> SUFFICES ASSUME TypeOK, MediaInv, TracksInv, NewInv, HeldInv, PassInv, NoFailedCall', [Next]_vars
             PROVE  PassInv'
    OBVIOUS
<1> USE RoutingAssumption DEF server, chain, media, vars
<1>a. peers \subseteq Conns /\ Known \subseteq Sids
    BY DEF TypeOK, Known, Live
<1>1. ASSUME NEW p \in Conns, Join(p) PROVE PassInv'
  <2>1. tracks[p] = {} /\ subs[p] = {} /\ pass[p] = Idle /\ queue[p] = 0 /\ actual[p] = {}
    BY <1>1 DEF Join, NewInv, MediaInv
  <2>2. peers' = peers \cup {p} /\ UNCHANGED <<subs, pass, queue, actual, tracks, onAir, lost>>
    BY <1>1, <2>1 DEF Join, TypeOK
  <2>7. UNCHANGED <<direct, musicOn, perms, kind>> /\ \A L \in Conns \ {p} : listen'[L] = listen[L]
    BY <1>1 DEF Join, NewInv, TypeOK
  <2>3. UNCHANGED Known
    BY <2>1, <2>2 DEF Known, Live
  <2>4. \A L \in Conns \ {p}, s \in Sids : Allowed(L, s) => Allowed(L, s)'
    BY ZenonT(60), <2>7 DEF Allowed, Entitled, Hears
  <2> SUFFICES ASSUME NEW L \in peers'
               PROVE  PassOK(L)'
      BY DEF PassInv
  <2>5. CASE L = p
    BY <2>1, <2>2, <2>5 DEF PassOK, RunDry, Idle
  <2>6. CASE L # p
    BY <1>a, <2>2, <2>3, <2>4, <2>6, Shrinks DEF PassInv
  <2> QED BY <2>5, <2>6
<1>2. ASSUME NEW p \in Conns, Close(p) PROVE PassInv'
  <2>1. \A L \in peers' : L \in peers /\ subs'[L] = subs[L] /\ pass'[L] = pass[L] /\ queue'[L] = queue[L]
    BY <1>2 DEF Close
  <2>2. \A L \in Conns : actual'[L] \subseteq actual[L]
    BY <1>2 DEF Close
  <2>3. Known' \subseteq Known
    BY <1>2 DEF Close, Known, Live
  <2>4. \A L \in Conns, s \in Sids : Allowed(L, s) => Allowed(L, s)'
    BY ZenonT(60), <1>2 DEF Close, Allowed, Entitled, Hears
  <2> SUFFICES ASSUME NEW L \in peers'
               PROVE  PassOK(L)'
      BY DEF PassInv
  <2>5. L \in Conns /\ PassOK(L)
    BY <1>a, <2>1 DEF PassInv
  <2> QED BY <1>a, <2>1, <2>2, <2>3, <2>4, <2>5, Shrinks
<1>3. ASSUME NEW p \in Conns, NEW H \in SUBSET Chans, NEW T \in SUBSET (Conns \ {p}), State(p, H, T)
      PROVE PassInv'
  <2>1. UNCHANGED <<peers, subs, pass, actual, tracks, onAir, lost, perms, kind, musicOn>> /\ Settled
    BY <1>3 DEF State, UserOp
  <2>2. UNCHANGED Known
    BY <2>1 DEF Known, Live
  <2> SUFFICES ASSUME NEW L \in peers'
               PROVE  PassOK(L)'
      BY DEF PassInv
  <2>3. L \in Conns /\ PassOK(L)
    BY <1>a, <2>1 DEF PassInv
  <2>4. CASE queue'[L] \in {queue[L] + 1, queue[L] + 2}
    BY <1>a, <2>1, <2>2, <2>3, <2>4, Queued
  <2>5. CASE L # p /\ direct' = direct /\ queue'[L] = queue[L]
    <3>1. listen'[L] = listen[L]
      BY <1>3, <2>3, <2>5 DEF State, TypeOK
    <3>2. \A s \in Sids : Allowed(L, s) => Allowed(L, s)'
      BY <2>1, <2>5, <3>1 DEF Allowed, Entitled, Hears
    <3> QED BY <1>a, <2>1, <2>2, <2>3, <2>5, <3>2, Shrinks
  <2>6. \/ queue'[L] \in {queue[L] + 1, queue[L] + 2}
        \/ L # p /\ direct' = direct /\ queue'[L] = queue[L]
    <3>1. CASE direct'[p] = direct[p]
      <4>1. direct' = direct
        BY <1>3, <3>1 DEF State, TypeOK
      <4> QED BY <1>3, <2>3, <3>1, <4>1 DEF State, TypeOK
    <3>2. CASE direct'[p] # direct[p]
      BY <1>3, <2>1, <2>3, <3>2 DEF State, TypeOK
    <3> QED BY <3>1, <3>2
  <2> QED BY <2>4, <2>5, <2>6
<1>4. ASSUME NEW p \in Conns, NEW c \in Chans, Music(p, c) PROVE PassInv'
  <2>1. \A L \in peers' : L \in peers /\ queue'[L] = queue[L] + 1 /\ pass'[L] = pass[L]
    BY <1>a, <1>4 DEF Music, Enqueue
  <2>2. \A L \in Conns : actual'[L] \cap Known' \subseteq actual[L] \cap Known
    BY <1>4, HeldInv, MediaInv DEF Music, Known, Live, Held, HeldInv, MediaInv
  <2>3. UNCHANGED subs
    BY <1>4 DEF Music
  <2>4. Settled
    BY <1>4 DEF Music, UserOp
  <2> SUFFICES ASSUME NEW L \in peers'
               PROVE  PassOK(L)'
      BY DEF PassInv
  <2>5. L \in Conns /\ PassOK(L)
    BY <1>a, <2>1 DEF PassInv
  <2> QED BY <1>a, <2>1, <2>2, <2>3, <2>4, <2>5, Queued
<1>5. ASSUME NEW p \in Conns, NEW k \in ListCalls, TracksMsg(p, k) PROVE PassInv'
  <2>1. \A L \in peers' : L \in peers /\ subs'[L] = subs[L] /\ pass'[L] = pass[L] /\ queue'[L] = queue[L]
    BY <1>5 DEF TracksMsg
  <2>2. \A L \in Conns : actual'[L] \subseteq actual[L]
    BY <1>5 DEF TracksMsg
  <2>3. Known' \subseteq Known
    BY <1>5 DEF TracksMsg, Known, Live
  <2>4. \A L \in Conns, s \in Sids : Allowed(L, s) => Allowed(L, s)'
    BY ZenonT(60), <1>5 DEF TracksMsg, Allowed, Entitled, Hears
  <2> SUFFICES ASSUME NEW L \in peers'
               PROVE  PassOK(L)'
      BY DEF PassInv
  <2>5. L \in Conns /\ PassOK(L)
    BY <1>a, <2>1 DEF PassInv
  <2> QED BY <1>a, <2>1, <2>2, <2>3, <2>4, <2>5, Shrinks
<1>6. ASSUME NEW p \in Conns, NEW c \in Chans, NEW g \in Grants, GrantEdit(p, c, g)
      PROVE PassInv'
  <2>1. \A L \in peers' : L \in peers /\ queue'[L] = queue[L] + 1 /\ pass'[L] = pass[L]
    BY <1>a, <1>6 DEF GrantEdit, Enqueue, Refresh
  <2>2. \A L \in Conns : actual'[L] \cap Known' \subseteq actual[L] \cap Known
    BY <1>6, HeldInv, MediaInv DEF GrantEdit, Refresh, Known, Live, Held, HeldInv, MediaInv
  <2>3. UNCHANGED subs
    BY <1>6 DEF GrantEdit, Refresh
  <2>4. Settled
    BY <1>6 DEF GrantEdit, UserOp
  <2> SUFFICES ASSUME NEW L \in peers'
               PROVE  PassOK(L)'
      BY DEF PassInv
  <2>5. L \in Conns /\ PassOK(L)
    BY <1>a, <2>1 DEF PassInv
  <2> QED BY <1>a, <2>1, <2>2, <2>3, <2>4, <2>5, Queued
<1>7. ASSUME NEW c \in Chans, NEW k \in ChanKinds, KindEdit(c, k) PROVE PassInv'
  <2>1. \A L \in peers' : L \in peers /\ queue'[L] = queue[L] + 1 /\ pass'[L] = pass[L]
    BY <1>a, <1>7 DEF KindEdit, Enqueue, Refresh
  <2>2. \A L \in Conns : actual'[L] \cap Known' \subseteq actual[L] \cap Known
    BY <1>7, HeldInv, MediaInv DEF KindEdit, Refresh, Known, Live, Held, HeldInv, MediaInv
  <2>3. UNCHANGED subs
    BY <1>7 DEF KindEdit, Refresh
  <2>4. Settled
    BY <1>7 DEF KindEdit, UserOp
  <2> SUFFICES ASSUME NEW L \in peers'
               PROVE  PassOK(L)'
      BY DEF PassInv
  <2>5. L \in Conns /\ PassOK(L)
    BY <1>a, <2>1 DEF PassInv
  <2> QED BY <1>a, <2>1, <2>2, <2>3, <2>4, <2>5, Queued
<1>8. ASSUME NEW s \in Sids, PlayerStart(s) PROVE PassInv'
  <2>1. \A L \in peers' : L \in peers /\ queue'[L] = queue[L] + 1 /\ pass'[L] = pass[L]
    BY <1>a, <1>8 DEF PlayerStart, Enqueue
  <2>2. \A L \in Conns : actual'[L] \cap Known' \subseteq actual[L] \cap Known
    BY <1>8, HeldInv, MediaInv DEF PlayerStart, Known, Live, Held, HeldInv, MediaInv
  <2>3. UNCHANGED subs
    BY <1>8 DEF PlayerStart
  <2>4. Settled
    BY <1>8 DEF PlayerStart, UserOp
  <2> SUFFICES ASSUME NEW L \in peers'
               PROVE  PassOK(L)'
      BY DEF PassInv
  <2>5. L \in Conns /\ PassOK(L)
    BY <1>a, <2>1 DEF PassInv
  <2> QED BY <1>a, <2>1, <2>2, <2>3, <2>4, <2>5, Queued
<1>9. ASSUME NEW s \in Sids, PlayerStop(s) PROVE PassInv'
  <2>1. \A L \in peers' : L \in peers /\ queue'[L] = queue[L] + 1 /\ pass'[L] = pass[L]
    BY <1>a, <1>9 DEF PlayerStop, Enqueue
  <2>2. \A L \in Conns : actual'[L] \cap Known' \subseteq actual[L] \cap Known
    BY <1>9, HeldInv, MediaInv DEF PlayerStop, Known, Live, Held, HeldInv, MediaInv
  <2>3. UNCHANGED subs
    BY <1>9 DEF PlayerStop
  <2>4. Settled
    BY <1>9 DEF PlayerStop, UserOp
  <2> SUFFICES ASSUME NEW L \in peers'
               PROVE  PassOK(L)'
      BY DEF PassInv
  <2>5. L \in Conns /\ PassOK(L)
    BY <1>a, <2>1 DEF PassInv
  <2> QED BY <1>a, <2>1, <2>2, <2>3, <2>4, <2>5, Queued
<1>10. ASSUME NEW p \in Conns, StartPass(p) PROVE PassInv'
  <2>1. UNCHANGED <<peers, tracks, onAir, lost>> /\ \A L \in Conns \ {p} :
          subs'[L] = subs[L] /\ pass'[L] = pass[L] /\ queue'[L] = queue[L] /\ actual'[L] = actual[L]
    BY <1>10 DEF StartPass, TypeOK
  <2>2. UNCHANGED Known
    BY <2>1 DEF Known, Live
  <2>3. \A L \in Conns, s \in Sids : Allowed(L, s)' = Allowed(L, s)
    BY <1>10 DEF StartPass, Allowed, Entitled, Hears
  <2> SUFFICES ASSUME NEW L \in peers'
               PROVE  PassOK(L)'
      BY DEF PassInv
  <2>4. CASE L # p
    BY <1>a, <2>1, <2>2, <2>3, <2>4, Shrinks DEF PassInv
  <2>5. CASE L = p
    <3> DEFINE want == wantedSids(p)  add == want \ subs[p]  drop == (subs[p] \ want) \cap Live
    <3>1. want = {s \in Live : Allowed(p, s)} /\ Known \subseteq Live
      BY WantedIsAllowed DEF Known, Live
    <3>2. pass[p].phase = "idle" /\ queue[p] > 0 /\ p \in peers /\ UNCHANGED actual
      BY <1>10, <2>1, <2>5 DEF StartPass, Ready
    <3>3. actual[p] \cap Known \subseteq want \cup drop
      BY <3>1, <3>2 DEF PassInv, PassOK, AboutToStart
    <3>4. CASE add \cup drop = {}
      <4>1. pass'[p] = pass[p] /\ subs'[p] = want
        BY <1>10, <3>2, <3>4 DEF StartPass, TypeOK
      <4>2. RunDry(p)'
        BY <1>a, <2>2, <2>3, <3>1, <3>2, <3>3, <3>4, <4>1 DEF RunDry
      <4>3. AboutToStart(p)'
        BY <1>a, <2>2, <2>3, <3>1, <3>2, <3>3, <3>4, <4>1 DEF AboutToStart
      <4> QED BY <2>5, <3>2, <4>1, <4>2, <4>3 DEF PassOK
    <3>5. CASE add \cup drop # {}
      <4>1. pass'[p] = [phase |-> IF add = {} THEN "drop" ELSE "add",
                        want |-> want, add |-> add, drop |-> drop, applied |-> FALSE]
        <5>1. pass' = [pass EXCEPT ![p] =
                 [phase |-> IF add = {} THEN "drop" ELSE "add",
                  want |-> want, add |-> add, drop |-> drop, applied |-> FALSE]]
          BY <1>10, <3>2, <3>5 DEF StartPass
        <5>2. pass \in [Conns -> Pass]
          BY DEF TypeOK
        <5> QED BY <5>1, <5>2
      <4>2. /\ pass'[p].want = want /\ pass'[p].add = add /\ pass'[p].drop = drop
            /\ pass'[p].phase # "idle" /\ pass'[p].applied = FALSE
        BY <4>1
      <4>3. UnderWay(p)'
        <5> HIDE DEF drop
        <5> QED BY <1>a, <2>2, <2>3, <3>1, <3>2, <3>3, <4>2 DEF UnderWay
      <4> QED BY <2>5, <4>2, <4>3 DEF PassOK
    <3> QED BY <3>4, <3>5
  <2> QED BY <2>4, <2>5
<1>11. ASSUME NEW p \in Conns, CallReturns(p) PROVE PassInv'
  <2>1. UNCHANGED <<peers, tracks, onAir, lost>> /\ \A L \in Conns \ {p} :
          subs'[L] = subs[L] /\ pass'[L] = pass[L] /\ queue'[L] = queue[L] /\ actual'[L] = actual[L]
    BY <1>11 DEF CallReturns, TypeOK
  <2>2. UNCHANGED Known
    BY <2>1 DEF Known, Live
  <2>3. \A L \in Conns, s \in Sids : Allowed(L, s)' = Allowed(L, s)
    BY <1>11 DEF CallReturns, Allowed, Entitled, Hears
  <2> SUFFICES ASSUME NEW L \in peers'
               PROVE  PassOK(L)'
      BY DEF PassInv
  <2>4. CASE L # p
    BY <1>a, <2>1, <2>2, <2>3, <2>4, Shrinks DEF PassInv
  <2>5. CASE L = p
    <3>1. UnderWay(p) /\ pass[p] \in Pass /\ UNCHANGED <<actual, queue>> /\ queue[p] \in Nat
      BY <1>11, <2>1, <2>5 DEF CallReturns, PassInv, PassOK, TypeOK
    <3>2. CASE pass'[p] = [pass[p] EXCEPT !.phase = "drop", !.applied = FALSE]
      <4>1. /\ pass'[p].want = pass[p].want /\ pass'[p].add = pass[p].add
            /\ pass'[p].drop = pass[p].drop
            /\ pass'[p].phase = "drop" /\ ~pass'[p].applied
        <5>1. pass[p] \in Pass
          BY <3>1
        <5> DEFINE q == pass'[p]
        <5>2. q = [pass[p] EXCEPT !.phase = "drop", !.applied = FALSE]
          BY <3>2
        <5> HIDE DEF q
        <5>3. /\ q.want = pass[p].want /\ q.add = pass[p].add /\ q.drop = pass[p].drop
              /\ q.phase = "drop" /\ ~q.applied
          BY <5>1, <5>2, PassFields
        <5> QED BY <5>3 DEF q
      <4>2. UnderWay(p)'
        BY <1>a, <2>2, <2>3, <3>1, <4>1 DEF UnderWay
      <4> QED BY <2>5, <4>1, <4>2 DEF PassOK
    <3>3. CASE /\ pass[p].drop = {} \/ pass[p].phase = "drop"
               /\ pass'[p] = Idle /\ subs'[p] = pass[p].want
      <4>1. pass[p].applied /\ pass'[p].phase = "idle"
        BY <1>11, <3>3 DEF CallReturns, Idle
      <4>2. actual[p] \cap Known \subseteq pass[p].want
        BY <3>1, <3>3, <4>1 DEF UnderWay
      <4>3. queue[p] = 0 => RunDry(p)'
        BY <1>a, <2>2, <2>3, <3>1, <3>3, <4>2 DEF UnderWay, RunDry
      <4>4. AboutToStart(p)'
        BY <2>2, <3>1, <3>3, <4>2 DEF AboutToStart
      <4> QED BY <2>5, <3>1, <4>1, <4>3, <4>4 DEF PassOK
    <3> QED BY <1>11, <3>2, <3>3, ReturnCases
  <2> QED BY <2>4, <2>5
<1>12. ASSUME NEW p \in Conns, CallFails(p) PROVE PassInv'
  BY <1>12 DEF CallFails, Fault, NoFailedCall, Failed, Disturbances, TypeOK
<1>13. ASSUME NEW p \in Conns, NEW k \in ListCalls, ListReturns(p, k) PROVE PassInv'
  <2>1. \A L \in peers' : L \in peers /\ queue'[L] = queue[L] + 1 /\ pass'[L] = pass[L]
    BY <1>a, <1>13 DEF ListReturns, Enqueue
  <2>2. \A L \in Conns : actual'[L] \cap Known' \subseteq actual[L] \cap Known
    BY <1>13, RoutingAssumption DEF ListReturns, Known, Live, Held, HeldInv, MediaInv, TracksInv, TypeOK
  <2>3. \A L \in Conns, s \in Sids : Allowed(L, s) => Allowed(L, s)'
    BY ZenonT(60), <1>13 DEF ListReturns, Allowed, Entitled, Hears
  <2>4. Settled
    BY <1>13 DEF ListReturns
  <2> SUFFICES ASSUME NEW L \in peers'
               PROVE  PassOK(L)'
      BY DEF PassInv
  <2>5. L \in Conns /\ PassOK(L)
    BY <1>a, <2>1 DEF PassInv
  <2> QED BY <1>a, <2>1, <2>2, <2>3, <2>4, <2>5, Queued
<1>14. ASSUME NEW p \in Conns, NEW k \in ListCalls, ListFails(p, k) PROVE PassInv'
  <2>1. \A L \in peers' : L \in peers /\ subs'[L] = subs[L] /\ pass'[L] = pass[L] /\ queue'[L] = queue[L]
    BY <1>14 DEF ListFails
  <2>2. \A L \in Conns : actual'[L] \subseteq actual[L]
    BY <1>14 DEF ListFails
  <2>3. Known' \subseteq Known
    BY <1>14 DEF ListFails, Known, Live
  <2>4. \A L \in Conns, s \in Sids : Allowed(L, s) => Allowed(L, s)'
    BY ZenonT(60), <1>14 DEF ListFails, Allowed, Entitled, Hears
  <2> SUFFICES ASSUME NEW L \in peers'
               PROVE  PassOK(L)'
      BY DEF PassInv
  <2>5. L \in Conns /\ PassOK(L)
    BY <1>a, <2>1 DEF PassInv
  <2> QED BY <1>a, <2>1, <2>2, <2>3, <2>4, <2>5, Shrinks
<1>15. ASSUME NEW p \in Conns, NEW k \in ListCalls, LiveKitLists(p, k) PROVE PassInv'
  <2>1. \A L \in peers' : L \in peers /\ subs'[L] = subs[L] /\ pass'[L] = pass[L] /\ queue'[L] = queue[L]
    BY <1>15 DEF LiveKitLists
  <2>2. \A L \in Conns : actual'[L] \subseteq actual[L]
    BY <1>15 DEF LiveKitLists
  <2>3. Known' \subseteq Known
    BY <1>15 DEF LiveKitLists, Known, Live
  <2>4. \A L \in Conns, s \in Sids : Allowed(L, s) => Allowed(L, s)'
    BY ZenonT(60), <1>15 DEF LiveKitLists, Allowed, Entitled, Hears
  <2> SUFFICES ASSUME NEW L \in peers'
               PROVE  PassOK(L)'
      BY DEF PassInv
  <2>5. L \in Conns /\ PassOK(L)
    BY <1>a, <2>1 DEF PassInv
  <2> QED BY <1>a, <2>1, <2>2, <2>3, <2>4, <2>5, Shrinks
<1>16. ASSUME NEW p \in Conns, LiveKitApplies(p) PROVE PassInv'
  <2>1. UNCHANGED <<peers, tracks, onAir, lost>> /\ \A L \in Conns \ {p} :
          subs'[L] = subs[L] /\ pass'[L] = pass[L] /\ queue'[L] = queue[L] /\ actual'[L] = actual[L]
    BY <1>16 DEF LiveKitApplies, TypeOK
  <2>2. UNCHANGED Known
    BY <2>1 DEF Known, Live
  <2>3. \A L \in Conns, s \in Sids : Allowed(L, s)' = Allowed(L, s)
    BY <1>16 DEF LiveKitApplies, Allowed, Entitled, Hears
  <2> SUFFICES ASSUME NEW L \in peers'
               PROVE  PassOK(L)'
      BY DEF PassInv
  <2>4. CASE L # p
    BY <1>a, <2>1, <2>2, <2>3, <2>4, Shrinks DEF PassInv
  <2>5. CASE L = p
    <3>1. UnderWay(p) /\ pass[p] \in Pass /\ UNCHANGED <<subs, queue>>
      BY <1>16, <2>1, <2>5 DEF LiveKitApplies, PassInv, PassOK, TypeOK
    <3>2. pass'[p] = [pass[p] EXCEPT !.applied = TRUE] /\ pass[p].phase # "idle"
      BY <1>16 DEF LiveKitApplies, TypeOK
    <3>3. /\ pass'[p].want = pass[p].want /\ pass'[p].add = pass[p].add
          /\ pass'[p].drop = pass[p].drop /\ pass'[p].phase = pass[p].phase
      BY <3>1, <3>2, AppliedFields
    <3>4. actual'[p] \subseteq actual[p] \cup pass[p].add
      BY <1>16 DEF LiveKitApplies, TypeOK
    <3>5. pass[p].phase = "drop" => actual'[p] \cap pass[p].drop = {}
      <4>1. CASE p \in inRoom
        BY <1>16, <4>1 DEF LiveKitApplies, TypeOK
      <4>2. CASE p \notin inRoom
        BY <1>16, <4>2 DEF LiveKitApplies, TypeOK, MediaInv
      <4> QED BY <4>1, <4>2
    <3>6. actual'[p] \cap Known \subseteq pass[p].want \cup pass[p].drop
      BY <3>1, <3>4 DEF UnderWay
    <3>7. pass[p].phase = "drop" => actual'[p] \cap Known \subseteq pass[p].want
      BY <3>5, <3>6
    <3>8. UnderWay(p)'
      BY <1>a, <2>2, <2>3, <3>1, <3>3, <3>6, <3>7 DEF UnderWay
    <3> QED BY <2>5, <3>2, <3>3, <3>8 DEF PassOK
  <2> QED BY <2>4, <2>5
<1>17. ASSUME NEW p \in Conns, EnterRoom(p) PROVE PassInv'
  <2>1. \A L \in peers' : L \in peers /\ subs'[L] = subs[L] /\ pass'[L] = pass[L] /\ queue'[L] = queue[L]
    BY <1>17 DEF EnterRoom
  <2>2. \A L \in Conns : actual'[L] \subseteq actual[L]
    BY <1>17 DEF EnterRoom
  <2>3. Known' \subseteq Known
    BY <1>17 DEF EnterRoom, Known, Live
  <2>4. \A L \in Conns, s \in Sids : Allowed(L, s) => Allowed(L, s)'
    BY ZenonT(60), <1>17 DEF EnterRoom, Allowed, Entitled, Hears
  <2> SUFFICES ASSUME NEW L \in peers'
               PROVE  PassOK(L)'
      BY DEF PassInv
  <2>5. L \in Conns /\ PassOK(L)
    BY <1>a, <2>1 DEF PassInv
  <2> QED BY <1>a, <2>1, <2>2, <2>3, <2>4, <2>5, Shrinks
<1>18. ASSUME NEW p \in Conns, LeaveRoom(p) PROVE PassInv'
  <2>1. \A L \in peers' : L \in peers /\ subs'[L] = subs[L] /\ pass'[L] = pass[L] /\ queue'[L] = queue[L]
    BY <1>18 DEF LeaveRoom
  <2>2. \A L \in Conns : actual'[L] \subseteq actual[L]
    BY <1>18 DEF LeaveRoom
  <2>3. Known' \subseteq Known
    BY <1>18 DEF LeaveRoom, Known, Live
  <2>4. \A L \in Conns, s \in Sids : Allowed(L, s) => Allowed(L, s)'
    BY ZenonT(60), <1>18 DEF LeaveRoom, Allowed, Entitled, Hears
  <2> SUFFICES ASSUME NEW L \in peers'
               PROVE  PassOK(L)'
      BY DEF PassInv
  <2>5. L \in Conns /\ PassOK(L)
    BY <1>a, <2>1 DEF PassInv
  <2> QED BY <1>a, <2>1, <2>2, <2>3, <2>4, <2>5, Shrinks
<1>19. ASSUME NEW p \in Conns, NEW r \in Sids, Publish(p, r) PROVE PassInv'
  <2>1. \A L \in peers' : L \in peers /\ subs'[L] = subs[L] /\ pass'[L] = pass[L] /\ queue'[L] = queue[L]
    BY <1>19 DEF Publish
  <2>2. \A L \in Conns : actual'[L] \subseteq actual[L]
    BY <1>19 DEF Publish
  <2>3. Known' \subseteq Known
    BY <1>19 DEF Publish, Known, Live
  <2>4. \A L \in Conns, s \in Sids : Allowed(L, s) => Allowed(L, s)'
    BY ZenonT(60), <1>19 DEF Publish, Allowed, Entitled, Hears
  <2> SUFFICES ASSUME NEW L \in peers'
               PROVE  PassOK(L)'
      BY DEF PassInv
  <2>5. L \in Conns /\ PassOK(L)
    BY <1>a, <2>1 DEF PassInv
  <2> QED BY <1>a, <2>1, <2>2, <2>3, <2>4, <2>5, Shrinks
<1>20. ASSUME NEW p \in Conns, NEW r \in Sids, Unpublish(p, r) PROVE PassInv'
  <2>1. \A L \in peers' : L \in peers /\ subs'[L] = subs[L] /\ pass'[L] = pass[L] /\ queue'[L] = queue[L]
    BY <1>20 DEF Unpublish
  <2>2. \A L \in Conns : actual'[L] \subseteq actual[L]
    BY <1>20 DEF Unpublish
  <2>3. Known' \subseteq Known
    BY <1>20 DEF Unpublish, Known, Live
  <2>4. \A L \in Conns, s \in Sids : Allowed(L, s) => Allowed(L, s)'
    BY ZenonT(60), <1>20 DEF Unpublish, Allowed, Entitled, Hears
  <2> SUFFICES ASSUME NEW L \in peers'
               PROVE  PassOK(L)'
      BY DEF PassInv
  <2>5. L \in Conns /\ PassOK(L)
    BY <1>a, <2>1 DEF PassInv
  <2> QED BY <1>a, <2>1, <2>2, <2>3, <2>4, <2>5, Shrinks
<1>21. ASSUME NEW p \in Conns, NEW r \in Sids, LiveKitLoses(p, r) PROVE PassInv'
  <2>1. \A L \in peers' : L \in peers /\ subs'[L] = subs[L] /\ pass'[L] = pass[L] /\ queue'[L] = queue[L]
    BY <1>21 DEF LiveKitLoses
  <2>2. \A L \in Conns : actual'[L] \subseteq actual[L]
    BY <1>21 DEF LiveKitLoses
  <2>3. Known' \subseteq Known
    BY <1>21 DEF LiveKitLoses, Known, Live
  <2>4. \A L \in Conns, s \in Sids : Allowed(L, s) => Allowed(L, s)'
    BY ZenonT(60), <1>21 DEF LiveKitLoses, Allowed, Entitled, Hears
  <2> SUFFICES ASSUME NEW L \in peers'
               PROVE  PassOK(L)'
      BY DEF PassInv
  <2>5. L \in Conns /\ PassOK(L)
    BY <1>a, <2>1 DEF PassInv
  <2> QED BY <1>a, <2>1, <2>2, <2>3, <2>4, <2>5, Shrinks
<1>22. ASSUME Heal PROVE PassInv'
  <2>1. \A L \in peers' : L \in peers /\ queue'[L] = queue[L] + 1 /\ pass'[L] = pass[L]
    BY <1>a, <1>22 DEF Heal, Enqueue
  <2>2. \A L \in Conns : actual'[L] \cap Known' \subseteq actual[L] \cap Known
    BY <1>22, RoutingAssumption DEF Heal, Known, Live, Held, HeldInv, MediaInv, TracksInv, TypeOK
  <2>3. \A L \in Conns, s \in Sids : Allowed(L, s) => Allowed(L, s)'
    BY ZenonT(60), <1>22 DEF Heal, Allowed, Entitled, Hears
  <2>4. Settled
    BY <1>22 DEF Heal
  <2> SUFFICES ASSUME NEW L \in peers'
               PROVE  PassOK(L)'
      BY DEF PassInv
  <2>5. L \in Conns /\ PassOK(L)
    BY <1>a, <2>1 DEF PassInv
  <2> QED BY <1>a, <2>1, <2>2, <2>3, <2>4, <2>5, Queued
<1>24. ASSUME NEW p \in Conns, Announce(p) PROVE PassInv'
  <2>1. \A L \in peers' : L \in peers /\ subs'[L] = subs[L] /\ pass'[L] = pass[L] /\ queue'[L] = queue[L]
    BY <1>24 DEF Announce
  <2>2. \A L \in Conns : actual'[L] \subseteq actual[L]
    BY <1>24 DEF Announce
  <2>3. Known' \subseteq Known
    BY <1>24 DEF Announce, Known, Live
  <2>4. \A L \in Conns, s \in Sids : Allowed(L, s) => Allowed(L, s)'
    BY ZenonT(60), <1>24 DEF Announce, Allowed, Entitled, Hears
  <2> SUFFICES ASSUME NEW L \in peers'
               PROVE  PassOK(L)'
      BY DEF PassInv
  <2>5. L \in Conns /\ PassOK(L)
    BY <1>a, <2>1 DEF PassInv
  <2> QED BY <1>a, <2>1, <2>2, <2>3, <2>4, <2>5, Shrinks
<1>23. CASE UNCHANGED vars
    <2>1. UNCHANGED <<subs, pass, queue, actual, Known, peers>>
      BY <1>23 DEF Known, Live
    <2>2. \A L \in Conns, s \in Sids : Allowed(L, s) => Allowed(L, s)'
      BY ZenonT(60), <1>23 DEF Allowed, Entitled, Hears
    <2> QED BY <1>a, <2>1, <2>2, Shrinks DEF PassInv
<1> QED
    BY <1>1, <1>2, <1>3, <1>4, <1>5, <1>6, <1>7, <1>8, <1>9, <1>10, <1>11, <1>12, <1>13, <1>14, <1>15, <1>16, <1>17, <1>18, <1>19, <1>20, <1>21, <1>22, <1>23, <1>24
    DEF Next, ServerStep, Outside, Edit

\* Faults are not undone.
LEMMA FaultsGrow ==
  ASSUME TypeOK, [Next]_vars
  PROVE  /\ Failed("call") => Failed("call")'
         /\ Failed("reply") => Failed("reply")'
<1>a. \A k : Fault(k) => k \in FaultKinds /\ faults' = [faults EXCEPT ![k] = @ + 1]
  BY DEF Fault
<1>1. \/ faults' = faults
      \/ \E k \in FaultKinds : faults' = [faults EXCEPT ![k] = @ + 1]
  BY <1>a, ZenonT(60) DEF Next, ServerStep, Outside, Edit, Join, Close, State, Music, TracksMsg, GrantEdit, KindEdit,
     Refresh, PlayerStart, PlayerStop, StartPass, CallReturns, CallFails, ListReturns, ListFails,
     LiveKitLists, LiveKitApplies, EnterRoom, LeaveRoom, Publish, Unpublish, Announce,
     LiveKitLoses, Heal, vars
<1> QED BY <1>1, RoutingAssumption DEF TypeOK, Failed, Disturbances

\* An edit that does not change what a client is sent takes no right away that
\* the client uses.
LEMMA SameView ==
  ASSUME NEW r \in [Chans -> SUBSET Rights], NEW q \in [Chans -> SUBSET Rights],
         NEW k, NEW m, View(r, k) = View(q, m), NEW c \in Chans
  PROVE  /\ "listen" \in q[c] => "listen" \in r[c]
         /\ q[c] # {} /\ MayStartMusic(q, m, c) => MayStartMusic(r, k, c)
<1>1. Visible(r) = Visible(q)
  BY DEF View
<1>2. CASE c \in Visible(q)
  <2>1. View(r, k)[c] = View(q, m)[c]
    OBVIOUS
  <2>2. <<k[c], "talk" \in r[c], "listen" \in r[c], MayStartMusic(r, k, c)>>
          = <<m[c], "talk" \in q[c], "listen" \in q[c], MayStartMusic(q, m, c)>>
    BY <1>1, <1>2, <2>1 DEF View
  <2> QED BY <2>2
<1>3. CASE c \notin Visible(q)
  BY <1>3 DEF Visible
<1> QED BY <1>2, <1>3

\* An edit switches off what its new rights no longer allow.
LEMMA RefreshClamps ==
  ASSUME TypeOK, SwitchedOnIsAllowed,
         NEW r \in [Conns -> [Chans -> SUBSET Rights]], NEW k \in [Chans -> Kinds],
         Refresh(r, k)
  PROVE  SwitchedOnIsAllowed'
<1> SUFFICES ASSUME NEW p \in peers
             PROVE  /\ \A c \in listen'[p] : "listen" \in r[p][c]
                    /\ \A c \in musicOn'[p] : MayStartMusic(r[p], k, c)
    BY ZenonT(60) DEF Refresh, KeptListen, KeptMusic, AddedListen, SwitchedOnIsAllowed, MayStartMusic
<1>1. p \in Conns /\ listen[p] \subseteq Chans /\ musicOn[p] \subseteq Chans
  BY DEF TypeOK
<1>2. CASE View(r[p], k) # View(perms[p], kind)
  <2>1. \A c \in listen'[p] : "listen" \in r[p][c]
    BY <1>1, <1>2 DEF Refresh, KeptListen, KeptMusic, AddedListen
  <2>2. \A c \in musicOn'[p] : MayStartMusic(r[p], k, c)
    BY <1>1, <1>2 DEF Refresh, KeptListen, KeptMusic, AddedListen
  <2> QED BY <2>1, <2>2
<1>3. CASE View(r[p], k) = View(perms[p], kind)
  <2>1. listen'[p] = listen[p] /\ musicOn'[p] = musicOn[p]
    BY <1>1, <1>3 DEF Refresh, KeptListen, KeptMusic, AddedListen
  <2>2. \A c \in listen[p] : "listen" \in perms[p][c]
    BY DEF SwitchedOnIsAllowed
  <2>3. \A c \in musicOn[p] : MayStartMusic(perms[p], kind, c) /\ perms[p][c] # {}
    BY DEF SwitchedOnIsAllowed, MayStartMusic
  <2>4. r[p] \in [Chans -> SUBSET Rights] /\ perms[p] \in [Chans -> SUBSET Rights]
    BY <1>1 DEF TypeOK
  <2> QED BY <1>1, <1>3, <2>1, <2>2, <2>3, <2>4, SameView
<1> QED BY <1>2, <1>3

LEMMA SwitchedStep == TypeOK /\ SwitchedOnIsAllowed /\ [Next]_vars => SwitchedOnIsAllowed'
<1> SUFFICES ASSUME TypeOK, SwitchedOnIsAllowed, [Next]_vars
             PROVE  SwitchedOnIsAllowed'
    OBVIOUS
<1> USE RoutingAssumption DEF server, chain, media, vars
<1>1. ASSUME NEW p \in Conns, Join(p) PROVE SwitchedOnIsAllowed'
    BY <1>1 DEF Join, TypeOK, SwitchedOnIsAllowed, MayStartMusic
<1>2. ASSUME NEW p \in Conns, Close(p) PROVE SwitchedOnIsAllowed'
    BY <1>2 DEF Close, UserOp, TypeOK, SwitchedOnIsAllowed, MayStartMusic
<1>3. ASSUME NEW p \in Conns, NEW H \in SUBSET Chans, NEW T \in SUBSET (Conns \ {p}), State(p, H, T)
      PROVE SwitchedOnIsAllowed'
    BY <1>3 DEF State, UserOp, Enqueue, TypeOK, SwitchedOnIsAllowed, MayStartMusic
<1>4. ASSUME NEW p \in Conns, NEW c \in Chans, Music(p, c) PROVE SwitchedOnIsAllowed'
    BY <1>4 DEF Music, UserOp, Enqueue, TypeOK, SwitchedOnIsAllowed, MayStartMusic
<1>5. ASSUME NEW p \in Conns, NEW k \in ListCalls, TracksMsg(p, k) PROVE SwitchedOnIsAllowed'
    BY <1>5 DEF TracksMsg, TypeOK, SwitchedOnIsAllowed, MayStartMusic
<1>6. ASSUME NEW p \in Conns, NEW c \in Chans, NEW g \in Grants, GrantEdit(p, c, g)
      PROVE SwitchedOnIsAllowed'
  <2>1. [perms EXCEPT ![p][c] = g] \in [Conns -> [Chans -> SUBSET Rights]]
    BY SMT DEF TypeOK, Rights
  <2>2. Refresh([perms EXCEPT ![p][c] = g], kind)
    BY <1>6 DEF GrantEdit
  <2> QED BY <2>1, <2>2, RefreshClamps DEF TypeOK
<1>7. ASSUME NEW c \in Chans, NEW k \in ChanKinds, KindEdit(c, k) PROVE SwitchedOnIsAllowed'
  <2>1. [kind EXCEPT ![c] = k] \in [Chans -> Kinds]
    BY DEF TypeOK
  <2>2. Refresh(perms, [kind EXCEPT ![c] = k])
    BY <1>7 DEF KindEdit
  <2> QED BY <2>1, <2>2, RefreshClamps DEF TypeOK
<1>8. ASSUME NEW s \in Sids, PlayerStart(s) PROVE SwitchedOnIsAllowed'
    BY <1>8 DEF PlayerStart, UserOp, Enqueue, TypeOK, SwitchedOnIsAllowed, MayStartMusic
<1>9. ASSUME NEW s \in Sids, PlayerStop(s) PROVE SwitchedOnIsAllowed'
    BY <1>9 DEF PlayerStop, UserOp, Enqueue, TypeOK, SwitchedOnIsAllowed, MayStartMusic
<1>10. ASSUME NEW p \in Conns, StartPass(p) PROVE SwitchedOnIsAllowed'
    BY <1>10 DEF StartPass, Ready, TypeOK, SwitchedOnIsAllowed, MayStartMusic
<1>11. ASSUME NEW p \in Conns, CallReturns(p) PROVE SwitchedOnIsAllowed'
    BY <1>11 DEF CallReturns, TypeOK, SwitchedOnIsAllowed, MayStartMusic
<1>12. ASSUME NEW p \in Conns, CallFails(p) PROVE SwitchedOnIsAllowed'
    BY <1>12 DEF CallFails, Fault, TypeOK, SwitchedOnIsAllowed, MayStartMusic
<1>13. ASSUME NEW p \in Conns, NEW k \in ListCalls, ListReturns(p, k) PROVE SwitchedOnIsAllowed'
    BY <1>13 DEF ListReturns, Enqueue, TypeOK, SwitchedOnIsAllowed, MayStartMusic
<1>14. ASSUME NEW p \in Conns, NEW k \in ListCalls, ListFails(p, k) PROVE SwitchedOnIsAllowed'
    BY <1>14 DEF ListFails, Fault, TypeOK, SwitchedOnIsAllowed, MayStartMusic
<1>15. ASSUME NEW p \in Conns, NEW k \in ListCalls, LiveKitLists(p, k)
      PROVE SwitchedOnIsAllowed'
    BY <1>15 DEF LiveKitLists, TypeOK, SwitchedOnIsAllowed, MayStartMusic
<1>16. ASSUME NEW p \in Conns, LiveKitApplies(p) PROVE SwitchedOnIsAllowed'
    BY <1>16 DEF LiveKitApplies, TypeOK, SwitchedOnIsAllowed, MayStartMusic
<1>17. ASSUME NEW p \in Conns, EnterRoom(p) PROVE SwitchedOnIsAllowed'
    BY <1>17 DEF EnterRoom, TypeOK, SwitchedOnIsAllowed, MayStartMusic
<1>18. ASSUME NEW p \in Conns, LeaveRoom(p) PROVE SwitchedOnIsAllowed'
    BY <1>18 DEF LeaveRoom, TypeOK, SwitchedOnIsAllowed, MayStartMusic
<1>19. ASSUME NEW p \in Conns, NEW s \in Sids, Publish(p, s) PROVE SwitchedOnIsAllowed'
    BY <1>19 DEF Publish, TypeOK, SwitchedOnIsAllowed, MayStartMusic
<1>20. ASSUME NEW p \in Conns, NEW s \in Sids, Unpublish(p, s) PROVE SwitchedOnIsAllowed'
    BY <1>20 DEF Unpublish, TypeOK, SwitchedOnIsAllowed, MayStartMusic
<1>21. ASSUME NEW p \in Conns, NEW s \in Sids, LiveKitLoses(p, s) PROVE SwitchedOnIsAllowed'
    BY <1>21 DEF LiveKitLoses, Fault, TypeOK, SwitchedOnIsAllowed, MayStartMusic
<1>22. ASSUME Heal PROVE SwitchedOnIsAllowed'
    BY <1>22 DEF Heal, Enqueue, TypeOK, SwitchedOnIsAllowed, MayStartMusic
<1>24. ASSUME NEW p \in Conns, Announce(p) PROVE SwitchedOnIsAllowed'
    BY <1>24 DEF Announce, TypeOK, SwitchedOnIsAllowed, MayStartMusic
<1>23. CASE UNCHANGED vars
    BY <1>23 DEF SwitchedOnIsAllowed, MayStartMusic
<1> QED
    BY <1>1, <1>2, <1>3, <1>4, <1>5, <1>6, <1>7, <1>8, <1>9, <1>10, <1>11, <1>12, <1>13, <1>14, <1>15, <1>16, <1>17, <1>18, <1>19, <1>20, <1>21, <1>22, <1>23, <1>24
    DEF Next, ServerStep, Outside, Edit

-----------------------------------------------------------------------------
\* The invariant holds initially ...
LEMMA InitInv == Init => IInv
BY RoutingAssumption DEF Init, IInv, TypeOK, MediaInv, TracksInv, NewInv, HeldInv, Held,
   PassInv, Idle, Pass, NoCall, ListCall

\* ... and every step keeps it.
LEMMA IndStep == IInv /\ [Next]_vars => IInv'
<1> SUFFICES ASSUME IInv, [Next]_vars
             PROVE  IInv'
    OBVIOUS
<1>1. NoFailedCall' => NoFailedCall
  BY FaultsGrow DEF IInv, NoFailedCall
<1> QED
    BY <1>1, TypeStep, MediaStep, TracksStep, NewStep, HeldStep, PassStep DEF IInv

\* The invariant says of a chain that has run dry what the property says.
LEMMA InvRevoked == IInv => RevokedIsDropped
<1> SUFFICES ASSUME IInv, NoFailedCall, NEW L \in peers, Quiet(L)
             PROVE  actual[L] \cap Live \subseteq wantedSids(L) \cup lost
    BY DEF RevokedIsDropped, NoFailedCall
<1>1. RunDry(L) /\ L \in Conns
  BY DEF IInv, PassInv, PassOK, Quiet, TypeOK
<1>2. wantedSids(L) = {s \in Live : Allowed(L, s)}
  BY <1>1, WantedIsAllowed DEF IInv
<1> QED BY <1>1, <1>2 DEF RunDry, Known, Live

\* Every variable keeps its type, for any constants.
THEOREM TypeCorrect == Spec => []TypeOK
<1>1. Init => TypeOK
  BY InitInv DEF IInv
<1> QED BY <1>1, TypeStep, PTL DEF Spec

\* Nobody stays switched on where it lost the right (refreshAll, server.js:302).
THEOREM SwitchedOnAllowed == Spec => []SwitchedOnIsAllowed
<1>1. Init => SwitchedOnIsAllowed
  BY DEF Init, SwitchedOnIsAllowed
<1> QED BY <1>1, TypeCorrect, SwitchedStep, PTL DEF Spec

\* A reconcile chain that has run dry leaves its listener subscribed to nothing
\* it may not receive, if no call failed: for any number of list calls of a peer in
\* flight, answered in any order, but for the tracks that a late answer took out of
\* the server's sight (reconcile, refreshTracks and the heal timer).
THEOREM RevokedGetsDropped == Spec => []RevokedIsDropped
<1>1. IInv /\ [Next]_vars => IInv'
  BY IndStep
<1> QED BY <1>1, InitInv, InvRevoked, PTL DEF Spec
=============================================================================
